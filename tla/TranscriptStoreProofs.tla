------------------------ MODULE TranscriptStoreProofs ------------------------
(***************************************************************************)
(* Theorems about TranscriptStore, for every set of segments, any number   *)
(* of revisions of each, with and without text, any number of collectors   *)
(* that take the entries of one another, every set of withdrawal reasons   *)
(* and any number of failures.                                             *)
(***************************************************************************)
EXTENDS TranscriptStore, TLAPS

-----------------------------------------------------------------------------
(* What a collector does short of the append is to its messages alone. *)

Moves(c) ==
  \/ (\E s \in Segments : Deliver(c, s)) \/ (\E m \in orphans : Reclaim(c, m))
  \/ Lease(c) \/ LeaseRefused(c) \/ Release(c) \/ IngestCrash(c) \/ Stall(c)

LEMMA MovesDo ==
  ASSUME NEW c \in Collectors, Moves(c)
  PROVE  UNCHANGED <<row, stored, hash, fresh, flush, final, summary, clobbered, overtaken, last>>
  BY DEF Moves, Deliver, Reclaim, Lease, LeaseRefused, Release, IngestCrash, Stall, history

-----------------------------------------------------------------------------
(* What is erased stays erased. *)

RowType == [present : BOOLEAN, ended : BOOLEAN, withdrawn : Tombstones \cup {"no"},
            erasing : BOOLEAN, expired : SUBSET Scopes, summary : BOOLEAN]

RowOK == row \in RowType

LEMMA ErasedInit == Init => RowOK /\ ErasedForGood
<1> SUFFICES ASSUME Init PROVE RowOK /\ ErasedForGood
  OBVIOUS
<1>1. row = [present |-> TRUE, ended |-> FALSE, withdrawn |-> "no",
             erasing |-> FALSE, expired |-> {}, summary |-> FALSE]
  BY DEF Init
<1> QED
  BY <1>1 DEF RowOK, RowType, ErasedForGood

LEMMA RowStep ==
  ASSUME RowOK, [Next]_vars
  PROVE  RowOK'
<1> USE DEF RowOK, RowType, history
<1>1. ASSUME NEW c \in Collectors, Moves(c) PROVE RowOK'
  BY <1>1, MovesDo
<1>2. CASE (\E c \in Collectors : AppendSegment(c)) \/ Settle
  BY <1>2 DEF AppendSegment, Settle
<1>3. ASSUME NEW p \in Flushers, Snapshot(p) \/ Upsert(p) \/ UpsertRefused(p) \/ Drop(p) \/ Purge(p) \/ UpsertFails(p) \/ FlushCrash(p) PROVE RowOK'
  BY <1>3 DEF Snapshot, Upsert, UpsertRefused, Drop, Purge, UpsertFails, FlushCrash
<1>4. CASE SummaryPick \/ SummaryGivesUp
  BY <1>4 DEF SummaryPick, SummaryGivesUp
<1>5. CASE SummaryWrite
  BY <1>5 DEF SummaryWrite
<1>6. CASE End
  BY <1>6 DEF End
<1>7. ASSUME NEW reason \in Tombstones, Withdraw(reason) PROVE RowOK'
  BY <1>7 DEF Withdraw
<1>8. CASE BeginErasure
  BY <1>8 DEF BeginErasure
<1>9. CASE CommitErasure
  BY <1>9 DEF CommitErasure
<1>10. CASE ExpireTranscript
  BY <1>10 DEF ExpireTranscript, Scopes
<1>11. CASE ExpireSummary
  BY <1>11 DEF ExpireSummary, Scopes
<1>12. CASE UNCHANGED vars
  BY <1>12 DEF vars, collectors
<1> QED
  BY <1>1, <1>2, <1>3, <1>4, <1>5, <1>6, <1>7, <1>8, <1>9, <1>10, <1>11, <1>12 DEF Next, Collect, Ingest, Moves, Flush, Summarize

LEMMA ErasedStep ==
  ASSUME RowOK, ErasedForGood, [Next]_vars
  PROVE  ErasedForGood'
<1> USE DEF ErasedForGood, RowOK, RowType, history
<1>1. ASSUME NEW c \in Collectors, Moves(c) PROVE ErasedForGood'
  BY <1>1, MovesDo
<1>2. CASE (\E c \in Collectors : AppendSegment(c)) \/ Settle
  BY <1>2 DEF AppendSegment, Settle
<1>3. ASSUME NEW p \in Flushers, Snapshot(p) \/ UpsertRefused(p) \/ Drop(p) \/ Purge(p) \/ UpsertFails(p) \/ FlushCrash(p) PROVE ErasedForGood'
  BY <1>3 DEF Snapshot, UpsertRefused, Drop, Purge, UpsertFails, FlushCrash
<1>4. ASSUME NEW p \in Flushers, Upsert(p) PROVE ErasedForGood'
  BY <1>4 DEF Upsert, Refused
<1>5. CASE SummaryPick \/ SummaryGivesUp
  BY <1>5 DEF SummaryPick, SummaryGivesUp
<1>6. CASE SummaryWrite
  BY <1>6 DEF SummaryWrite, Refused
<1>7. CASE End
  BY <1>7 DEF End
<1>8. ASSUME NEW reason \in Tombstones, Withdraw(reason) PROVE ErasedForGood'
  BY <1>8 DEF Withdraw
<1>9. CASE BeginErasure
  BY <1>9 DEF BeginErasure
<1>10. CASE CommitErasure
  BY <1>10 DEF CommitErasure
<1>11. CASE ExpireTranscript
  BY <1>11 DEF ExpireTranscript, Expirable
<1>12. CASE ExpireSummary
  BY <1>12 DEF ExpireSummary, Expirable
<1>13. CASE UNCHANGED vars
  BY <1>13 DEF vars, collectors
<1> QED
  BY <1>1, <1>2, <1>3, <1>4, <1>5, <1>6, <1>7, <1>8, <1>9, <1>10, <1>11, <1>12, <1>13 DEF Next, Collect, Ingest, Moves, Flush, Summarize

\* No flush, summary or message that was under way brings anything back to
\* PostgreSQL once commit_erasure is through.
THEOREM ErasureIsFinal == Spec => []ErasedForGood
<1>1. RowOK /\ ErasedForGood /\ [Next]_vars => RowOK' /\ ErasedForGood'
  BY RowStep, ErasedStep
<1> QED
  BY ErasedInit, <1>1, PTL DEF Spec

-----------------------------------------------------------------------------
(* Types. *)

FlushType == [pc : {"idle", "upsert", "drop", "purge"}, batch : Revisions, drop : Revisions]
IngestType == [pc : {"idle", "lease", "append", "release"}, message : Message \cup {NoMessage}]

StoresOK == /\ stored \in Revisions /\ hash \in Revisions /\ last \in Revisions
            /\ fresh \subseteq Held(hash)
FeedOK == /\ delivered \in Revisions
          /\ orphans \subseteq Message /\ acked \subseteq Message
CountsOK == clobbered \cup overtaken \subseteq Segments /\ faults \in 0 .. MaxFaults
WorkersOK == /\ flush \in [Flushers -> FlushType]
             /\ final \in {"not due", "due", "begun"} /\ summary \in {"idle", "asked"}
CollectorsOK == ingest \in [Collectors -> IngestType]

\* A collector that is not idle is at a message.
InHand == \A c \in Collectors : ingest[c].pc # "idle" => ingest[c].message \in Message

Shape == RowOK /\ StoresOK /\ FeedOK /\ CountsOK /\ WorkersOK /\ CollectorsOK /\ InHand

LEMMA ShapeGivesTypes == Shape => TypeOK
<1> SUFFICES ASSUME Shape PROVE TypeOK
  OBVIOUS
<1>1. /\ row \in [present : BOOLEAN, ended : BOOLEAN, withdrawn : Tombstones \cup {"no"},
                  erasing : BOOLEAN, expired : SUBSET Scopes, summary : BOOLEAN]
      /\ {stored, hash, delivered, last} \subseteq Revisions /\ fresh \subseteq Held(hash)
      /\ orphans \subseteq Message /\ acked \subseteq Message
      /\ clobbered \cup overtaken \subseteq Segments /\ faults \in 0 .. MaxFaults
      /\ final \in {"not due", "due", "begun"} /\ summary \in {"idle", "asked"}
  BY DEF Shape, RowOK, RowType, StoresOK, FeedOK, CountsOK, WorkersOK
<1>2. ingest \in [Collectors -> [pc : {"idle", "lease", "append", "release"},
                                message : Message \cup {NoMessage}]]
  BY DEF Shape, CollectorsOK, IngestType
<1>3. flush \in [Flushers -> [pc : {"idle", "upsert", "drop", "purge"},
                             batch : Revisions, drop : Revisions]]
  BY DEF Shape, WorkersOK, FlushType
<1> QED
  BY <1>1, <1>2, <1>3 DEF TypeOK

LEMMA ZeroRevision == MaxRevision \in Nat /\ 0 \in 0 .. MaxRevision
  BY BoundsAssumption

LEMMA NothingType == Nothing \in Revisions /\ Idle \in FlushType
  BY BoundsAssumption DEF Nothing, Revisions, Idle, FlushType

LEMMA WaitingType == Waiting \in IngestType /\ Waiting.pc = "idle"
  BY DEF Waiting, IngestType

\* What is taken out of a hash leaves the rest of it as it was.
LEMMA WithoutType ==
  ASSUME NEW h \in Revisions, NEW S \in SUBSET Segments
  PROVE  /\ Without(h, S) \in Revisions
         /\ \A s \in Segments : Without(h, S)[s] = IF s \in S THEN 0 ELSE h[s]
         /\ Held(Without(h, S)) = Held(h) \ S
  BY BoundsAssumption DEF Without, Revisions, Held

LEMMA InitShape == Init => Shape
<1> SUFFICES ASSUME Init PROVE Shape
  OBVIOUS
<1>1. RowOK
  BY ErasedInit
<1>2. StoresOK /\ FeedOK
  BY NothingType DEF Init, StoresOK, FeedOK
<1>3. CountsOK
  <2>1. overtaken = {} /\ clobbered = {} /\ faults = 0
    BY DEF Init
  <2> QED
    BY <2>1, BoundsAssumption DEF CountsOK
<1>4. WorkersOK
  BY NothingType DEF Init, WorkersOK
<1>5. CollectorsOK /\ InHand
  BY WaitingType DEF Init, CollectorsOK, InHand
<1> QED
  BY <1>1, <1>2, <1>3, <1>4, <1>5 DEF Shape

\* A collector takes up a message of the stream, goes on with it or is through
\* with it.
LEMMA IngestSteps ==
  ASSUME Shape, NEW c \in Collectors, Moves(c) \/ AppendSegment(c)
  PROVE  /\ \A d \in Collectors : d # c => ingest'[d] = ingest[d]
         /\ ingest'[c] \in IngestType
         /\ ingest'[c].pc # "idle" => ingest'[c].message \in Message
         /\ ingest' \in [Collectors -> IngestType]
         /\ ingest'[c].pc = "release" => \/ ingest'[c] = ingest[c]
                                         \/ AppendSegment(c) /\ ingest'[c].message = ingest[c].message
<1> USE DEF Shape, CollectorsOK
<1>1. ASSUME NEW m \in Message, Take(c, m)
      PROVE  /\ \A d \in Collectors : d # c => ingest'[d] = ingest[d]
             /\ ingest'[c] = [pc |-> "lease", message |-> m]
             /\ ingest' \in [Collectors -> IngestType]
             /\ ingest'[c] \in IngestType
  <2>1. [pc |-> "lease", message |-> m] \in IngestType
    BY DEF IngestType
  <2> QED
    BY <1>1, <2>1 DEF Take
<1>2. ASSUME NEW s \in Segments, Deliver(c, s)
      PROVE  \E m \in Message : Take(c, m)
  <2>1. [segment |-> s, revision |-> delivered[s] + 1] \in Message
    BY <1>2, BoundsAssumption DEF Deliver, FeedOK, Revisions, Message
  <2> QED
    BY <1>2, <2>1 DEF Deliver
<1>3. ASSUME NEW m \in orphans, Reclaim(c, m) PROVE m \in Message /\ Take(c, m)
  BY <1>3 DEF Reclaim, FeedOK
<1>4. CASE \E m \in Message : Take(c, m)
  <2>1. PICK m \in Message : Take(c, m)
    BY <1>4
  <2>2. /\ \A d \in Collectors : d # c => ingest'[d] = ingest[d]
        /\ ingest'[c] = [pc |-> "lease", message |-> m]
        /\ ingest' \in [Collectors -> IngestType] /\ ingest'[c] \in IngestType
    BY <1>1, <2>1
  <2>3. ingest'[c].pc = "lease" /\ ingest'[c].message = m
    BY <2>2
  <2> QED
    BY <2>2, <2>3
<1>5. CASE LeaseRefused(c) \/ Release(c) \/ IngestCrash(c)
  <2>1. ingest' = [ingest EXCEPT ![c] = Waiting]
    BY <1>5 DEF LeaseRefused, Release, IngestCrash, Acknowledge
  <2> QED
    BY <2>1, WaitingType
<1>6. CASE Lease(c) \/ AppendSegment(c)
  <2>1. PICK pc \in {"append", "release"} : ingest' = [ingest EXCEPT ![c].pc = pc] /\ (pc = "release" => AppendSegment(c))
    BY <1>6 DEF Lease, AppendSegment
  <2>2. ingest[c] \in IngestType /\ ingest[c].message \in Message
    BY <1>6 DEF Lease, AppendSegment, InHand
  <2>3. /\ \A d \in Collectors : d # c => ingest'[d] = ingest[d]
        /\ ingest'[c].pc = pc /\ ingest'[c].message = ingest[c].message
        /\ ingest'[c] \in IngestType /\ ingest' \in [Collectors -> IngestType]
    BY <2>1, <2>2 DEF IngestType
  <2> QED
    BY <2>1, <2>2, <2>3
<1>7. CASE Stall(c)
  BY <1>7 DEF Stall, InHand
<1> QED
  BY <1>2, <1>3, <1>4, <1>5, <1>6, <1>7 DEF Moves

LEMMA CollectorsKept ==
  ASSUME Shape, [Next]_vars
  PROVE  CollectorsOK' /\ InHand'
<1> USE DEF history
<1>1. ASSUME NEW c \in Collectors, Moves(c) \/ AppendSegment(c) PROVE CollectorsOK' /\ InHand'
  BY <1>1, IngestSteps DEF Shape, CollectorsOK, InHand
<1>2. CASE UNCHANGED ingest
  BY <1>2 DEF Shape, CollectorsOK, InHand
<1> QED
  BY <1>1, <1>2
     DEF Next, Collect, Ingest, Moves, Flush, Summarize, vars, collectors, Settle, Snapshot,
         Upsert, UpsertRefused, UpsertFails, FlushCrash, Drop, Purge, SummaryPick,
         SummaryWrite, SummaryGivesUp, End, Withdraw, BeginErasure, CommitErasure,
         ExpireTranscript, ExpireSummary

LEMMA FeedKept ==
  ASSUME Shape, [Next]_vars
  PROVE  FeedOK'
<1> USE DEF Shape, FeedOK, history
<1>1. ASSUME NEW c \in Collectors, NEW s \in Segments, Deliver(c, s) PROVE FeedOK'
  <2>1. delivered[s] + 1 \in 0 .. MaxRevision
    BY <1>1, BoundsAssumption DEF Deliver, Revisions
  <2> QED
    BY <1>1, <2>1 DEF Deliver, Revisions
<1>2. ASSUME NEW c \in Collectors, NEW m \in orphans, Reclaim(c, m) PROVE FeedOK'
  BY <1>2 DEF Reclaim
<1>3. ASSUME NEW c \in Collectors, LeaseRefused(c) \/ Release(c) PROVE FeedOK'
  <2>1. ingest[c].message \in Message
    BY <1>3 DEF LeaseRefused, Release, InHand
  <2> QED
    BY <1>3, <2>1 DEF LeaseRefused, Release, Acknowledge
<1>4. ASSUME NEW c \in Collectors, IngestCrash(c) \/ Stall(c) PROVE FeedOK'
  BY <1>4 DEF IngestCrash, Stall, InHand
<1>5. CASE UNCHANGED <<delivered, orphans, acked>>
  BY <1>5
<1> QED
  BY <1>1, <1>2, <1>3, <1>4, <1>5
     DEF Next, Collect, Ingest, Flush, Summarize, vars, collectors, Lease, AppendSegment,
         Settle, Snapshot, Upsert, UpsertRefused, UpsertFails, FlushCrash, Drop, Purge,
         SummaryPick, SummaryWrite, SummaryGivesUp, End, Withdraw, BeginErasure,
         CommitErasure, ExpireTranscript, ExpireSummary

LEMMA CountsKept ==
  ASSUME Shape, [Next]_vars
  PROVE  CountsOK'
<1> USE DEF Shape, CountsOK, history
<1>1. CASE UNCHANGED faults \/ Fault
  <2>1. faults' \in 0 .. MaxFaults
    BY <1>1, BoundsAssumption DEF Fault
  <2>2. ASSUME NEW c \in Collectors, AppendSegment(c) PROVE CountsOK'
    BY <2>1, <2>2 DEF AppendSegment, InHand, Message
  <2>3. ASSUME NEW p \in Flushers, Upsert(p) \/ Drop(p) PROVE CountsOK'
    BY <2>1, <2>3 DEF Upsert, Drop, Held
  <2>4. CASE UNCHANGED <<clobbered, overtaken>>
    BY <2>1, <2>4
  <2>5. ASSUME NEW c \in Collectors, Moves(c) PROVE UNCHANGED <<clobbered, overtaken>>
    BY <2>5, MovesDo
  <2> QED
    BY <2>2, <2>3, <2>4, <2>5
       DEF Next, Collect, Ingest, Moves, Flush, Summarize, vars, Settle, Snapshot,
           UpsertRefused, UpsertFails, FlushCrash, Purge, SummaryPick, SummaryWrite,
           SummaryGivesUp, End, Withdraw, BeginErasure, CommitErasure, ExpireTranscript,
           ExpireSummary
<1> QED
  BY <1>1 DEF Next, Collect, Ingest, Flush, Summarize, vars, Deliver, Reclaim, Lease,
              LeaseRefused, Release, IngestCrash, Stall, AppendSegment, Settle, Snapshot,
              Upsert, UpsertRefused, UpsertFails, FlushCrash, Drop, Purge, SummaryPick,
              SummaryWrite, SummaryGivesUp, End, Withdraw, BeginErasure, CommitErasure,
              ExpireTranscript, ExpireSummary

LEMMA WorkersKept ==
  ASSUME Shape, [Next]_vars
  PROVE  WorkersOK'
<1> USE DEF Shape, WorkersOK, history
<1>1. ASSUME NEW c \in Collectors, Moves(c) PROVE WorkersOK'
  BY <1>1, MovesDo
<1>2. CASE (\E c \in Collectors : AppendSegment(c)) \/ Settle
  BY <1>2 DEF AppendSegment, Settle
<1>5. ASSUME NEW p \in Flushers, Snapshot(p) PROVE WorkersOK'
  <2> DEFINE taken == Without(hash, IF p = "tick" THEN fresh ELSE {})
             batch == [s \in Segments |-> IF taken[s] \in Blank THEN 0 ELSE taken[s]]
  <2>1. taken \in Revisions
    BY WithoutType DEF Shape, StoresOK, Held
  <2>2. batch \in Revisions
    <3>1. \A s \in Segments : (IF taken[s] \in Blank THEN 0 ELSE taken[s]) \in 0 .. MaxRevision
      <4> SUFFICES ASSUME NEW s \in Segments
                   PROVE  (IF taken[s] \in Blank THEN 0 ELSE taken[s]) \in 0 .. MaxRevision
        OBVIOUS
      <4>1. taken[s] \in 0 .. MaxRevision
        BY <2>1 DEF Revisions
      <4>2. 0 \in 0 .. MaxRevision
        BY ZeroRevision
      <4> QED
        BY <4>1, <4>2, Zenon
    <3> QED
      BY <3>1, Zenon DEF Revisions
  <2>3. flush' = [flush EXCEPT ![p] =
             [batch |-> batch, drop |-> taken,
              pc |-> IF Held(batch) # {} THEN "upsert"
                     ELSE IF Held(taken) # {} THEN "drop" ELSE "idle"]]
    BY <1>5 DEF Snapshot
  <2> HIDE DEF taken, batch
  <2>4. flush' \in [Flushers -> FlushType]
    BY <2>1, <2>2, <2>3 DEF FlushType
  <2> QED
    BY <1>5, <2>4 DEF Snapshot
<1>6. ASSUME NEW p \in Flushers, Upsert(p) \/ UpsertRefused(p) PROVE WorkersOK'
  BY ZenonT(30), <1>6 DEF Upsert, UpsertRefused, FlushTo, FlushType
<1>7. ASSUME NEW p \in Flushers, Drop(p) \/ Purge(p) \/ UpsertFails(p) \/ FlushCrash(p) PROVE WorkersOK'
  BY <1>7, NothingType DEF Drop, Purge, UpsertFails, FlushCrash, FlushOver
<1>8. CASE SummaryPick \/ SummaryWrite \/ SummaryGivesUp
  BY <1>8 DEF SummaryPick, SummaryWrite, SummaryGivesUp
<1>9. CASE End
  BY <1>9 DEF End
<1>10. ASSUME NEW reason \in Tombstones, Withdraw(reason) PROVE WorkersOK'
  BY <1>10 DEF Withdraw
<1>11. CASE BeginErasure \/ CommitErasure \/ ExpireTranscript \/ ExpireSummary
  BY <1>11 DEF BeginErasure, CommitErasure, ExpireTranscript, ExpireSummary
<1>12. CASE UNCHANGED vars
  BY <1>12 DEF vars, collectors
<1> QED
  BY <1>1, <1>2, <1>5, <1>6, <1>7, <1>8, <1>9, <1>10, <1>11, <1>12 DEF Next, Collect, Ingest, Moves, Flush, Summarize

LEMMA StoresKept ==
  ASSUME Shape, [Next]_vars
  PROVE  StoresOK'
<1> USE DEF Shape, StoresOK, history
<1>1. ASSUME NEW c \in Collectors, Moves(c) PROVE StoresOK'
  BY <1>1, MovesDo
<1>2. ASSUME NEW c \in Collectors, AppendSegment(c) PROVE StoresOK'
  <2>1. ingest[c].message \in Message
    BY <1>2 DEF AppendSegment, InHand
  <2> QED
    BY <1>2, <2>1 DEF AppendSegment, Message, Revisions, Held
<1>6. CASE Settle
  BY <1>6 DEF Settle
<1>7. ASSUME NEW p \in Flushers, Snapshot(p) \/ UpsertRefused(p) \/ UpsertFails(p) \/ FlushCrash(p) PROVE StoresOK'
  BY <1>7 DEF Snapshot, UpsertRefused, UpsertFails, FlushCrash
<1>8. ASSUME NEW p \in Flushers, Upsert(p) PROVE StoresOK'
  BY <1>8 DEF Upsert, WorkersOK, FlushType, Revisions
<1>9. ASSUME NEW p \in Flushers, Drop(p) PROVE StoresOK'
  <2>1. PICK gone \in SUBSET Segments : hash' = Without(hash, gone) /\ fresh' = fresh \ gone
    BY <1>9 DEF Drop, Held
  <2>2. hash' \in Revisions /\ Held(hash') = Held(hash) \ gone
    BY <2>1, WithoutType
  <2>3. fresh' \subseteq Held(hash')
    BY <2>1, <2>2
  <2>4. stored' = stored /\ last' = last
    BY <1>9 DEF Drop
  <2>5. fresh' \subseteq Held(hash)'
    BY <2>3 DEF Held
  <2> QED
    BY <2>2, <2>4, <2>5
<1>10. ASSUME NEW p \in Flushers, Purge(p) PROVE StoresOK'
  BY <1>10, NothingType DEF Purge
<1>11. CASE SummaryPick \/ SummaryWrite \/ SummaryGivesUp \/ End
  BY <1>11 DEF SummaryPick, SummaryWrite, SummaryGivesUp, End
<1>12. ASSUME NEW reason \in Tombstones, Withdraw(reason) PROVE StoresOK'
  BY <1>12 DEF Withdraw
<1>13. CASE BeginErasure \/ ExpireSummary
  BY <1>13 DEF BeginErasure, ExpireSummary
<1>14. CASE CommitErasure \/ ExpireTranscript
  BY <1>14, NothingType DEF CommitErasure, ExpireTranscript
<1>15. CASE UNCHANGED vars
  BY <1>15 DEF vars, collectors
<1> QED
  BY <1>1, <1>2, <1>6, <1>7, <1>8, <1>9, <1>10, <1>11, <1>12, <1>13, <1>14, <1>15 DEF Next, Collect, Ingest, Moves, Flush, Summarize

LEMMA NextShape == Shape /\ [Next]_vars => Shape'
  BY RowStep, WorkersKept, StoresKept, FeedKept, CountsKept, CollectorsKept DEF Shape

-----------------------------------------------------------------------------
(* What was said is kept. *)

\* What the hash holds of a segment is what was appended last.
HashIsLast == \A s \in Segments : hash[s] # 0 => hash[s] = last[s]

\* A flusher writes what it read and found text in.
Taken == \A p \in Flushers, s \in Segments :
  flush[p].drop[s] # 0 => flush[p].drop[s] \in Blank \/ flush[p].batch[s] = flush[p].drop[s]

\* A field that is to be dropped has no text or its text is stored, or worse befell
\* it.
Dropping == \A p \in Flushers, s \in Segments :
  flush[p].pc = "drop" /\ flush[p].drop[s] # 0
    => \/ flush[p].drop[s] \in Blank \/ stored[s] >= flush[p].drop[s]
       \/ ToBeGone \/ s \in clobbered

\* A flusher purges the hash only of what may not be kept.
Purging == \A p \in Flushers : flush[p].pc = "purge" => ToBeGone

\* A message was written, or an older one was written over what it wrote, or there
\* was no writing it.
Written(m) == m.revision <= last[m.segment] \/ m.segment \in overtaken \/ Refused(row)

AckedIsWritten ==
  /\ \A m \in acked : Written(m)
  /\ \A c \in Collectors : ingest[c].pc = "release" => Written(ingest[c].message)

\* What is refused or to be gone is not taken back.
LEMMA GoneStays ==
  ASSUME Shape, [Next]_vars
  PROVE  (ToBeGone => ToBeGone') /\ (Refused(row) => Refused(row'))
<1> USE DEF Shape, RowOK, RowType, ToBeGone, Refused, history
<1>1. CASE UNCHANGED row
  BY <1>1
<1>2. CASE SummaryWrite
  BY <1>2 DEF SummaryWrite
<1>3. CASE End
  BY <1>3 DEF End
<1>4. CASE \E reason \in Tombstones : Withdraw(reason)
  BY <1>4, BoundsAssumption DEF Withdraw, Privacy
<1>5. CASE BeginErasure
  BY <1>5 DEF BeginErasure
<1>6. CASE CommitErasure
  BY <1>6 DEF CommitErasure
<1>7. CASE ExpireTranscript
  BY <1>7 DEF ExpireTranscript
<1>8. CASE ExpireSummary
  BY <1>8 DEF ExpireSummary
<1>9. ASSUME NEW c \in Collectors, Moves(c) PROVE UNCHANGED row
  BY <1>9, MovesDo
<1> QED
  BY <1>1, <1>2, <1>3, <1>4, <1>5, <1>6, <1>7, <1>8, <1>9
     DEF Next, Collect, Ingest, Moves, Flush, Summarize, vars, AppendSegment,
         Settle, Snapshot, Upsert, UpsertRefused, Drop, Purge, UpsertFails,
         FlushCrash, SummaryPick, SummaryGivesUp

\* The append of a message is the last one of its segment.
LEMMA AppendDoes ==
  ASSUME Shape, NEW c \in Collectors, AppendSegment(c)
  PROVE  LET m == ingest[c].message IN
         /\ m \in Message /\ m.segment \in Segments /\ m.revision \in 1 .. MaxRevision
         /\ hash'[m.segment] = m.revision /\ last'[m.segment] = m.revision
         /\ \A s \in Segments : s # m.segment => hash'[s] = hash[s] /\ last'[s] = last[s]
         /\ m.revision < last[m.segment] => m.segment \in overtaken'
         /\ overtaken \subseteq overtaken'
         /\ UNCHANGED <<row, stored, flush, clobbered, orphans, acked>>
<1> DEFINE m == ingest[c].message
<1>1. m \in Message
  BY DEF AppendSegment, Shape, InHand
<1>2. m.segment \in Segments /\ m.revision \in 1 .. MaxRevision
  BY <1>1 DEF Message
<1>3. /\ hash' = [hash EXCEPT ![m.segment] = m.revision]
      /\ last' = [last EXCEPT ![m.segment] = m.revision]
      /\ overtaken' = IF m.revision < last[m.segment] THEN overtaken \cup {m.segment}
                      ELSE overtaken
      /\ UNCHANGED <<row, stored, flush, clobbered, orphans, acked>>
  BY DEF AppendSegment
<1>4. hash \in Revisions /\ last \in Revisions
  BY DEF Shape, StoresOK
<1> HIDE DEF m
<1>5. /\ hash'[m.segment] = m.revision /\ last'[m.segment] = m.revision
      /\ \A s \in Segments : s # m.segment => hash'[s] = hash[s] /\ last'[s] = last[s]
  BY <1>2, <1>3, <1>4 DEF Revisions
<1>6. /\ m.revision < last[m.segment] => m.segment \in overtaken'
      /\ overtaken \subseteq overtaken'
  BY <1>3
<1> QED
  BY <1>1, <1>2, <1>3, <1>5, <1>6 DEF m

LEMMA HashIsLastKept ==
  ASSUME Shape, HashIsLast, [Next]_vars
  PROVE  HashIsLast'
<1> USE DEF HashIsLast, history
<1>1. ASSUME NEW c \in Collectors, Moves(c) PROVE HashIsLast'
  BY <1>1, MovesDo
<1>2. ASSUME NEW c \in Collectors, AppendSegment(c) PROVE HashIsLast'
  BY <1>2, AppendDoes
<1>3. CASE \E p \in Flushers : Drop(p)
  BY <1>3 DEF Drop, Without
<1>4. CASE \E p \in Flushers : Purge(p)
  BY <1>4 DEF Purge, Nothing
<1>5. CASE UNCHANGED <<hash, last>>
  BY <1>5
<1> QED
  BY <1>1, <1>2, <1>3, <1>4, <1>5
     DEF Next, Collect, Ingest, Moves, Flush, Summarize, vars, Settle, Snapshot, Upsert,
         UpsertRefused, UpsertFails, FlushCrash, SummaryPick, SummaryWrite,
         SummaryGivesUp, End, Withdraw, BeginErasure, CommitErasure, ExpireTranscript,
         ExpireSummary

\* What a snapshot takes.
LEMMA SnapshotDoes ==
  ASSUME Shape, NEW p \in Flushers, Snapshot(p)
  PROVE  /\ \A q \in Flushers : q # p => flush'[q] = flush[q]
         /\ flush'[p].pc \in {"upsert", "drop", "idle"}
         /\ flush'[p].pc = "drop" => \A s \in Segments : flush'[p].batch[s] = 0
         /\ \A s \in Segments :
              /\ flush'[p].drop[s] \in {0, hash[s]}
              /\ flush'[p].drop[s] # 0 => \/ flush'[p].drop[s] \in Blank
                                          \/ flush'[p].batch[s] = flush'[p].drop[s]
<1> USE DEF Shape, StoresOK, WorkersOK
<1> DEFINE taken == Without(hash, IF p = "tick" THEN fresh ELSE {})
           batch == [s \in Segments |-> IF taken[s] \in Blank THEN 0 ELSE taken[s]]
           pc == IF Held(batch) # {} THEN "upsert"
                 ELSE IF Held(taken) # {} THEN "drop" ELSE "idle"
<1>1. flush' = [flush EXCEPT ![p] = [batch |-> batch, drop |-> taken, pc |-> pc]]
  BY DEF Snapshot
<1>2. \A s \in Segments : taken[s] \in {0, hash[s]}
  <2>1. PICK S \in SUBSET Segments : taken = Without(hash, S)
    BY DEF Held
  <2> HIDE DEF taken
  <2>2. hash \in Revisions
    OBVIOUS
  <2>3. \A s \in Segments : taken[s] = IF s \in S THEN 0 ELSE hash[s]
    BY <2>1 DEF Without
  <2> QED
    BY <2>3
<1>3. \A s \in Segments : taken[s] \in Blank \/ batch[s] = taken[s]
  OBVIOUS
<1>4. pc = "drop" => \A s \in Segments : batch[s] = 0
  BY DEF Held
<1>5. pc \in {"upsert", "drop", "idle"}
  OBVIOUS
<1> HIDE DEF taken, batch, pc
<1>6. flush'[p].batch = batch /\ flush'[p].drop = taken /\ flush'[p].pc = pc
  BY <1>1
<1>7. \A q \in Flushers : q # p => flush'[q] = flush[q]
  BY <1>1
<1> QED
  BY <1>2, <1>3, <1>4, <1>5, <1>6, <1>7

LEMMA FlushNumbers ==
  ASSUME Shape, NEW p \in Flushers, NEW s \in Segments
  PROVE  flush[p].batch[s] \in Nat /\ flush[p].drop[s] \in Nat
<1>1. flush[p] \in FlushType
  BY DEF Shape, WorkersOK
<1>2. flush[p].batch \in Revisions /\ flush[p].drop \in Revisions
  BY <1>1 DEF FlushType
<1> QED
  BY <1>2 DEF Revisions

\* A flusher that moves on keeps what it read; one that is through has nothing.
LEMMA FlushToDoes ==
  ASSUME Shape, NEW p \in Flushers, NEW pc \in {"upsert", "drop", "purge"}, FlushTo(p, pc)
  PROVE  /\ \A q \in Flushers : q # p => flush'[q] = flush[q]
         /\ flush'[p].pc = pc
         /\ flush'[p].batch = flush[p].batch /\ flush'[p].drop = flush[p].drop
  BY DEF Shape, WorkersOK, FlushType, FlushTo

LEMMA FlushOverDoes ==
  ASSUME Shape, NEW p \in Flushers, FlushOver(p)
  PROVE  /\ \A q \in Flushers : q # p => flush'[q] = flush[q]
         /\ flush'[p].pc = "idle"
         /\ \A s \in Segments : flush'[p].batch[s] = 0 /\ flush'[p].drop[s] = 0
<1>1. flush'[p] = Idle /\ \A q \in Flushers : q # p => flush'[q] = flush[q]
  BY DEF Shape, WorkersOK, FlushOver
<1> QED
  BY <1>1 DEF Idle, Nothing

LEMMA StoresNumbers ==
  ASSUME Shape, NEW s \in Segments
  PROVE  hash[s] \in Nat /\ stored[s] \in Nat /\ last[s] \in Nat
  BY DEF Shape, StoresOK, Revisions

LEMMA TakenKept ==
  ASSUME Shape, Taken, [Next]_vars
  PROVE  Taken'
<1> USE DEF Taken, history
<1>1. ASSUME NEW p \in Flushers, Snapshot(p) PROVE Taken'
  BY <1>1, SnapshotDoes
<1>2. ASSUME NEW p \in Flushers, Upsert(p) \/ UpsertRefused(p) PROVE Taken'
  <2>1. FlushTo(p, "drop") \/ FlushTo(p, "purge")
    BY <1>2 DEF Upsert, UpsertRefused
  <2> QED
    BY <2>1, FlushToDoes
<1>3. ASSUME NEW p \in Flushers, UpsertFails(p) \/ FlushCrash(p) \/ Drop(p) \/ Purge(p) PROVE Taken'
  <2>1. FlushOver(p)
    BY <1>3 DEF UpsertFails, FlushCrash, Drop, Purge
  <2> QED
    BY <2>1, FlushOverDoes
<1>4. CASE UNCHANGED flush
  BY <1>4
<1>5. ASSUME NEW c \in Collectors, Moves(c) PROVE UNCHANGED flush
  BY <1>5, MovesDo
<1> QED
  BY <1>1, <1>2, <1>3, <1>4, <1>5
     DEF Next, Collect, Ingest, Moves, Flush, Summarize, vars, AppendSegment, Settle,
         SummaryPick, SummaryWrite, SummaryGivesUp, End, Withdraw, BeginErasure,
         CommitErasure, ExpireTranscript, ExpireSummary

LEMMA PurgingKept ==
  ASSUME Shape, Purging, [Next]_vars
  PROVE  Purging'
<1> USE DEF Purging, history
<1>1. ASSUME NEW p \in Flushers, Snapshot(p) PROVE Purging'
  BY <1>1, GoneStays, SnapshotDoes
<1>2. ASSUME NEW p \in Flushers, Upsert(p) PROVE Purging'
  BY <1>2, GoneStays, FlushToDoes DEF Upsert
<1>3. ASSUME NEW p \in Flushers, UpsertRefused(p) PROVE Purging'
  BY <1>3, GoneStays, FlushToDoes DEF UpsertRefused, ToBeGone
<1>4. ASSUME NEW p \in Flushers, UpsertFails(p) \/ FlushCrash(p) \/ Drop(p) \/ Purge(p) PROVE Purging'
  <2>1. FlushOver(p)
    BY <1>4 DEF UpsertFails, FlushCrash, Drop, Purge
  <2> QED
    BY <2>1, GoneStays, FlushOverDoes
<1>5. CASE UNCHANGED flush
  BY <1>5, GoneStays
<1>6. ASSUME NEW c \in Collectors, Moves(c) PROVE UNCHANGED flush
  BY <1>6, MovesDo
<1> QED
  BY <1>1, <1>2, <1>3, <1>4, <1>5, <1>6
     DEF Next, Collect, Ingest, Moves, Flush, Summarize, vars, AppendSegment, Settle,
         SummaryPick, SummaryWrite, SummaryGivesUp, End, Withdraw, BeginErasure,
         CommitErasure, ExpireTranscript, ExpireSummary

\* A flush that is written stores what it read, or is told so.
LEMMA UpsertDoes ==
  ASSUME Shape, NEW p \in Flushers, Upsert(p), NEW s \in Segments
  PROVE  /\ flush[p].batch[s] # 0 => stored'[s] = flush[p].batch[s]
         /\ stored'[s] >= stored[s] \/ s \in clobbered'
  BY FlushNumbers DEF Upsert, Held, Shape, StoresOK, Revisions

LEMMA ErasedIsGone ==
  ASSUME Shape, CommitErasure \/ ExpireTranscript
  PROVE  ToBeGone'
<1>1. CASE CommitErasure
  <2>1. row'.present = FALSE
    BY <1>1 DEF CommitErasure, Shape, RowOK, RowType
  <2> QED
    BY <2>1 DEF ToBeGone, Refused
<1>2. CASE ExpireTranscript
  <2>1. "transcript" \in row'.expired
    BY <1>2 DEF ExpireTranscript, Shape, RowOK, RowType
  <2> QED
    BY <2>1 DEF ToBeGone
<1> QED
  BY <1>1, <1>2

LEMMA DroppingKept ==
  ASSUME Shape, Taken, Dropping, [Next]_vars
  PROVE  Dropping'
<1> USE DEF Dropping, history
<1>1. CASE UNCHANGED <<flush, stored, clobbered>>
  BY <1>1, GoneStays
<1>2. ASSUME NEW c \in Collectors, Moves(c) \/ AppendSegment(c) PROVE UNCHANGED <<flush, stored, clobbered>>
  BY <1>2, MovesDo DEF AppendSegment
<1>3. ASSUME NEW p \in Flushers, Snapshot(p) PROVE Dropping'
  <2>1. UNCHANGED <<stored, clobbered>>
    BY <1>3 DEF Snapshot
  <2>2. flush'[p].pc = "drop" => \A s \in Segments : flush'[p].drop[s] # 0 => flush'[p].drop[s] \in Blank
    BY <1>3, SnapshotDoes
  <2>3. \A q \in Flushers : q # p => flush'[q] = flush[q]
    BY <1>3, SnapshotDoes
  <2> QED
    BY <2>1, <2>2, <2>3, GoneStays
<1>4. ASSUME NEW p \in Flushers, Upsert(p) PROVE Dropping'
  <2>1. FlushTo(p, "drop") /\ clobbered \subseteq clobbered'
    BY <1>4 DEF Upsert
  <2>2. \A q \in Flushers, s \in Segments : flush[q].batch[s] \in Nat /\ flush[q].drop[s] \in Nat
    BY FlushNumbers
  <2>3. \A s \in Segments : stored[s] \in Nat /\ stored'[s] \in Nat
    BY <1>4, StoresKept DEF Shape, StoresOK, Revisions
  <2>4. \A s \in Segments : /\ flush[p].batch[s] # 0 => stored'[s] = flush[p].batch[s]
                            /\ stored'[s] >= stored[s] \/ s \in clobbered'
    BY <1>4, UpsertDoes
  <2>5. /\ \A q \in Flushers : q # p => flush'[q] = flush[q]
        /\ flush'[p].drop = flush[p].drop
    BY <2>1, FlushToDoes
  <2>6. ASSUME NEW s \in Segments, flush[p].drop[s] # 0
        PROVE  flush[p].drop[s] \in Blank \/ stored'[s] >= flush[p].drop[s]
    BY <2>2, <2>4, <2>6 DEF Taken
  <2>7. ASSUME NEW q \in Flushers, NEW s \in Segments,
               stored[s] >= flush[q].drop[s] \/ s \in clobbered
        PROVE  stored'[s] >= flush[q].drop[s] \/ s \in clobbered'
    BY <2>1, <2>2, <2>3, <2>4, <2>7
  <2> QED
    BY <2>5, <2>6, <2>7, GoneStays
<1>5. ASSUME NEW p \in Flushers, UpsertRefused(p) PROVE Dropping'
  BY <1>5, GoneStays, FlushToDoes DEF UpsertRefused
<1>6. ASSUME NEW p \in Flushers, UpsertFails(p) \/ FlushCrash(p) \/ Purge(p) \/ Drop(p) PROVE Dropping'
  <2>1. FlushOver(p) /\ UNCHANGED stored /\ clobbered \subseteq clobbered'
    BY <1>6 DEF UpsertFails, FlushCrash, Purge, Drop
  <2> QED
    BY <2>1, GoneStays, FlushOverDoes
<1>7. CASE CommitErasure \/ ExpireTranscript
  BY <1>7, ErasedIsGone
<1> QED
  BY <1>1, <1>2, <1>3, <1>4, <1>5, <1>6, <1>7
     DEF Next, Collect, Ingest, Moves, Flush, Summarize, vars, Settle, SummaryPick,
         SummaryWrite, SummaryGivesUp, End, Withdraw, BeginErasure, ExpireSummary

\* What was appended last is kept, or a flusher took it back or away.
KeptAll == \A s \in Segments : Kept(s) \/ s \in clobbered \/ ToBeGone

LEMMA DropDoes ==
  ASSUME Shape, HashIsLast, Taken, Dropping, NEW p \in Flushers, Drop(p), NEW s \in Segments
  PROVE  \/ hash'[s] = hash[s]
         \/ s \in clobbered' \/ ToBeGone
         \/ last[s] \in Blank \/ stored[s] >= last[s]
<1>1. CASE flush[p].drop[s] = 0 \/ hash[s] = 0
  BY <1>1 DEF Drop, Without, Held, Shape, StoresOK, Revisions
<1>2. CASE flush[p].drop[s] # 0 /\ hash[s] # 0 /\ hash[s] # flush[p].drop[s]
  BY <1>2 DEF Drop, Held
<1>3. CASE flush[p].drop[s] # 0 /\ hash[s] = flush[p].drop[s]
  <2>1. flush[p].pc = "drop" /\ clobbered \subseteq clobbered'
    BY DEF Drop
  <2>2. flush[p].drop[s] = last[s]
    BY <1>3 DEF HashIsLast
  <2> QED
    BY <1>3, <2>1, <2>2 DEF Dropping
<1> QED
  BY <1>1, <1>2, <1>3

LEMMA KeptStep ==
  ASSUME Shape, HashIsLast, Taken, Dropping, Purging, KeptAll, [Next]_vars
  PROVE  KeptAll'
<1> USE DEF KeptAll, Kept, history
<1>1. CASE UNCHANGED <<hash, stored, last, clobbered>>
  BY <1>1, GoneStays
<1>2. ASSUME NEW c \in Collectors, Moves(c) PROVE UNCHANGED <<hash, stored, last, clobbered>>
  BY <1>2, MovesDo
<1>3. ASSUME NEW c \in Collectors, AppendSegment(c) PROVE KeptAll'
  <2> DEFINE m == ingest[c].message
  <2>1. /\ m.segment \in Segments /\ m.revision \in Nat
        /\ hash'[m.segment] = m.revision /\ last'[m.segment] = m.revision
        /\ \A s \in Segments : s # m.segment => hash'[s] = hash[s] /\ last'[s] = last[s]
        /\ UNCHANGED <<stored, clobbered>>
    BY <1>3, AppendDoes
  <2> HIDE DEF m
  <2>2. ASSUME NEW s \in Segments PROVE Kept(s)' \/ s \in clobbered' \/ ToBeGone'
    <3>1. CASE s = m.segment
      BY <2>1, <3>1
    <3>2. CASE s # m.segment
      BY <2>1, <3>2, GoneStays
    <3> QED
      BY <3>1, <3>2
  <2> QED
    BY <2>2
<1>4. ASSUME NEW p \in Flushers, Upsert(p) PROVE KeptAll'
  <2>1. UNCHANGED <<hash, last>> /\ clobbered \subseteq clobbered'
    BY <1>4 DEF Upsert
  <2>2. \A s \in Segments : /\ stored'[s] \in Nat /\ stored[s] \in Nat /\ last[s] \in Nat
                            /\ stored'[s] >= stored[s] \/ s \in clobbered'
    BY <1>4, UpsertDoes, StoresKept, StoresNumbers DEF StoresOK, Revisions
  <2> QED
    BY <2>1, <2>2, GoneStays
<1>5. ASSUME NEW p \in Flushers, Drop(p) PROVE KeptAll'
  <2>1. UNCHANGED <<stored, last>> /\ clobbered \subseteq clobbered'
    BY <1>5 DEF Drop
  <2>2. ASSUME NEW s \in Segments PROVE Kept(s)' \/ s \in clobbered' \/ ToBeGone'
    BY <1>5, <2>1, DropDoes, GoneStays
  <2> QED
    BY <2>2
<1>6. ASSUME NEW p \in Flushers, Purge(p) PROVE KeptAll'
  BY <1>6, GoneStays DEF Purge, Purging
<1>7. CASE CommitErasure \/ ExpireTranscript
  BY <1>7, ErasedIsGone
<1> QED
  BY <1>1, <1>2, <1>3, <1>4, <1>5, <1>6, <1>7
     DEF Next, Collect, Ingest, Moves, Flush, Summarize, vars, Settle, Snapshot,
         UpsertRefused, UpsertFails, FlushCrash, SummaryPick, SummaryWrite,
         SummaryGivesUp, End, Withdraw, BeginErasure, ExpireSummary

\* A message that was written stays so.
WrittenThen(m) == m.revision <= last'[m.segment] \/ m.segment \in overtaken' \/ Refused(row')

LEMMA WrittenStays ==
  ASSUME Shape, [Next]_vars, NEW m \in Message, Written(m)
  PROVE  WrittenThen(m)
<1> USE DEF Written, WrittenThen, history
<1>1. CASE UNCHANGED <<last, overtaken>>
  BY <1>1, GoneStays
<1>2. ASSUME NEW c \in Collectors, Moves(c) PROVE UNCHANGED <<last, overtaken>>
  BY <1>2, MovesDo
<1>3. ASSUME NEW c \in Collectors, AppendSegment(c) PROVE WrittenThen(m)
  <2> DEFINE n == ingest[c].message
  <2>1. /\ n.segment \in Segments /\ n.revision \in Nat
        /\ last'[n.segment] = n.revision
        /\ \A s \in Segments : s # n.segment => last'[s] = last[s]
        /\ n.revision < last[n.segment] => n.segment \in overtaken'
        /\ overtaken \subseteq overtaken'
    BY <1>3, AppendDoes
  <2>2. m.segment \in Segments /\ m.revision \in Nat /\ last[m.segment] \in Nat
    BY StoresNumbers DEF Message
  <2> HIDE DEF n
  <2>3. CASE m.segment = n.segment
    BY <2>1, <2>2, <2>3, GoneStays
  <2>4. CASE m.segment # n.segment
    BY <2>1, <2>2, <2>4, GoneStays
  <2> QED
    BY <2>3, <2>4
<1>4. ASSUME NEW p \in Flushers, Upsert(p) \/ Drop(p) PROVE UNCHANGED <<last, overtaken>>
  BY <1>4 DEF Upsert, Drop
<1> QED
  BY <1>1, <1>2, <1>3, <1>4
     DEF Next, Collect, Ingest, Moves, Flush, Summarize, vars, Settle, Snapshot,
         UpsertRefused, UpsertFails, FlushCrash, Purge, SummaryPick, SummaryWrite,
         SummaryGivesUp, End, Withdraw, BeginErasure, CommitErasure, ExpireTranscript,
         ExpireSummary

LEMMA AckedStep ==
  ASSUME Shape, AckedIsWritten, [Next]_vars
  PROVE  AckedIsWritten'
<1> USE DEF AckedIsWritten, history
<1>0. AckedIsWritten' <=>
        /\ \A m \in acked' : WrittenThen(m)
        /\ \A c \in Collectors : ingest'[c].pc = "release" => WrittenThen(ingest'[c].message)
  BY DEF Written, WrittenThen
<1>1. \A m \in acked : m \in Message /\ WrittenThen(m)
  BY WrittenStays DEF Shape, FeedOK
<1>2. \A c \in Collectors : ingest[c].pc = "release" => WrittenThen(ingest[c].message)
  BY WrittenStays DEF Shape, InHand
<1>3. CASE UNCHANGED <<ingest, acked>>
  BY <1>0, <1>1, <1>2, <1>3
<1>4. ASSUME NEW c \in Collectors, AppendSegment(c) PROVE AckedIsWritten'
  <2>1. /\ \A d \in Collectors : d # c => ingest'[d] = ingest[d]
        /\ ingest'[c].message = ingest[c].message
        /\ UNCHANGED acked
    BY <1>4 DEF AppendSegment, Shape, CollectorsOK, IngestType
  <2>2. WrittenThen(ingest[c].message)
    <3> DEFINE m == ingest[c].message
    <3>1. m.revision \in Nat /\ last'[m.segment] = m.revision
      BY <1>4, AppendDoes
    <3> QED
      BY <3>1 DEF WrittenThen
  <2> QED
    BY <1>0, <1>1, <1>2, <2>1, <2>2
<1>5. ASSUME NEW c \in Collectors, Moves(c), UNCHANGED acked PROVE AckedIsWritten'
  <2>1. /\ \A d \in Collectors : d # c => ingest'[d] = ingest[d]
        /\ ingest'[c].pc = "release" => ingest'[c] = ingest[c] \/ AppendSegment(c)
    BY <1>5, IngestSteps
  <2> QED
    BY <1>0, <1>1, <1>2, <1>4, <1>5, <2>1
<1>6. ASSUME NEW c \in Collectors, LeaseRefused(c) \/ Release(c) PROVE AckedIsWritten'
  <2> DEFINE m == ingest[c].message
  <2>1. acked' = acked \cup {m} /\ ingest' = [ingest EXCEPT ![c] = Waiting]
    BY <1>6 DEF LeaseRefused, Release, Acknowledge
  <2>2. WrittenThen(m)
    <3>1. CASE LeaseRefused(c)
      BY <3>1, GoneStays DEF LeaseRefused, WrittenThen
    <3>2. CASE Release(c)
      <4>1. ingest[c].pc = "release"
        BY <3>2 DEF Release
      <4>2. m.revision <= last[m.segment] \/ m.segment \in overtaken \/ Refused(row)
        BY <4>1 DEF Written
      <4>3. UNCHANGED <<last, overtaken, row>>
        BY <3>2 DEF Release
      <4> QED
        BY <4>2, <4>3 DEF WrittenThen
    <3> QED
      BY <1>6, <3>1, <3>2
  <2>3. /\ \A d \in Collectors : d # c => ingest'[d] = ingest[d]
        /\ ingest'[c].pc = "idle"
    BY <2>1, WaitingType DEF Shape, CollectorsOK
  <2> QED
    BY <1>0, <1>1, <1>2, <2>1, <2>2, <2>3
<1>7. ASSUME NEW c \in Collectors, Moves(c) PROVE AckedIsWritten'
  BY <1>5, <1>6, <1>7 DEF Moves, Deliver, Reclaim, Lease, IngestCrash, Stall
<1> QED
  BY <1>3, <1>4, <1>7
     DEF Next, Collect, Ingest, Moves, Flush, Summarize, vars, collectors, Settle, Snapshot,
         Upsert, UpsertRefused, UpsertFails, FlushCrash, Drop, Purge, SummaryPick,
         SummaryWrite, SummaryGivesUp, End, Withdraw, BeginErasure, CommitErasure,
         ExpireTranscript, ExpireSummary

Support == Shape /\ HashIsLast /\ Taken /\ Dropping /\ Purging /\ KeptAll /\ AckedIsWritten

LEMMA InitKept == Init => Support
<1> SUFFICES ASSUME Init PROVE Support
  OBVIOUS
<1>1. Shape
  BY InitShape
<1>2. \A s \in Segments : hash[s] = 0 /\ last[s] = 0
  BY DEF Init, Nothing
<1>3. \A p \in Flushers : flush[p].pc = "idle" /\ \A s \in Segments : flush[p].drop[s] = 0
  BY DEF Init, Idle, Nothing
<1>4. AckedIsWritten
  BY DEF Init, AckedIsWritten, Waiting
<1>5. HashIsLast /\ KeptAll
  BY <1>2 DEF HashIsLast, KeptAll, Kept
<1>6. Taken
  BY <1>3 DEF Taken
<1>7. Dropping
  BY <1>3 DEF Dropping
<1>8. Purging
  BY <1>3 DEF Purging
<1> QED
  BY <1>1, <1>4, <1>5, <1>6, <1>7, <1>8 DEF Support

\* However the collectors, the flushers and the end of the meeting interleave,
\* whichever collector writes an entry again and whatever fails, what was appended
\* last of a segment is kept, blank, to be gone, or among what a flusher took back
\* or away; and that is the acknowledged revision, a younger one, or an older one
\* which a collector wrote over it.
THEOREM WordsAreKept == Spec => []KeptUnlessClobbered
<1>1. Support /\ [Next]_vars => Support'
  BY NextShape, HashIsLastKept, TakenKept, DroppingKept, PurgingKept, KeptStep, AckedStep
     DEF Support
<1>2. Support => KeptUnlessClobbered
  BY ShapeGivesTypes DEF Support, KeptAll, AckedIsWritten, Written, KeptUnlessClobbered
<1> QED
  BY InitKept, <1>1, <1>2, PTL DEF Spec
=============================================================================
