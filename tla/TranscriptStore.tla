--------------------------- MODULE TranscriptStore ---------------------------
(***************************************************************************)
(* The transcript of one meeting: the collectors, one per replica, append  *)
(* revisions of its segments to a Redis hash, the db-writer tick and the   *)
(* finalizer of the terminal callback move them to PostgreSQL, the         *)
(* summarizer reads them, and withdrawal, erasure and expiry put a stop to *)
(* it, all under one advisory lock (collector/ingest.py, adapters.py,      *)
(* db_writer.py, summarizer.py, meeting_writes.py, retention/).            *)
(*                                                                         *)
(* The lock is shared by the writers and exclusive for the rest.  A lock   *)
(* of one transaction is an action; a collector's lasts from the check of  *)
(* the row to the last write of the message, and does not order it with    *)
(* another collector's.  An entry that was delivered and not acknowledged  *)
(* is ingested again by whoever claims it, after whatever was written in   *)
(* the meantime.  The live publications, which nothing here reads, are     *)
(* left out.                                                               *)
(***************************************************************************)
EXTENDS Naturals, FiniteSets

CONSTANTS Segments,    \* segment ids
          Collectors,  \* consumers of the segments stream, one per replica
          MaxRevision, \* revisions of a segment, numbered from 1
          Blank,       \* revisions without text, the empty first drafts
          Tombstones,  \* reasons a withdrawn capture may bear
          MaxFaults    \* processes that die or stall, writes that fail

ASSUME BoundsAssumption ==
  /\ MaxRevision \in Nat \ {0} /\ MaxFaults \in Nat
  /\ Blank \subseteq 1 .. MaxRevision
  /\ "capture_stopped" \in Tombstones /\ "no" \notin Tombstones

VARIABLES
  row,       \* the meeting row, as far as content writers look at it
  stored,    \* stored[s]: the revision of s in "transcriptions"
  hash,      \* hash[s]: the revision of s in meeting:{id}:segments
  fresh,     \* fields of the hash younger than IMMUTABILITY_THRESHOLD
  ingest,    \* the collectors, each at one message
  delivered, \* delivered[s]: revisions of s the group has read
  orphans,   \* delivered messages idle past RECLAIM_MIN_IDLE_MS
  acked,     \* messages acknowledged
  flush,     \* the two flushers
  final,     \* the completion flush: not due, due, begun
  summary,   \* the summarizer
  clobbered, \* history: segments a flush took back or took away unread
  overtaken, \* history: segments an older revision was written over
  last,      \* history: last[s], the revision of s appended last
  faults

collectors == <<ingest, delivered, orphans, acked>>
history == <<clobbered, overtaken, last>>
vars == <<row, stored, hash, fresh, collectors, flush, final, summary, history,
          faults>>

-----------------------------------------------------------------------------
Nothing == [s \in Segments |-> 0]
Revisions == [Segments -> 0 .. MaxRevision]
Held(h) == {s \in Segments : h[s] # 0}

\* h without the segments S.
Without(h, S) == [s \in Segments |-> IF s \in S THEN 0 ELSE h[s]]

\* The db-writer tick, one per interval across replicas, and the finalizer.
Flushers == {"tick", "finalize"}
Scopes == {"transcript", "summary"}

NoMessage == [segment |-> "none", revision |-> 0]
Waiting == [pc |-> "idle", message |-> NoMessage]
Idle == [pc |-> "idle", batch |-> Nothing, drop |-> Nothing]

\* transcript_writes_refused, or no row.
Privacy == {reason \in Tombstones : reason # "capture_stopped"}
Refused(r) == ~r.present \/ r.withdrawn \in Privacy

Leased == \E c \in Collectors : ingest[c].pc \in {"append", "release"}

Init ==
  /\ row = [present |-> TRUE, ended |-> FALSE, withdrawn |-> "no",
            erasing |-> FALSE, expired |-> {}, summary |-> FALSE]
  /\ stored = Nothing /\ hash = Nothing /\ fresh = {}
  /\ ingest = [c \in Collectors |-> Waiting]
  /\ delivered = Nothing /\ orphans = {} /\ acked = {}
  /\ flush = [p \in Flushers |-> Idle]
  /\ final = "not due"
  /\ summary = "idle"
  /\ clobbered = {} /\ overtaken = {} /\ last = Nothing
  /\ faults = 0

Fault == faults < MaxFaults /\ faults' = faults + 1

-----------------------------------------------------------------------------
(* The collectors: consume_segments and reclaim_segments, and ingest under  *)
(* transcript_write_lease.  A batch is one message.                         *)

Take(c, m) == ingest' = [ingest EXCEPT ![c] = [pc |-> "lease", message |-> m]]

\* XREADGROUP: the stream has the revisions of a segment in order.
Deliver(c, s) ==
  /\ ingest[c].pc = "idle" /\ delivered[s] < MaxRevision
  /\ delivered' = [delivered EXCEPT ![s] = @ + 1]
  /\ Take(c, [segment |-> s, revision |-> delivered[s] + 1])
  /\ UNCHANGED <<row, stored, hash, fresh, orphans, acked, flush, final, summary,
                 history, faults>>

\* XAUTOCLAIM: an entry of a collector that died, or has not come back in time.
Reclaim(c, m) ==
  /\ ingest[c].pc = "idle" /\ m \in orphans
  /\ orphans' = orphans \ {m}
  /\ Take(c, m)
  /\ UNCHANGED <<row, stored, hash, fresh, delivered, acked, flush, final, summary,
                 history, faults>>

\* XACK, of one's own entry or one that another has claimed.
Acknowledge(c) ==
  /\ acked' = acked \cup {ingest[c].message}
  /\ orphans' = orphans \ {ingest[c].message}
  /\ ingest' = [ingest EXCEPT ![c] = Waiting]

\* The shared lock is taken and the row looked at.
Lease(c) ==
  /\ ingest[c].pc = "lease" /\ ~Refused(row)
  /\ ingest' = [ingest EXCEPT ![c].pc = "append"]
  /\ UNCHANGED <<row, stored, hash, fresh, delivered, orphans, acked, flush, final,
                 summary, history, faults>>

\* TranscriptWriteRefused: ingest returns and the entry is acknowledged.
LeaseRefused(c) ==
  /\ ingest[c].pc = "lease" /\ Refused(row)
  /\ Acknowledge(c)
  /\ UNCHANGED <<row, stored, hash, fresh, delivered, flush, final, summary, history,
                 faults>>

\* append_segments, one MULTI: whatever is in the field is replaced.
AppendSegment(c) ==
  /\ ingest[c].pc = "append"
  /\ LET m == ingest[c].message IN
       /\ hash' = [hash EXCEPT ![m.segment] = m.revision]
       /\ fresh' = fresh \cup {m.segment}
       /\ last' = [last EXCEPT ![m.segment] = m.revision]
       /\ overtaken' = IF m.revision < last[m.segment] THEN overtaken \cup {m.segment}
                       ELSE overtaken
  /\ ingest' = [ingest EXCEPT ![c].pc = "release"]
  /\ UNCHANGED <<row, stored, delivered, orphans, acked, flush, final, summary,
                 clobbered, faults>>

\* The lock is released and the entry acknowledged.
Release(c) ==
  /\ ingest[c].pc = "release"
  /\ Acknowledge(c)
  /\ UNCHANGED <<row, stored, hash, fresh, delivered, flush, final, summary, history,
                 faults>>

\* The collector dies, or the ingest raises: the entry is pending, the lock free.
IngestCrash(c) ==
  /\ ingest[c].pc # "idle" /\ Fault
  /\ orphans' = orphans \cup {ingest[c].message}
  /\ ingest' = [ingest EXCEPT ![c] = Waiting]
  /\ UNCHANGED <<row, stored, hash, fresh, delivered, acked, flush, final, summary,
                 history>>

\* A minute passes while the collector is at an entry: another may claim it.
Stall(c) ==
  /\ ingest[c].pc # "idle" /\ ingest[c].message \notin acked /\ Fault
  /\ orphans' = orphans \cup {ingest[c].message}
  /\ UNCHANGED <<row, stored, hash, fresh, ingest, delivered, acked, flush, final,
                 summary, history>>

\* Thirty seconds pass without a rewrite.
Settle ==
  /\ fresh # {}
  /\ \E S \in SUBSET fresh : fresh' = fresh \ S
  /\ UNCHANGED <<row, stored, hash, collectors, flush, final, summary, history, faults>>

-----------------------------------------------------------------------------
(* flush_meeting_segments. *)

FlushTo(p, pc) == flush' = [flush EXCEPT ![p].pc = pc]
FlushOver(p) == flush' = [flush EXCEPT ![p] = Idle]

\* Mutant of Snapshot: the immutability test the wrong way round.
SnapshotOfTheFresh(p) ==
  /\ flush[p].pc = "idle"
  /\ IF p = "tick" THEN UNCHANGED final ELSE final = "due" /\ final' = "begun"
  /\ LET taken == Without(hash, IF p = "tick" THEN Held(hash) \ fresh ELSE {})
     IN /\ Held(taken) # {}
        /\ flush' = [flush EXCEPT ![p] =
             [batch |-> taken, drop |-> taken, pc |-> "upsert"]]
  /\ UNCHANGED <<row, stored, hash, fresh, collectors, summary, history, faults>>

\* HGETALL: the fields that are old enough, those without text to be dropped.
Snapshot(p) ==
  /\ flush[p].pc = "idle"
  /\ IF p = "tick" THEN UNCHANGED final ELSE final = "due" /\ final' = "begun"
  /\ LET taken == Without(hash, IF p = "tick" THEN fresh ELSE {})
         batch == [s \in Segments |-> IF taken[s] \in Blank THEN 0 ELSE taken[s]]
     IN /\ p = "tick" => Held(taken) # {}
        /\ flush' = [flush EXCEPT ![p] =
             [batch |-> batch, drop |-> taken,
              pc |-> IF Held(batch) # {} THEN "upsert"
                     ELSE IF Held(taken) # {} THEN "drop" ELSE "idle"]]
  /\ UNCHANGED <<row, stored, hash, fresh, collectors, summary, history, faults>>

\* upsert_segments, one transaction under the shared lock.
Upsert(p) ==
  /\ flush[p].pc = "upsert" /\ ~Refused(row)
  /\ LET batch == flush[p].batch IN
       /\ stored' = [s \in Segments |-> IF batch[s] # 0 THEN batch[s] ELSE stored[s]]
       /\ clobbered' = clobbered \cup
            {s \in Held(batch) : batch[s] < stored[s]}
  /\ FlushTo(p, "drop")
  /\ UNCHANGED <<row, hash, fresh, collectors, final, summary, overtaken, last, faults>>

\* Mutant of UpsertRefused: the refused fields stay.
RefusalLeavesHash(p) ==
  /\ flush[p].pc = "upsert" /\ Refused(row)
  /\ FlushOver(p)
  /\ UNCHANGED <<row, stored, hash, fresh, collectors, final, summary, history, faults>>

UpsertRefused(p) ==
  /\ flush[p].pc = "upsert" /\ Refused(row)
  /\ FlushTo(p, "purge")
  /\ UNCHANGED <<row, stored, hash, fresh, collectors, final, summary, history, faults>>

\* Mutant of UpsertFails: HDEL whether or not the sink confirmed.
UpsertFailsDrops(p) ==
  /\ flush[p].pc = "upsert" /\ Fault
  /\ FlushTo(p, "drop")
  /\ UNCHANGED <<row, stored, hash, fresh, collectors, final, summary, history>>

\* The write fails: the fields stay for the next tick.
UpsertFails(p) ==
  /\ flush[p].pc = "upsert" /\ Fault
  /\ FlushOver(p)
  /\ UNCHANGED <<row, stored, hash, fresh, collectors, final, summary, history>>

\* HDEL, of the fields and not of what was read in them.
Drop(p) ==
  /\ flush[p].pc = "drop"
  /\ LET taken == flush[p].drop
         gone == Held(taken) \cap Held(hash) IN
       /\ hash' = Without(hash, gone)
       /\ fresh' = fresh \ gone
       /\ clobbered' = clobbered \cup {s \in gone : hash[s] # taken[s]}
  /\ FlushOver(p)
  /\ UNCHANGED <<row, stored, collectors, final, summary, overtaken, last, faults>>

\* DEL of the hash after a refusal.
Purge(p) ==
  /\ flush[p].pc = "purge"
  /\ hash' = Nothing /\ fresh' = {}
  /\ FlushOver(p)
  /\ UNCHANGED <<row, stored, collectors, final, summary, history, faults>>

FlushCrash(p) ==
  /\ flush[p].pc # "idle" /\ Fault
  /\ FlushOver(p)
  /\ UNCHANGED <<row, stored, hash, fresh, collectors, final, summary, history>>

-----------------------------------------------------------------------------
(* summarize_tick: a candidate's transcript is read, the model answers, the *)
(* summary is written under the shared lock.                                *)

SummaryPick ==
  /\ summary = "idle"
  /\ row.present /\ row.ended /\ ~row.summary /\ Held(stored) # {}
  /\ summary' = "asked"
  /\ UNCHANGED <<row, stored, hash, fresh, collectors, flush, final, history, faults>>

SummaryWrite ==
  /\ summary = "asked" /\ ~Refused(row)
  /\ row' = [row EXCEPT !.summary = TRUE]
  /\ summary' = "idle"
  /\ UNCHANGED <<stored, hash, fresh, collectors, flush, final, history, faults>>

\* The write is refused, or the model fails.
SummaryGivesUp ==
  /\ summary = "asked"
  /\ \/ Refused(row) /\ UNCHANGED faults
     \/ Fault
  /\ summary' = "idle"
  /\ UNCHANGED <<row, stored, hash, fresh, collectors, flush, final, history>>

-----------------------------------------------------------------------------
(* What the row goes through.  The last five take the lock exclusively. *)

\* The terminal callback; its process may die before the finalizer runs.
End ==
  /\ row.present /\ ~row.ended
  /\ row' = [row EXCEPT !.ended = TRUE]
  /\ \/ final' = "due" /\ UNCHANGED faults
     \/ final' = "begun" /\ Fault
  /\ UNCHANGED <<stored, hash, fresh, collectors, flush, summary, history>>

\* withdraw_capture; a tombstone stays as it is.
Withdraw(reason) ==
  /\ ~Leased /\ row.present /\ row.withdrawn = "no"
  /\ row' = [row EXCEPT !.withdrawn = reason]
  /\ UNCHANGED <<stored, hash, fresh, collectors, flush, final, summary, history, faults>>

\* begin_erasure; the objects are deleted in between, RecordingStore.
BeginErasure ==
  /\ ~Leased /\ row.present /\ ~row.erasing
  /\ row' = [row EXCEPT !.erasing = TRUE]
  /\ UNCHANGED <<stored, hash, fresh, collectors, flush, final, summary, history, faults>>

\* Mutant of CommitErasure: the meeting row goes, its transcript rows stay.
CommitErasureRowOnly ==
  /\ ~Leased /\ row.present /\ row.erasing
  /\ row' = [row EXCEPT !.present = FALSE, !.summary = FALSE]
  /\ UNCHANGED <<stored, hash, fresh, collectors, flush, final, summary, history, faults>>

\* commit_erasure: the transcript rows, then the meeting row.
CommitErasure ==
  /\ ~Leased /\ row.present /\ row.erasing
  /\ row' = [row EXCEPT !.present = FALSE, !.summary = FALSE]
  /\ stored' = Nothing
  /\ UNCHANGED <<hash, fresh, collectors, flush, final, summary, history, faults>>

\* expire_scope of a terminal meeting that is not being erased.
Expirable(scope) ==
  /\ ~Leased /\ row.present /\ row.ended /\ ~row.erasing
  /\ scope \notin row.expired

ExpireTranscript ==
  /\ Expirable("transcript")
  /\ stored' = Nothing
  /\ row' = [row EXCEPT !.expired = @ \cup {"transcript"}]
  /\ UNCHANGED <<hash, fresh, collectors, flush, final, summary, history, faults>>

ExpireSummary ==
  /\ Expirable("summary")
  /\ row' = [row EXCEPT !.expired = @ \cup {"summary"}, !.summary = FALSE]
  /\ UNCHANGED <<stored, hash, fresh, collectors, flush, final, summary, history, faults>>

-----------------------------------------------------------------------------
Ingest(c) == Lease(c) \/ LeaseRefused(c) \/ AppendSegment(c) \/ Release(c)

Collect(c) ==
  \/ (\E s \in Segments : Deliver(c, s)) \/ (\E m \in orphans : Reclaim(c, m))
  \/ Ingest(c) \/ IngestCrash(c) \/ Stall(c)

Flush(p) ==
  Snapshot(p) \/ Upsert(p) \/ UpsertRefused(p) \/ Drop(p) \/ Purge(p)

Summarize == SummaryPick \/ SummaryWrite \/ SummaryGivesUp

Next ==
  \/ (\E c \in Collectors : Collect(c)) \/ Settle
  \/ \E p \in Flushers : Flush(p) \/ UpsertFails(p) \/ FlushCrash(p)
  \/ Summarize
  \/ End \/ (\E reason \in Tombstones : Withdraw(reason))
  \/ BeginErasure \/ CommitErasure \/ ExpireTranscript \/ ExpireSummary

Spec == Init /\ [][Next]_vars

\* A message taken up is finished unless its collector dies, segments settle, and
\* the tick comes round every DB_WRITER_INTERVAL_S.
Fairness ==
  /\ \A c \in Collectors : WF_vars(Ingest(c))
  /\ SF_vars(Settle /\ fresh' = {})
  /\ SF_vars(Snapshot("tick"))
  /\ WF_vars(Flush("tick") /\ flush["tick"].pc # "idle")

FairSpec == Spec /\ Fairness

-----------------------------------------------------------------------------
Message == [segment : Segments, revision : 1 .. MaxRevision]

TypeOK ==
  /\ row \in [present : BOOLEAN, ended : BOOLEAN, withdrawn : Tombstones \cup {"no"},
              erasing : BOOLEAN, expired : SUBSET Scopes, summary : BOOLEAN]
  /\ {stored, hash, delivered, last} \subseteq Revisions /\ fresh \subseteq Held(hash)
  /\ ingest \in [Collectors -> [pc : {"idle", "lease", "append", "release"},
                                message : Message \cup {NoMessage}]]
  /\ orphans \subseteq Message /\ acked \subseteq Message
  /\ flush \in [Flushers -> [pc : {"idle", "upsert", "drop", "purge"},
                             batch : Revisions, drop : Revisions]]
  /\ final \in {"not due", "due", "begun"} /\ summary \in {"idle", "asked"}
  /\ clobbered \cup overtaken \subseteq Segments /\ faults \in 0 .. MaxFaults

\* commit_erasure leaves nothing in PostgreSQL and nothing comes back to it.
ErasedForGood == ~row.present => stored = Nothing /\ ~row.summary

ToBeGone == Refused(row) \/ "transcript" \in row.expired

\* What was appended last is in the hash or in PostgreSQL, or what is there is
\* younger.  Only what has no text may go.
Kept(s) ==
  \/ last[s] \in Blank \cup {0}
  \/ hash[s] >= last[s] \/ stored[s] >= last[s]

\* An acknowledged revision, or a younger one, is kept until the meeting's words
\* are to be gone, whoever fails or dies between the two stores, except for what
\* two races do: a flusher took the segment back, or took away a revision it had
\* not read (db_writer.py 248), or a collector wrote an older revision over it
\* (ingest.py 319), when the older one is kept.  (The types hold meanwhile.)
KeptUnlessClobbered ==
  /\ TypeOK
  /\ \A s \in Segments : Kept(s) \/ s \in clobbered \/ ToBeGone
  /\ \A m \in acked : \/ m.revision <= last[m.segment]
                      \/ m.segment \in overtaken \/ Refused(row)

\* Once all revisions of a segment are acknowledged the archive has the last one in
\* the end, or the one that was written over it (unless refused or expired).
AllAcknowledged(s) == \A n \in 1 .. MaxRevision : [segment |-> s, revision |-> n] \in acked

EventuallyStored ==
  \A s \in Segments : AllAcknowledged(s) ~>
    \/ stored[s] = MaxRevision \/ s \in clobbered \/ ToBeGone
    \/ s \in overtaken /\ (stored[s] >= last[s] \/ last[s] \in Blank)

\* After a refusal the hash is purged and stays empty.
EventuallyPurged == Refused(row) ~> [](hash = Nothing)
=============================================================================
