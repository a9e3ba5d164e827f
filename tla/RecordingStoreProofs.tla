------------------------- MODULE RecordingStoreProofs -------------------------
(***************************************************************************)
(* Theorems about RecordingStore, for every finite set of chunks, any      *)
(* number of uploads, assemblies and erasures at once and any number of    *)
(* failures.                                                               *)
(***************************************************************************)
EXTENDS RecordingStore, FiniteSetTheorems, TLAPS

-----------------------------------------------------------------------------
(* What is counted. *)

\* A set of chunks has at most as many members as there are chunks.
LEMMA ChunkSetSize ==
  ASSUME NEW S \in SUBSET Chunks
  PROVE  /\ IsFiniteSet(S)
         /\ Cardinality(S) \in 0 .. Cardinality(Chunks)
         /\ Cardinality(S) = 0 <=> S = {}
<1>1. IsFiniteSet(Chunks)
  BY BoundsAssumption
<1>2. IsFiniteSet(S) /\ Cardinality(S) <= Cardinality(Chunks)
  BY <1>1, FS_Subset
<1>3. Cardinality(S) \in Nat /\ Cardinality(Chunks) \in Nat
  BY <1>1, <1>2, FS_CardinalityType
<1> QED
  BY <1>2, <1>3, FS_EmptySet

\* A census tells an empty prefix from any other, and is never taken for the
\* absence of a census.
LEMMA CensusSize ==
  ASSUME objects \subseteq Chunks, master \subseteq Chunks
  PROVE  /\ Census \in 0 .. Unknown /\ Census # Unknown
         /\ Unknown \in Nat
         /\ Census = 0 <=> objects = {} /\ master = {}
  BY ChunkSetSize DEF Census, Unknown

-----------------------------------------------------------------------------
(* Types. *)

\* An upload under way has a chunk in hand.
ChunkInHand == \A u \in Uploaders : upload[u].pc # "idle" => upload[u].chunk \in Chunks

Shape == TypeOK /\ ChunkInHand

LEMMA NoRecordType == NoRecord \in MediaFile
  BY ChunkSetSize DEF NoRecord, MediaFile

LEMMA InitShape == Init => Shape
<1> SUFFICES ASSUME Init PROVE Shape
  OBVIOUS
<1>1. Unknown \in Nat
  BY ChunkSetSize DEF Unknown
<1>2. upload \in [Uploaders ->
         [pc : {"idle", "register", "lock", "look", "put", "fold", "undo"},
          chunk : Chunks \cup {NoChunk}, present : BOOLEAN]]
  BY DEF Init, Ready
<1>3. finalize \in [Finalizers ->
         [pc : {"idle", "list", "build", "stamp"}, mf : MediaFile, listed : SUBSET Chunks]]
  BY NoRecordType DEF Init, Asleep
<1>4. erase \in [Erasers ->
         [pc : {"idle", "count", "record", "delete", "recount", "commit"}, count : 0 .. Unknown]]
  BY <1>1 DEF Init, NotErasing
<1>5. ChunkInHand
  BY DEF Init, Ready, ChunkInHand
<1>6. /\ row \in [present : BOOLEAN, ended : BOOLEAN, withdrawn : BOOLEAN,
                  erasing : BOOLEAN, expired : BOOLEAN]
      /\ prefix \in BOOLEAN /\ record \in MediaFile
  BY NoRecordType DEF Init
<1>7. {censused, witness} \subseteq 0 .. Unknown /\ {swept, crossed} \subseteq BOOLEAN
  <2>1. censused = Unknown /\ witness = Unknown /\ swept = FALSE /\ crossed = FALSE
    BY DEF Init
  <2>2. {swept, crossed} \subseteq BOOLEAN
    BY <2>1, Zenon
  <2> QED
    BY <1>1, <2>1, <2>2
<1>8. /\ objects \subseteq Chunks /\ master \subseteq Chunks /\ misled \subseteq Chunks
      /\ faults \in 0 .. MaxFaults
  BY BoundsAssumption DEF Init
<1> QED
  BY <1>2, <1>3, <1>4, <1>5, <1>6, <1>7, <1>8 DEF Shape, TypeOK

LEMMA UploadShape ==
  ASSUME Shape, NEW u \in Uploaders, Upload(u) \/ UploadFails(u)
  PROVE  Shape'
<1> USE DEF Shape, TypeOK, ChunkInHand, history, UploadTo, Ready
<1>1. CASE UploadLease(u)
  BY <1>1 DEF UploadLease
<1>2. CASE Register(u)
  BY <1>2 DEF Register
<1>3. CASE ChunkLock(u)
  BY <1>3 DEF ChunkLock
<1>4. CASE Look(u)
  <2>1. CASE upload' = [upload EXCEPT ![u] = [@ EXCEPT !.pc = "fold", !.present = TRUE]]
    <3>1. upload'[u] = [pc |-> "fold", chunk |-> upload[u].chunk, present |-> TRUE]
      BY ZenonT(30), <2>1
    <3>2. \A v \in Uploaders \ {u} : upload'[v] = upload[v]
      BY <2>1
    <3>3. upload' \in [Uploaders ->
             [pc : {"idle", "register", "lock", "look", "put", "fold", "undo"},
              chunk : Chunks \cup {NoChunk}, present : BOOLEAN]]
      <4> DEFINE Request == [pc : {"idle", "register", "lock", "look", "put", "fold", "undo"},
                             chunk : Chunks \cup {NoChunk}, present : BOOLEAN]
      <4>1. upload[u] \in Request
        OBVIOUS
      <4>2. [pc |-> "fold", chunk |-> upload[u].chunk, present |-> TRUE] \in Request
        BY <4>1
      <4>3. upload'[u] \in Request
        BY <4>2, <3>1
      <4> HIDE DEF Request
      <4>4. [upload[u] EXCEPT !.pc = "fold", !.present = TRUE] \in Request
        BY <2>1, <4>3
      <4> QED
        BY <2>1, <4>4 DEF Request
    <3>4. ChunkInHand'
      BY <1>4, <3>1, <3>2 DEF Look
    <3> QED
      BY <1>4, <3>3, <3>4 DEF Look
  <2>2. CASE upload' = [upload EXCEPT ![u] = Ready]
    BY <1>4, <2>2 DEF Look
  <2>3. CASE UploadTo(u, "put")
    BY <1>4, <2>3 DEF Look
  <2> QED
    BY <1>4, <2>1, <2>2, <2>3 DEF Look
<1>5. CASE Put(u)
  BY <1>5 DEF Put
<1>6. CASE Fold(u)
  BY <1>6, ChunkSetSize DEF Fold, Count, MediaFile
<1>7. CASE WriteFails(u)
  BY <1>7, BoundsAssumption DEF WriteFails, Compensate, Fault
<1>8. CASE Undo(u)
  BY <1>8 DEF Undo
<1>9. CASE UploadCrash(u)
  BY <1>9, BoundsAssumption DEF UploadCrash, Fault
<1>10. CASE LookFails(u)
  BY <1>10, BoundsAssumption DEF LookFails, Fault
<1>11. CASE FoldUnanswered(u)
  <2>1. record' \in MediaFile
    BY <1>11, ChunkSetSize DEF FoldUnanswered, Count, MediaFile
  <2>2. misled' \subseteq Chunks
    BY <1>11 DEF FoldUnanswered
  <2> QED
    BY <1>11, <2>1, <2>2, BoundsAssumption DEF FoldUnanswered, Compensate, Fault
<1> QED
  BY <1>1, <1>2, <1>3, <1>4, <1>5, <1>6, <1>7, <1>8, <1>9, <1>10, <1>11 DEF Upload, UploadFails

\* A listing goes on to build or to stamp, or ends the assembly.
LEMMA ListGoesOn ==
  ASSUME NEW f \in Finalizers, List(f)
  PROVE  \/ finalize' = [finalize EXCEPT ![f] = Asleep]
         \/ \E pc \in {"build", "stamp"} :
              finalize' = [finalize EXCEPT ![f] = [@ EXCEPT !.listed = objects, !.pc = pc]]
  BY Zenon DEF List, FinalizeOver

LEMMA FinalizeShape ==
  ASSUME Shape, NEW f \in Finalizers, Finalize(f) \/ FinalizeCrash(f)
  PROVE  Shape'
<1> USE DEF Shape, TypeOK, ChunkInHand, history, FinalizeOver
<1>0. Asleep \in [pc : {"idle", "list", "build", "stamp"}, mf : MediaFile, listed : SUBSET Chunks]
  BY NoRecordType DEF Asleep
<1>1. CASE FinalizeLease(f)
  BY <1>1 DEF FinalizeLease
<1>2. CASE List(f)
  <2>1. finalize' \in [Finalizers ->
         [pc : {"idle", "list", "build", "stamp"}, mf : MediaFile, listed : SUBSET Chunks]]
    <3>1. CASE finalize' = [finalize EXCEPT ![f] = Asleep]
      BY <1>0, <3>1
    <3>2. CASE \E pc \in {"build", "stamp"} :
                 finalize' = [finalize EXCEPT ![f] = [@ EXCEPT !.listed = objects, !.pc = pc]]
      <4>1. PICK pc \in {"build", "stamp"} :
              finalize' = [finalize EXCEPT ![f] = [@ EXCEPT !.listed = objects, !.pc = pc]]
        BY <3>2
      <4>2. [finalize[f] EXCEPT !.listed = objects, !.pc = pc]
              \in [pc : {"idle", "list", "build", "stamp"}, mf : MediaFile, listed : SUBSET Chunks]
        <5>1. finalize[f] \in [pc : {"idle", "list", "build", "stamp"}, mf : MediaFile,
                               listed : SUBSET Chunks]
          OBVIOUS
        <5>2. objects \in SUBSET Chunks
          OBVIOUS
        <5> HIDE DEF Shape
        <5> QED
          BY <5>1, <5>2
      <4> QED
        BY <4>1, <4>2
    <3> QED
      BY <1>2, <3>1, <3>2, ListGoesOn
  <2> QED
    BY <1>2, <2>1 DEF List
<1>3. CASE Build(f)
  <2>1. finalize' \in [Finalizers ->
         [pc : {"idle", "list", "build", "stamp"}, mf : MediaFile, listed : SUBSET Chunks]]
    <3>1. finalize' \in {[finalize EXCEPT ![f].pc = "stamp"], [finalize EXCEPT ![f] = Asleep]}
      BY <1>3, Zenon DEF Build
    <3>2. finalize \in [Finalizers -> [pc : {"idle", "list", "build", "stamp"}, mf : MediaFile,
                                      listed : SUBSET Chunks]]
      OBVIOUS
    <3> HIDE DEF Shape, TypeOK, ChunkInHand
    <3> QED
      BY <1>0, <3>1, <3>2
  <2>2. master' \subseteq Chunks
    BY <1>3 DEF Build
  <2>3. {swept', crossed'} \subseteq BOOLEAN
    <3>1. crossed' \in BOOLEAN /\ swept' = swept
      BY <1>3, Zenon DEF Build
    <3> QED
      BY <3>1, Zenon
  <2> QED
    BY <1>3, <2>1, <2>2, <2>3 DEF Build
<1>4. CASE Stamp(f)
  <2>1. Cardinality(finalize[f].listed) \in 0 .. Cardinality(Chunks)
    BY ChunkSetSize
  <2>2. record' \in MediaFile
    BY <1>4, <2>1 DEF Stamp, MediaFile
  <2> QED
    BY <1>0, <1>4, <2>2 DEF Stamp
<1>5. CASE FinalizeCrash(f)
  BY <1>0, <1>5, BoundsAssumption DEF FinalizeCrash, Fault
<1> QED
  BY <1>1, <1>2, <1>3, <1>4, <1>5 DEF Finalize

LEMMA EraseShape ==
  ASSUME Shape, NEW e \in Erasers, Erase(e) \/ EraseCrash(e)
  PROVE  Shape'
<1> USE DEF Shape, TypeOK, ChunkInHand, history, EraseTo, EraseOver, NotErasing
<1>0. Unknown \in Nat /\ Census \in 0 .. Unknown
  BY CensusSize
<1>1. CASE BeginErasure(e)
  <2>1. witness' \in 0 .. Unknown
    BY <1>0, <1>1 DEF BeginErasure
  <2>2. erase' \in [Erasers ->
         [pc : {"idle", "count", "record", "delete", "recount", "commit"}, count : 0 .. Unknown]]
    BY <1>0, <1>1 DEF BeginErasure
  <2>3. row' \in [present : BOOLEAN, ended : BOOLEAN, withdrawn : BOOLEAN,
                  erasing : BOOLEAN, expired : BOOLEAN]
    BY <1>1 DEF BeginErasure
  <2> QED
    BY <1>1, <2>1, <2>2, <2>3 DEF BeginErasure
<1>2. CASE CountObjects(e)
  BY <1>0, <1>2 DEF CountObjects
<1>3. CASE RecordCensus(e)
  <2>1. censused' \in 0 .. Unknown
    BY <1>3 DEF RecordCensus
  <2>2. erase' \in [Erasers ->
         [pc : {"idle", "count", "record", "delete", "recount", "commit"}, count : 0 .. Unknown]]
    <3>1. CASE row.present
      BY <1>3, <3>1 DEF RecordCensus
    <3>2. CASE ~row.present
      BY <1>0, <1>3, <3>2 DEF RecordCensus
    <3> QED
      BY <3>1, <3>2
  <2> QED
    BY <1>3, <2>1, <2>2 DEF RecordCensus
<1>4. CASE DeletePrefix(e)
  <2>1. {swept', crossed'} \subseteq BOOLEAN
    BY <1>4, Zenon DEF DeletePrefix
  <2>2. faults' \in 0 .. MaxFaults
    BY <1>4, BoundsAssumption DEF DeletePrefix, Fault
  <2>3. objects' \subseteq Chunks /\ master' \subseteq Chunks
    BY <1>4 DEF DeletePrefix
  <2> QED
    BY <1>0, <1>4, <2>1, <2>2, <2>3 DEF DeletePrefix
<1>5. CASE Recount(e)
  BY <1>0, <1>5 DEF Recount
<1>6. CASE CommitErasure(e)
  <2>1. erase' \in [Erasers ->
         [pc : {"idle", "count", "record", "delete", "recount", "commit"}, count : 0 .. Unknown]]
    BY <1>0, <1>6 DEF CommitErasure
  <2>2. row' \in [present : BOOLEAN, ended : BOOLEAN, withdrawn : BOOLEAN,
                  erasing : BOOLEAN, expired : BOOLEAN]
    BY <1>6 DEF CommitErasure
  <2>3. record' \in MediaFile
    BY <1>6, NoRecordType DEF CommitErasure
  <2> QED
    BY <1>6, <2>1, <2>2, <2>3 DEF CommitErasure
<1>7. CASE EraseCrash(e)
  BY <1>0, <1>7, BoundsAssumption DEF EraseCrash, Fault
<1> QED
  BY <1>1, <1>2, <1>3, <1>4, <1>5, <1>6, <1>7 DEF Erase

LEMMA NextShape == Shape /\ [Next]_vars => Shape'
<1> SUFFICES ASSUME Shape, [Next]_vars PROVE Shape'
  OBVIOUS
<1> USE DEF Shape, TypeOK, ChunkInHand, history
<1>1. CASE End
  BY <1>1 DEF End
<1>2. CASE Withdraw
  BY <1>2 DEF Withdraw
<1>3. CASE ExpireAudio
  <2>1. {swept', crossed'} \subseteq BOOLEAN
    BY <1>3, Zenon DEF ExpireAudio
  <2>2. faults' \in 0 .. MaxFaults
    BY <1>3, BoundsAssumption DEF ExpireAudio, Fault
  <2>3. objects' \subseteq Chunks /\ master' \subseteq Chunks
    BY <1>3 DEF ExpireAudio
  <2>4. record' \in MediaFile
    BY <1>3, NoRecordType DEF ExpireAudio
  <2> QED
    BY <1>3, <2>1, <2>2, <2>3, <2>4 DEF ExpireAudio
<1>4. CASE UNCHANGED vars
  BY <1>4 DEF vars
<1> QED
  BY <1>1, <1>2, <1>3, <1>4, UploadShape, FinalizeShape, EraseShape DEF Next

\* The records keep their shape through every step of uploads, assemblies and
\* erasures and every failure of one.
THEOREM TypesKept == Spec => []TypeOK
<1>1. Spec => []Shape
  BY InitShape, NextShape, PTL DEF Spec
<1>2. Shape => TypeOK
  BY DEF Shape
<1> QED
  BY <1>1, <1>2, PTL

-----------------------------------------------------------------------------
(* The writers and what shuts them out. *)

\* The exclusive lock is free of shared holders.
Unshared == /\ \A u \in Uploaders : upload[u].pc = "idle"
            /\ \A f \in Finalizers : finalize[f].pc = "idle"

LEMMA ExclusiveMeansUnshared == (Exclusive <=> Unshared) /\ (Exclusive' <=> Unshared')
  BY DEF Exclusive, Shared, Unshared

\* Once the row refuses writers, none is at work.
BarrierHolds == Refused => Unshared

LEMMA BarrierKept ==
  ASSUME Shape, BarrierHolds, [Next]_vars
  PROVE  BarrierHolds'
<1> USE DEF Shape, TypeOK, BarrierHolds, Unshared, Refused, history, UploadTo, FinalizeOver, Ready, Asleep
<1>1. ASSUME NEW u \in Uploaders, UploadLease(u) PROVE BarrierHolds'
  BY <1>1 DEF UploadLease
<1>2. ASSUME NEW u \in Uploaders, Register(u) \/ ChunkLock(u) \/ Put(u) PROVE BarrierHolds'
  BY <1>2 DEF Register, ChunkLock, Put
<1>3. ASSUME NEW u \in Uploaders, Look(u) PROVE BarrierHolds'
  BY <1>3 DEF Look
<1>4. ASSUME NEW u \in Uploaders, Fold(u) \/ Undo(u) \/ WriteFails(u) \/ UploadCrash(u) PROVE BarrierHolds'
  BY <1>4 DEF Fold, Count, Undo, WriteFails, Compensate, UploadCrash
<1>5. ASSUME NEW f \in Finalizers, FinalizeLease(f) PROVE BarrierHolds'
  BY <1>5 DEF FinalizeLease
<1>6. ASSUME NEW f \in Finalizers, List(f) PROVE BarrierHolds'
  BY <1>6 DEF List
<1>7. ASSUME NEW f \in Finalizers, Build(f) PROVE BarrierHolds'
  BY <1>7 DEF Build
<1>8. ASSUME NEW f \in Finalizers, Stamp(f) \/ FinalizeCrash(f) PROVE BarrierHolds'
  BY <1>8 DEF Stamp, FinalizeCrash
<1>9. ASSUME NEW e \in Erasers, BeginErasure(e) PROVE BarrierHolds'
  BY <1>9, ExclusiveMeansUnshared DEF BeginErasure
<1>10. ASSUME NEW e \in Erasers, CountObjects(e) \/ RecordCensus(e) \/ DeletePrefix(e) PROVE BarrierHolds'
  BY <1>10 DEF CountObjects, RecordCensus, DeletePrefix
<1>11. ASSUME NEW e \in Erasers, Recount(e) \/ EraseCrash(e) PROVE BarrierHolds'
  BY <1>11 DEF Recount, EraseCrash
<1>12. ASSUME NEW e \in Erasers, CommitErasure(e) PROVE BarrierHolds'
  BY <1>12, ExclusiveMeansUnshared DEF CommitErasure
<1>13. CASE End
  BY <1>13 DEF End
<1>14. CASE Withdraw
  BY <1>14, ExclusiveMeansUnshared DEF Withdraw
<1>15. CASE ExpireAudio
  BY <1>15, ExclusiveMeansUnshared DEF ExpireAudio
<1>16. CASE UNCHANGED vars
  BY <1>16 DEF vars
<1>17. ASSUME NEW u \in Uploaders, LookFails(u) PROVE BarrierHolds'
  BY <1>17 DEF LookFails
<1>18. ASSUME NEW u \in Uploaders, FoldUnanswered(u) PROVE BarrierHolds'
  BY <1>18 DEF FoldUnanswered, Compensate
<1> QED
  BY <1>1, <1>2, <1>3, <1>4, <1>5, <1>6, <1>7, <1>8, <1>9, <1>10, <1>11, <1>12, <1>13, <1>14, <1>15, <1>16, <1>17, <1>18 DEF Next, Upload, UploadFails, Finalize, Erase

\* What a look at the object leaves an upload with.
LEMMA LookDoes ==
  ASSUME Shape, NEW u \in Uploaders, Look(u)
  PROVE  /\ upload[u].pc = "look"
         /\ \A v \in Uploaders : v # u => upload'[v] = upload[v]
         /\ \/ upload'[u].pc = "idle"
            \/ /\ upload[u].chunk \in objects
               /\ upload'[u].pc = "fold" /\ upload'[u].chunk = upload[u].chunk
               /\ upload'[u].present
            \/ /\ upload[u].chunk \notin objects
               /\ upload'[u].pc = "put" /\ upload'[u].chunk = upload[u].chunk
<1> USE DEF Shape, TypeOK
<1>1. CASE upload' = [upload EXCEPT ![u] = [@ EXCEPT !.pc = "fold", !.present = TRUE]]
           /\ upload[u].chunk \in objects
  <2>0. upload'[u] = [upload[u] EXCEPT !.pc = "fold", !.present = TRUE]
    BY <1>1
  <2>1. /\ upload'[u].pc = "fold" /\ upload'[u].chunk = upload[u].chunk
        /\ upload'[u].present
    <3>1. upload[u] \in [pc : {"idle", "register", "lock", "look", "put", "fold", "undo"},
                         chunk : Chunks \cup {NoChunk}, present : BOOLEAN]
      OBVIOUS
    <3> HIDE DEF Shape, TypeOK
    <3>2. upload'[u].pc = "fold" /\ upload'[u].chunk = upload[u].chunk
      BY <2>0, <3>1
    <3>3. upload'[u].present = TRUE
      BY <2>0, <3>1
    <3> QED
      BY <3>2, <3>3
  <2>2. \A v \in Uploaders : v # u => upload'[v] = upload[v]
    BY <1>1
  <2> QED
    BY <1>1, <2>1, <2>2 DEF Look
<1>2. CASE upload' = [upload EXCEPT ![u] = Ready]
  BY <1>2 DEF Look, Ready
<1>3. CASE upload[u].chunk \notin objects /\ UploadTo(u, "put")
  BY <1>3 DEF Look, UploadTo
<1> QED
  BY <1>1, <1>2, <1>3 DEF Look

\* Two uploads at work on an object are at work on different ones.
Writing(u) == upload[u].pc \in {"look", "put", "fold", "undo"}
OneWriterPerChunk == \A u, v \in Uploaders :
  u # v /\ Writing(u) /\ Writing(v) => upload[u].chunk # upload[v].chunk

LEMMA OneWriterKept ==
  ASSUME Shape, OneWriterPerChunk, [Next]_vars
  PROVE  OneWriterPerChunk'
<1> USE DEF Shape, TypeOK, OneWriterPerChunk, Writing, history, UploadTo, Ready
<1>1. ASSUME NEW u \in Uploaders, UploadLease(u) PROVE OneWriterPerChunk'
  BY <1>1 DEF UploadLease
<1>2. ASSUME NEW u \in Uploaders, Register(u) PROVE OneWriterPerChunk'
  BY <1>2 DEF Register
<1>3. ASSUME NEW u \in Uploaders, ChunkLock(u) PROVE OneWriterPerChunk'
  BY <1>3 DEF ChunkLock, Locked
<1>4. ASSUME NEW u \in Uploaders, Look(u) PROVE OneWriterPerChunk'
  <2>1. \A v \in Uploaders : v # u => upload'[v] = upload[v]
    BY <1>4, LookDoes
  <2>2. Writing(u)
    BY <1>4, LookDoes
  <2>3. upload'[u].pc = "idle" \/ upload'[u].chunk = upload[u].chunk
    BY <1>4, LookDoes
  <2> QED
    BY <2>1, <2>2, <2>3
<1>5. ASSUME NEW u \in Uploaders, Put(u) PROVE OneWriterPerChunk'
  BY <1>5 DEF Put
<1>6. ASSUME NEW u \in Uploaders, Fold(u) \/ Undo(u) \/ UploadCrash(u) PROVE OneWriterPerChunk'
  BY <1>6 DEF Fold, Count, Undo, UploadCrash
<1>7. ASSUME NEW u \in Uploaders, WriteFails(u) PROVE OneWriterPerChunk'
  BY <1>7 DEF WriteFails, Compensate
<1>8. ASSUME NEW f \in Finalizers, FinalizeLease(f) \/ List(f) \/ Build(f) \/ Stamp(f) \/ FinalizeCrash(f) PROVE OneWriterPerChunk'
  BY <1>8 DEF FinalizeLease, List, Build, Stamp, FinalizeCrash
<1>9. ASSUME NEW e \in Erasers, BeginErasure(e) \/ CountObjects(e) \/ RecordCensus(e) \/ DeletePrefix(e) \/ Recount(e) \/ CommitErasure(e) \/ EraseCrash(e) PROVE OneWriterPerChunk'
  BY <1>9 DEF BeginErasure, CountObjects, RecordCensus, DeletePrefix, Recount, CommitErasure, EraseCrash
<1>10. CASE End
  BY <1>10 DEF End
<1>11. CASE Withdraw
  BY <1>11 DEF Withdraw
<1>12. CASE ExpireAudio
  BY <1>12 DEF ExpireAudio
<1>13. CASE UNCHANGED vars
  BY <1>13 DEF vars
<1>14. ASSUME NEW u \in Uploaders, LookFails(u) PROVE OneWriterPerChunk'
  BY <1>14 DEF LookFails
<1>15. ASSUME NEW u \in Uploaders, FoldUnanswered(u) PROVE OneWriterPerChunk'
  BY <1>15 DEF FoldUnanswered, Compensate
<1> QED
  BY <1>1, <1>2, <1>3, <1>4, <1>5, <1>6, <1>7, <1>8, <1>9, <1>10, <1>11, <1>12, <1>13, <1>14, <1>15 DEF Next, Upload, UploadFails, Finalize, Erase

-----------------------------------------------------------------------------
(* What is erased stays erased. *)

Emptied == objects = {} /\ master = {}

\* The prefix is on the row before the first object is stored, for as long as
\* there is one, so that a plan made from the row finds all of them.
Registered ==
  /\ \A u \in Uploaders : upload[u].pc = "lock" \/ Writing(u) => prefix
  /\ prefix \/ Emptied

\* A request that is at work has put the barrier down first, and one that is to
\* commit has nothing left to delete.
EraserBegan == \A e \in Erasers : erase[e].pc # "idle" => row.erasing
CommitsEmpty == \A e \in Erasers : erase[e].pc = "commit" => Emptied

Gone == EraserBegan /\ CommitsEmpty /\ NoObjectOutlives

LEMMA EraserKept ==
  ASSUME Shape, EraserBegan, [Next]_vars
  PROVE  EraserBegan'
<1> USE DEF Shape, TypeOK, EraserBegan, history, EraseTo, EraseOver, NotErasing
<1>1. ASSUME NEW u \in Uploaders, UploadLease(u) \/ Register(u) \/ ChunkLock(u) \/ Look(u) \/ Put(u) \/ Fold(u) \/ WriteFails(u) \/ Undo(u) \/ UploadCrash(u) PROVE EraserBegan'
  BY <1>1 DEF UploadLease, Register, ChunkLock, Look, Put, Fold, Count, WriteFails, Compensate, Undo, UploadCrash
<1>2. ASSUME NEW f \in Finalizers, FinalizeLease(f) \/ List(f) \/ Build(f) \/ Stamp(f) \/ FinalizeCrash(f) PROVE EraserBegan'
  BY <1>2 DEF FinalizeLease, List, Build, Stamp, FinalizeCrash
<1>3. ASSUME NEW e \in Erasers, BeginErasure(e) PROVE EraserBegan'
  BY <1>3 DEF BeginErasure
<1>4. ASSUME NEW e \in Erasers, CountObjects(e) PROVE EraserBegan'
  BY <1>4 DEF CountObjects
<1>5. ASSUME NEW e \in Erasers, RecordCensus(e) PROVE EraserBegan'
  BY <1>5 DEF RecordCensus
<1>6. ASSUME NEW e \in Erasers, DeletePrefix(e) PROVE EraserBegan'
  BY <1>6 DEF DeletePrefix
<1>7. ASSUME NEW e \in Erasers, Recount(e) PROVE EraserBegan'
  BY <1>7 DEF Recount
<1>8. ASSUME NEW e \in Erasers, CommitErasure(e) PROVE EraserBegan'
  BY <1>8 DEF CommitErasure
<1>9. ASSUME NEW e \in Erasers, EraseCrash(e) PROVE EraserBegan'
  BY <1>9 DEF EraseCrash
<1>10. CASE End
  BY <1>10 DEF End
<1>11. CASE Withdraw
  BY <1>11 DEF Withdraw
<1>12. CASE ExpireAudio
  BY <1>12 DEF ExpireAudio
<1>13. CASE UNCHANGED vars
  BY <1>13 DEF vars
<1>14. ASSUME NEW u \in Uploaders, LookFails(u) PROVE EraserBegan'
  BY <1>14 DEF LookFails
<1>15. ASSUME NEW u \in Uploaders, FoldUnanswered(u) PROVE EraserBegan'
  BY <1>15 DEF FoldUnanswered
<1> QED
  BY <1>1, <1>2, <1>3, <1>4, <1>5, <1>6, <1>7, <1>8, <1>9, <1>10, <1>11, <1>12, <1>13, <1>14, <1>15 DEF Next, Upload, UploadFails, Finalize, Erase

LEMMA RegisteredKept ==
  ASSUME Shape, BarrierHolds, CommitsEmpty, Registered, [Next]_vars
  PROVE  Registered'
<1> USE DEF Shape, TypeOK, Registered, Writing, Emptied, history, UploadTo, Ready, FinalizeOver
<1>1. ASSUME NEW u \in Uploaders, UploadLease(u) PROVE Registered'
  BY <1>1 DEF UploadLease
<1>2. ASSUME NEW u \in Uploaders, Register(u) PROVE Registered'
  BY <1>2 DEF Register
<1>3. ASSUME NEW u \in Uploaders, ChunkLock(u) PROVE Registered'
  BY <1>3 DEF ChunkLock
<1>4. ASSUME NEW u \in Uploaders, Look(u) PROVE Registered'
  BY <1>4, LookDoes DEF Look
<1>5. ASSUME NEW u \in Uploaders, Put(u) PROVE Registered'
  BY <1>5 DEF Put
<1>6. ASSUME NEW u \in Uploaders, Fold(u) PROVE Registered'
  BY <1>6 DEF Fold, Count
<1>7. ASSUME NEW u \in Uploaders, WriteFails(u) PROVE Registered'
  BY <1>7 DEF WriteFails, Compensate
<1>8. ASSUME NEW u \in Uploaders, Undo(u) PROVE Registered'
  BY <1>8 DEF Undo
<1>9. ASSUME NEW u \in Uploaders, UploadCrash(u) PROVE Registered'
  BY <1>9 DEF UploadCrash
<1>10. ASSUME NEW f \in Finalizers, FinalizeLease(f) \/ Stamp(f) \/ FinalizeCrash(f) PROVE Registered'
  BY <1>10 DEF FinalizeLease, Stamp, FinalizeCrash
<1>11. ASSUME NEW f \in Finalizers, List(f) PROVE Registered'
  BY <1>11 DEF List
<1>12. ASSUME NEW f \in Finalizers, Build(f) PROVE Registered'
  BY <1>12 DEF Build
<1>13. ASSUME NEW e \in Erasers, BeginErasure(e) \/ CountObjects(e) \/ RecordCensus(e) \/ Recount(e) \/ EraseCrash(e) PROVE Registered'
  BY <1>13 DEF BeginErasure, CountObjects, RecordCensus, Recount, EraseCrash
<1>14. ASSUME NEW e \in Erasers, DeletePrefix(e) PROVE Registered'
  BY <1>14 DEF DeletePrefix
<1>15. ASSUME NEW e \in Erasers, CommitErasure(e) PROVE Registered'
  BY <1>15, ExclusiveMeansUnshared DEF CommitErasure, CommitsEmpty, Unshared
<1>16. CASE End
  BY <1>16 DEF End
<1>17. CASE Withdraw
  BY <1>17 DEF Withdraw
<1>18. CASE ExpireAudio
  BY <1>18 DEF ExpireAudio
<1>19. CASE UNCHANGED vars
  BY <1>19 DEF vars
<1>20. ASSUME NEW u \in Uploaders, LookFails(u) PROVE Registered'
  BY <1>20 DEF LookFails
<1>21. ASSUME NEW u \in Uploaders, FoldUnanswered(u) PROVE Registered'
  BY <1>21 DEF FoldUnanswered, Compensate
<1> QED
  BY <1>1, <1>2, <1>3, <1>4, <1>5, <1>6, <1>7, <1>8, <1>9, <1>10, <1>11, <1>12, <1>13, <1>14, <1>15, <1>16, <1>17, <1>18, <1>19, <1>20, <1>21 DEF Next, Upload, UploadFails, Finalize, Erase

LEMMA GoneKept ==
  ASSUME Shape, BarrierHolds, Registered, Gone, [Next]_vars
  PROVE  Gone'
<1> USE DEF Shape, TypeOK, Gone, CommitsEmpty, NoObjectOutlives, Emptied, history
<1>1. ASSUME NEW u \in Uploaders, UploadLease(u) \/ Register(u) \/ ChunkLock(u) \/ Look(u) \/ Fold(u) \/ WriteFails(u) \/ UploadCrash(u) PROVE Gone'
  BY <1>1, EraserKept DEF UploadLease, Register, ChunkLock, Look, Fold, Count, WriteFails, Compensate, UploadCrash
<1>2. ASSUME NEW u \in Uploaders, Put(u) PROVE Gone'
  BY <1>2, EraserKept DEF Put, BarrierHolds, Refused, Unshared, EraserBegan
<1>3. ASSUME NEW u \in Uploaders, Undo(u) PROVE Gone'
  BY <1>3, EraserKept DEF Undo
<1>4. ASSUME NEW f \in Finalizers, FinalizeLease(f) \/ List(f) \/ Stamp(f) \/ FinalizeCrash(f) PROVE Gone'
  BY <1>4, EraserKept DEF FinalizeLease, List, Stamp, FinalizeCrash
<1>5. ASSUME NEW f \in Finalizers, Build(f) PROVE Gone'
  BY <1>5, EraserKept DEF Build, BarrierHolds, Refused, Unshared, EraserBegan
<1>6. ASSUME NEW e \in Erasers, BeginErasure(e) PROVE Gone'
  BY <1>6, EraserKept DEF BeginErasure
<1>7. ASSUME NEW e \in Erasers, CountObjects(e) PROVE Gone'
  BY <1>7, EraserKept DEF CountObjects
<1>8. ASSUME NEW e \in Erasers, RecordCensus(e) PROVE Gone'
  BY <1>8, EraserKept DEF RecordCensus, EraseTo, EraseOver, NotErasing
<1>9. ASSUME NEW e \in Erasers, DeletePrefix(e) PROVE Gone'
  <2>1. \A d \in Erasers : erase'[d].pc = "commit" => erase[d].pc = "commit"
    BY <1>9 DEF DeletePrefix, EraseTo, EraseOver, NotErasing
  <2>2. Emptied => Emptied'
    BY <1>9 DEF DeletePrefix
  <2>3. UNCHANGED row
    BY <1>9 DEF DeletePrefix
  <2> QED
    BY <1>9, <2>1, <2>2, <2>3, EraserKept
<1>10. ASSUME NEW e \in Erasers, Recount(e) PROVE Gone'
  <2>1. CASE Planned /\ Census # 0
    BY <1>10, <2>1, EraserKept DEF Recount, EraseOver, NotErasing
  <2>2. CASE ~(Planned /\ Census # 0)
    <3>1. Emptied
      BY <2>2, CensusSize DEF Planned, Registered
    <3> QED
      BY <1>10, <2>2, <3>1, EraserKept DEF Recount, EraseTo
  <2> QED
    BY <2>1, <2>2
<1>11. ASSUME NEW e \in Erasers, CommitErasure(e) PROVE Gone'
  BY <1>11, EraserKept DEF CommitErasure, EraseOver, NotErasing
<1>12. ASSUME NEW e \in Erasers, EraseCrash(e) PROVE Gone'
  BY <1>12, EraserKept DEF EraseCrash, EraseOver, NotErasing
<1>13. CASE End
  BY <1>13, EraserKept DEF End
<1>14. CASE Withdraw
  BY <1>14, EraserKept DEF Withdraw
<1>15. CASE ExpireAudio
  BY <1>15, EraserKept DEF ExpireAudio, Planned, Registered
<1>16. CASE UNCHANGED vars
  BY <1>16, EraserKept DEF vars
<1>17. ASSUME NEW u \in Uploaders, LookFails(u) PROVE Gone'
  BY <1>17, EraserKept DEF LookFails
<1>18. ASSUME NEW u \in Uploaders, FoldUnanswered(u) PROVE Gone'
  BY <1>18, EraserKept DEF FoldUnanswered
<1> QED
  BY <1>1, <1>2, <1>3, <1>4, <1>5, <1>6, <1>7, <1>8, <1>9, <1>10, <1>11, <1>12, <1>13, <1>14, <1>15, <1>16, <1>17, <1>18 DEF Next, Upload, UploadFails, Finalize, Erase


-----------------------------------------------------------------------------
(* What the receipt counts. *)

\* The first census is taken of what the barrier left, and deleting begins after
\* it is recorded.
Receipt ==
  /\ ~row.erasing => censused = Unknown
  /\ row.erasing => witness # Unknown
  /\ row.erasing /\ row.present /\ censused = Unknown => witness = Census
  /\ \A e \in Erasers : erase[e].pc = "record" /\ row.present /\ censused = Unknown
                          => erase[e].count = witness
  /\ \A e \in Erasers : erase[e].pc \in {"delete", "recount", "commit"} => censused # Unknown
  /\ ReceiptCountsTheBarrier

LEMMA ReceiptKept ==
  ASSUME Shape, BarrierHolds, Registered, Gone, Receipt, [Next]_vars
  PROVE  Receipt'
<1> USE DEF Receipt, ReceiptCountsTheBarrier, history
<1>1. ASSUME NEW u \in Uploaders, UploadLease(u) \/ Register(u) \/ ChunkLock(u) \/ Look(u) \/ Fold(u) \/ WriteFails(u) \/ UploadCrash(u) PROVE Receipt'
  BY <1>1 DEF UploadLease, Register, ChunkLock, Look, Fold, Count, WriteFails, Compensate, UploadCrash, Census
<1>2. ASSUME NEW u \in Uploaders, Put(u) PROVE Receipt'
  BY <1>2 DEF Put, Census, BarrierHolds, Refused, Unshared
<1>3. ASSUME NEW u \in Uploaders, Undo(u) PROVE Receipt'
  BY <1>3 DEF Undo, Census, BarrierHolds, Refused, Unshared
<1>4. ASSUME NEW f \in Finalizers, FinalizeLease(f) \/ List(f) \/ Stamp(f) \/ FinalizeCrash(f) PROVE Receipt'
  BY <1>4 DEF FinalizeLease, List, Stamp, FinalizeCrash, Census
<1>5. ASSUME NEW f \in Finalizers, Build(f) PROVE Receipt'
  BY <1>5 DEF Build, Census, BarrierHolds, Refused, Unshared
<1>6. ASSUME NEW e \in Erasers, BeginErasure(e) PROVE Receipt'
  BY <1>6, CensusSize DEF BeginErasure, Gone, EraserBegan, Shape, TypeOK, Census
<1>7. ASSUME NEW e \in Erasers, CountObjects(e) PROVE Receipt'
  BY <1>7, CensusSize DEF CountObjects, Gone, EraserBegan, Shape, TypeOK, Census, Planned, Registered, Emptied
<1>8. ASSUME NEW e \in Erasers, RecordCensus(e) PROVE Receipt'
  BY <1>8 DEF RecordCensus, EraseTo, EraseOver, NotErasing, Shape, TypeOK, Census, Gone, EraserBegan
<1>9. ASSUME NEW e \in Erasers, DeletePrefix(e) PROVE Receipt'
  BY <1>9 DEF DeletePrefix, EraseTo, EraseOver, NotErasing, Shape, TypeOK
<1>10. ASSUME NEW e \in Erasers, Recount(e) PROVE Receipt'
  BY <1>10 DEF Recount, EraseTo, EraseOver, NotErasing, Shape, TypeOK, Census
<1>11. ASSUME NEW e \in Erasers, CommitErasure(e) PROVE Receipt'
  BY <1>11 DEF CommitErasure, EraseOver, NotErasing, Shape, TypeOK, Census
<1>12. ASSUME NEW e \in Erasers, EraseCrash(e) PROVE Receipt'
  BY <1>12 DEF EraseCrash, EraseOver, NotErasing, Shape, TypeOK, Census
<1>13. CASE End
  BY <1>13 DEF End, Shape, TypeOK, Census
<1>14. CASE Withdraw
  BY <1>14 DEF Withdraw, Shape, TypeOK, Census
<1>15. CASE ExpireAudio
  BY <1>15 DEF ExpireAudio, Shape, TypeOK, Gone, EraserBegan
<1>16. CASE UNCHANGED vars
  BY <1>16 DEF vars, Census
<1>17. ASSUME NEW u \in Uploaders, LookFails(u) PROVE Receipt'
  BY <1>17 DEF LookFails, Census
<1>18. ASSUME NEW u \in Uploaders, FoldUnanswered(u) PROVE Receipt'
  BY <1>18 DEF FoldUnanswered, Census
<1> QED
  BY <1>1, <1>2, <1>3, <1>4, <1>5, <1>6, <1>7, <1>8, <1>9, <1>10, <1>11, <1>12, <1>13, <1>14, <1>15, <1>16, <1>17, <1>18 DEF Next, Upload, UploadFails, Finalize, Erase


-----------------------------------------------------------------------------
(* What the record counts is stored. *)

\* Uploads that may still remove their object: no fold has counted it.
Uncounted(u) == \/ upload[u].pc \in {"put", "undo"}
                \/ upload[u].pc = "fold" /\ ~upload[u].present

\* Until something is swept, what is folded and not misled is stored, an upload
\* that folds has its object stored, and one that may undo has an object nobody
\* folded or knows no better.
Stored ==
  /\ record.folded \ misled \subseteq objects
  /\ \A u \in Uploaders : upload[u].pc = "fold" => upload[u].chunk \in objects
  /\ \A u \in Uploaders : Uncounted(u) => upload[u].chunk \notin record.folded \ misled

FoldsStored == swept \/ Stored

LEMMA StoredKept ==
  ASSUME Shape, OneWriterPerChunk, FoldsStored, [Next]_vars
  PROVE  FoldsStored'
<1> USE DEF Shape, TypeOK, FoldsStored, Stored, history, Uncounted, UploadTo, Ready
<1>1. ASSUME NEW u \in Uploaders, UploadLease(u) PROVE FoldsStored'
  BY <1>1 DEF UploadLease
<1>2. ASSUME NEW u \in Uploaders, Register(u) PROVE FoldsStored'
  BY <1>2 DEF Register
<1>3. ASSUME NEW u \in Uploaders, ChunkLock(u) PROVE FoldsStored'
  BY <1>3 DEF ChunkLock
<1>4. ASSUME NEW u \in Uploaders, Look(u) PROVE FoldsStored'
  <2>1. CASE swept
    BY <1>4, <2>1 DEF Look
  <2>2. CASE Stored
    <3>1. objects' = objects /\ record' = record /\ misled' = misled
      BY <1>4 DEF Look
    <3>2. ASSUME NEW v \in Uploaders
          PROVE  /\ upload'[v].pc = "fold" => upload'[v].chunk \in objects
                 /\ Uncounted(v)' => upload'[v].chunk \notin record.folded \ misled
      <4>1. CASE v = u
        BY <1>4, <2>2, <4>1, LookDoes
      <4>2. CASE v # u
        BY <1>4, <2>2, <4>2, LookDoes
      <4> QED
        BY <4>1, <4>2
    <3> QED
      BY <2>2, <3>1, <3>2
  <2> QED
    BY <2>1, <2>2
<1>5. ASSUME NEW u \in Uploaders, Put(u) PROVE FoldsStored'
  BY <1>5 DEF Put, OneWriterPerChunk, Writing
<1>6. ASSUME NEW u \in Uploaders, Fold(u) PROVE FoldsStored'
  BY <1>6 DEF Fold, Count, OneWriterPerChunk, Writing
<1>7. ASSUME NEW u \in Uploaders, WriteFails(u) PROVE FoldsStored'
  BY <1>7 DEF WriteFails, Compensate
<1>8. ASSUME NEW u \in Uploaders, Undo(u) PROVE FoldsStored'
  BY <1>8 DEF Undo, OneWriterPerChunk, Writing
<1>9. ASSUME NEW u \in Uploaders, UploadCrash(u) PROVE FoldsStored'
  BY <1>9 DEF UploadCrash
<1>10. ASSUME NEW f \in Finalizers, FinalizeLease(f) \/ List(f) \/ FinalizeCrash(f) PROVE FoldsStored'
  BY <1>10 DEF FinalizeLease, List, FinalizeCrash
<1>11. ASSUME NEW f \in Finalizers, Build(f) PROVE FoldsStored'
  BY <1>11 DEF Build
<1>12. ASSUME NEW f \in Finalizers, Stamp(f) PROVE FoldsStored'
  BY <1>12 DEF Stamp
<1>13. ASSUME NEW e \in Erasers, BeginErasure(e) \/ CountObjects(e) \/ RecordCensus(e) \/ Recount(e) \/ EraseCrash(e) PROVE FoldsStored'
  BY <1>13 DEF BeginErasure, CountObjects, RecordCensus, Recount, EraseCrash
<1>14. ASSUME NEW e \in Erasers, DeletePrefix(e) PROVE FoldsStored'
  BY <1>14, Zenon DEF DeletePrefix
<1>15. ASSUME NEW e \in Erasers, CommitErasure(e) PROVE FoldsStored'
  BY <1>15, ExclusiveMeansUnshared DEF CommitErasure, NoRecord, Unshared
<1>16. CASE End \/ Withdraw
  BY <1>16 DEF End, Withdraw
<1>17. CASE ExpireAudio
  BY <1>17, Zenon DEF ExpireAudio
<1>18. CASE UNCHANGED vars
  BY <1>18 DEF vars
<1>19. ASSUME NEW u \in Uploaders, LookFails(u) PROVE FoldsStored'
  BY <1>19 DEF LookFails
<1>20. ASSUME NEW u \in Uploaders, FoldUnanswered(u) PROVE FoldsStored'
  BY <1>20 DEF FoldUnanswered, Count, Compensate, OneWriterPerChunk, Writing
<1> QED
  BY <1>1, <1>2, <1>3, <1>4, <1>5, <1>6, <1>7, <1>8, <1>9, <1>10, <1>11, <1>12, <1>13, <1>14, <1>15, <1>16, <1>17, <1>18, <1>19, <1>20 DEF Next, Upload, UploadFails, Finalize, Erase


-----------------------------------------------------------------------------
(* What a stamp vouches for. *)

\* Nothing was swept, no assembly crossed another and nothing failed: then the
\* master and every listing are of chunks still stored, an assembly stamps the
\* master it put, and a count that was stamped is the master's, unless an assembly
\* is between its put and its stamp.
Disturbed == crossed \/ swept \/ faults # 0

Stamped(mf) == mf.assembled # 0 => mf.final /\ mf.path = "master"

Whole ==
  /\ Stamped(record)
  /\ record = NoRecord \/ record.folded # {}
  /\ \A f \in Finalizers : Stamped(finalize[f].mf)
  /\ \A f \in Finalizers : finalize[f].pc # "idle" => record.folded # {}

Vouched ==
  /\ misled = {} /\ \A u \in Uploaders : upload[u].pc # "undo"
  /\ master \subseteq objects
  /\ \A f \in Finalizers : finalize[f].listed \subseteq objects
  /\ \A f \in Finalizers : finalize[f].pc = "stamp" => finalize[f].listed = master
  /\ record.assembled # 0 =>
       \/ Cardinality(master) = record.assembled
       \/ \E f \in Finalizers : finalize[f].pc = "stamp"

StampVouches == Disturbed \/ Vouched

\* A listing is of the chunks that are there.
LEMMA ListDoes ==
  ASSUME Shape, NEW f \in Finalizers, List(f)
  PROVE  \A g \in Finalizers : finalize'[g].listed \subseteq finalize[g].listed \cup objects
<1>1. CASE finalize' = [finalize EXCEPT ![f] = Asleep]
  BY <1>1 DEF Asleep, Shape, TypeOK
<1>2. CASE \E pc \in {"build", "stamp"} :
             finalize' = [finalize EXCEPT ![f] = [@ EXCEPT !.listed = objects, !.pc = pc]]
  <2>1. PICK pc \in {"build", "stamp"} :
          finalize' = [finalize EXCEPT ![f] = [@ EXCEPT !.listed = objects, !.pc = pc]]
    BY <1>2
  <2>2. finalize'[f].listed = objects
    BY <2>1 DEF Shape, TypeOK
  <2>3. \A g \in Finalizers : g # f => finalize'[g] = finalize[g]
    BY <2>1 DEF Shape, TypeOK
  <2> QED
    BY <2>2, <2>3
<1> QED
  BY <1>1, <1>2, ListGoesOn

\* A failure, once counted, stays counted.
LEMMA FaultsCount ==
  ASSUME Shape, Fault
  PROVE  faults' # 0
  BY DEF Shape, TypeOK, Fault

LEMMA WholeKept ==
  ASSUME Shape, Whole, [Next]_vars
  PROVE  Whole'
<1> USE DEF Shape, TypeOK, Whole, Stamped, history, FinalizeOver, Asleep, NoRecord
<1>1. ASSUME NEW u \in Uploaders, Upload(u) \/ UploadFails(u) PROVE Whole'
  <2>1. CASE Fold(u) \/ FoldUnanswered(u)
    <3>1. upload[u].chunk \in record'.folded /\ record'.assembled = 0
      BY <2>1 DEF Fold, FoldUnanswered, Count
    <3>2. UNCHANGED finalize
      BY <2>1 DEF Fold, FoldUnanswered
    <3> QED
      BY <3>1, <3>2
  <2>2. CASE ~Fold(u) /\ ~FoldUnanswered(u)
    <3>1. UNCHANGED <<record, finalize>>
      BY <1>1, <2>2 DEF Upload, UploadFails, UploadLease, Register, ChunkLock, Look, LookFails,
         Put, Undo, WriteFails, UploadCrash
    <3> QED
      BY <3>1
  <2> QED
    BY <2>1, <2>2
<1>2. ASSUME NEW f \in Finalizers, FinalizeLease(f) PROVE Whole'
  <2>1. \A g \in Finalizers : finalize'[g] = finalize[g] \/ finalize'[g].mf = record
    BY <1>2 DEF FinalizeLease
  <2> QED
    BY <1>2, <2>1 DEF FinalizeLease
<1>3. ASSUME NEW f \in Finalizers, List(f) \/ Build(f) \/ FinalizeCrash(f) PROVE Whole'
  <2>1. finalize'[f].mf \in {finalize[f].mf, NoRecord}
    <3>1. CASE finalize' = [finalize EXCEPT ![f] = Asleep]
      BY <3>1
    <3>2. CASE \E pc \in {"build", "stamp"} :
                 finalize' = [finalize EXCEPT ![f] = [@ EXCEPT !.listed = objects, !.pc = pc]]
      BY <3>2
    <3>3. CASE Build(f) /\ finalize' = [finalize EXCEPT ![f].pc = "stamp"]
      BY <3>3
    <3>4. CASE List(f)
      BY <3>1, <3>2, <3>4, ListGoesOn
    <3>5. CASE Build(f)
      BY <3>1, <3>3, <3>5, Zenon DEF Build
    <3> QED
      BY <1>3, <3>1, <3>4, <3>5 DEF FinalizeCrash
  <2>2. \A g \in Finalizers : g # f => finalize'[g] = finalize[g]
    BY <1>3 DEF List, Build, FinalizeCrash
  <2>3. \A g \in Finalizers : finalize'[g].pc # "idle" => finalize[g].pc # "idle"
    BY <1>3 DEF List, Build, FinalizeCrash
  <2>4. UNCHANGED record
    BY <1>3 DEF List, Build, FinalizeCrash
  <2> QED
    BY <2>1, <2>2, <2>3, <2>4
<1>4. ASSUME NEW f \in Finalizers, Stamp(f) PROVE Whole'
  <2>1. /\ record'.final /\ record'.path = "master" /\ record'.folded = record.folded
        /\ record.folded # {}
    BY <1>4 DEF Stamp, MediaFile
  <2>2. \A g \in Finalizers : finalize'[g] \in {finalize[g], Asleep}
    BY <1>4 DEF Stamp
  <2> QED
    BY <2>1, <2>2
<1>5. ASSUME NEW e \in Erasers, Erase(e) \/ EraseCrash(e) PROVE Whole'
  <2>1. CASE CommitErasure(e)
    BY <2>1, ExclusiveMeansUnshared DEF CommitErasure, Unshared
  <2>2. CASE ~CommitErasure(e)
    <3>1. UNCHANGED <<record, finalize>>
      BY <1>5, <2>2 DEF Erase, BeginErasure, CountObjects, RecordCensus, DeletePrefix, Recount,
         EraseCrash
    <3> QED
      BY <3>1
  <2> QED
    BY <2>1, <2>2
<1>6. CASE End \/ Withdraw
  BY <1>6 DEF End, Withdraw
<1>7. CASE ExpireAudio
  BY <1>7, ExclusiveMeansUnshared DEF ExpireAudio, Unshared
<1>8. CASE UNCHANGED vars
  BY <1>8 DEF vars
<1> QED
  BY <1>1, <1>2, <1>3, <1>4, <1>5, <1>6, <1>7, <1>8 DEF Next, Finalize

\* Chunks that are there are built, unless their master is stamped already.
LEMMA ListBuilds ==
  ASSUME Shape, Whole, Stored, misled = {}, NEW f \in Finalizers, List(f)
  PROVE  finalize'[f].pc \in {"build", "idle"}
<1> DEFINE mf == finalize[f].mf
           rebuild == /\ objects # {}
                      /\ master = {} \/ mf.assembled # Cardinality(objects)
           stamped == /\ mf.final /\ mf.path = "master"
                      /\ mf.assembled = Cardinality(objects)
<1>1. objects # {} /\ IsFiniteSet(objects)
  BY ChunkSetSize DEF List, Whole, Stored, Shape, TypeOK
<1>2. Cardinality(objects) # 0
  BY <1>1, FS_EmptySet
<1>3. rebuild \/ stamped
  BY <1>1, <1>2 DEF Whole, Stamped
<1>4. CASE rebuild
  <2>1. finalize' = [finalize EXCEPT ![f] = [@ EXCEPT !.listed = objects, !.pc = "build"]]
    BY <1>4, Zenon DEF List
  <2> QED
    BY <2>1 DEF Shape, TypeOK
<1>5. CASE ~rebuild /\ stamped
  <2>1. finalize' = [finalize EXCEPT ![f] = Asleep]
    BY <1>5, Zenon DEF List, FinalizeOver
  <2> QED
    BY <2>1 DEF Shape, TypeOK, Asleep
<1> QED
  BY <1>3, <1>4, <1>5

LEMMA VouchedKept ==
  ASSUME Shape, BarrierHolds, Whole, FoldsStored, StampVouches, [Next]_vars
  PROVE  StampVouches'
<1> USE DEF Shape, TypeOK, StampVouches, Vouched, Disturbed, history, FinalizeOver, Asleep, UploadTo, Ready
<1>1. ASSUME NEW u \in Uploaders, UploadLease(u) PROVE StampVouches'
  BY <1>1 DEF UploadLease
<1>2. ASSUME NEW u \in Uploaders, Register(u) PROVE StampVouches'
  BY <1>2 DEF Register
<1>3. ASSUME NEW u \in Uploaders, ChunkLock(u) PROVE StampVouches'
  BY <1>3 DEF ChunkLock
<1>4. ASSUME NEW u \in Uploaders, Look(u) PROVE StampVouches'
  <2>1. \A v \in Uploaders : upload'[v].pc = "undo" => upload[v].pc = "undo"
    BY <1>4, LookDoes
  <2> QED
    BY <1>4, <2>1 DEF Look
<1>5. ASSUME NEW u \in Uploaders, Put(u) PROVE StampVouches'
  BY <1>5 DEF Put
<1>6. ASSUME NEW u \in Uploaders, Fold(u) PROVE StampVouches'
  BY <1>6 DEF Fold, Count
<1>7. ASSUME NEW u \in Uploaders, WriteFails(u) PROVE StampVouches'
  BY <1>7, FaultsCount DEF WriteFails, Compensate
<1>8. ASSUME NEW u \in Uploaders, Undo(u) PROVE StampVouches'
  BY <1>8 DEF Undo
<1>9. ASSUME NEW u \in Uploaders, UploadCrash(u) PROVE StampVouches'
  BY <1>9, FaultsCount DEF UploadCrash
<1>10. ASSUME NEW f \in Finalizers, FinalizeLease(f) PROVE StampVouches'
  BY <1>10 DEF FinalizeLease
<1>11. ASSUME NEW f \in Finalizers, List(f) PROVE StampVouches'
  <2>1. \A g \in Finalizers : finalize'[g].listed \subseteq finalize[g].listed \cup objects
    BY <1>11, ListDoes
  <2>2. \A g \in Finalizers : g # f => finalize'[g] = finalize[g]
    BY <1>11 DEF List
  <2>3. Disturbed \/ finalize'[f].pc # "stamp"
    BY <1>11, ListBuilds DEF FoldsStored
  <2>4. finalize[f].pc # "stamp"
    BY <1>11 DEF List
  <2>5. UNCHANGED <<master, objects, record, upload, history, faults>>
    BY <1>11 DEF List
  <2> QED
    BY <2>1, <2>2, <2>3, <2>4, <2>5
<1>12. ASSUME NEW f \in Finalizers, Build(f) PROVE StampVouches'
  <2>1. \A g \in Finalizers : g # f => finalize'[g] = finalize[g]
    BY <1>12 DEF Build
  <2>2. UNCHANGED <<objects, record, upload, swept, misled, faults>> /\ finalize[f].pc = "build"
    BY <1>12 DEF Build
  <2>3. CASE finalize[f].listed \subseteq objects
    <3>1. master' = finalize[f].listed
      BY <1>12, <2>3 DEF Build
    <3>2. finalize'[f].pc = "stamp" /\ finalize'[f].listed = finalize[f].listed
      BY <1>12, <2>3 DEF Build
    <3>3. crossed' \/ \A g \in Finalizers : finalize[g].pc # "stamp"
      BY <1>12, <2>3, Zenon DEF Build
    <3>4. crossed => crossed'
      BY <1>12, <2>3, Zenon DEF Build
    <3> QED
      BY <2>1, <2>2, <2>3, <3>1, <3>2, <3>3, <3>4
  <2>4. CASE ~(finalize[f].listed \subseteq objects)
    <3>1. UNCHANGED <<master, crossed>> /\ finalize'[f] = Asleep
      BY <1>12, <2>4 DEF Build
    <3> QED
      BY <2>1, <2>2, <3>1
  <2> QED
    BY <2>3, <2>4
<1>13. ASSUME NEW f \in Finalizers, Stamp(f) PROVE StampVouches'
  <2>1. record'.assembled = Cardinality(finalize[f].listed) /\ finalize[f].pc = "stamp"
    BY <1>13 DEF Stamp, MediaFile
  <2>2. \A g \in Finalizers : finalize'[g] \in {finalize[g], Asleep}
    BY <1>13 DEF Stamp
  <2>3. UNCHANGED <<objects, master, upload, history, faults>>
    BY <1>13 DEF Stamp
  <2>4. CASE Disturbed
    BY <2>3, <2>4
  <2>5. CASE Vouched
    <3>1. record'.assembled = Cardinality(master')
      BY <2>1, <2>3, <2>5
    <3> QED
      BY <2>2, <2>3, <2>5, <3>1
  <2> QED
    BY <2>4, <2>5
<1>14. ASSUME NEW f \in Finalizers, FinalizeCrash(f) PROVE StampVouches'
  BY <1>14, FaultsCount DEF FinalizeCrash
<1>15. ASSUME NEW e \in Erasers, BeginErasure(e) \/ CountObjects(e) \/ RecordCensus(e) \/ Recount(e) PROVE StampVouches'
  BY <1>15 DEF BeginErasure, CountObjects, RecordCensus, Recount
<1>16. ASSUME NEW e \in Erasers, EraseCrash(e) PROVE StampVouches'
  BY <1>16, FaultsCount DEF EraseCrash
<1>17. ASSUME NEW e \in Erasers, DeletePrefix(e) PROVE StampVouches'
  BY <1>17, Zenon DEF DeletePrefix
<1>18. ASSUME NEW e \in Erasers, CommitErasure(e) PROVE StampVouches'
  BY <1>18, ExclusiveMeansUnshared DEF CommitErasure, NoRecord, Unshared
<1>19. CASE End \/ Withdraw
  BY <1>19 DEF End, Withdraw
<1>20. CASE ExpireAudio
  BY <1>20, Zenon DEF ExpireAudio
<1>21. CASE UNCHANGED vars
  BY <1>21 DEF vars
<1>22. ASSUME NEW u \in Uploaders, LookFails(u) PROVE StampVouches'
  BY <1>22, FaultsCount DEF LookFails
<1>23. ASSUME NEW u \in Uploaders, FoldUnanswered(u) PROVE StampVouches'
  BY <1>23, FaultsCount DEF FoldUnanswered
<1> QED
  BY <1>1, <1>2, <1>3, <1>4, <1>5, <1>6, <1>7, <1>8, <1>9, <1>10, <1>11, <1>12, <1>13, <1>14, <1>15, <1>16, <1>17, <1>18, <1>19, <1>20, <1>21, <1>22, <1>23 DEF Next, Upload, UploadFails, Finalize, Erase


-----------------------------------------------------------------------------
(* The invariant, and what it gives. *)

Inv == /\ Shape /\ BarrierHolds /\ OneWriterPerChunk
       /\ Registered /\ Gone /\ Receipt
       /\ FoldsStored /\ Whole /\ StampVouches

LEMMA InitInv == Init => Inv
<1> SUFFICES ASSUME Init PROVE Inv
  OBVIOUS
<1>1. Shape
  BY InitShape
<1>2. BarrierHolds /\ OneWriterPerChunk /\ Registered
  BY DEF Init, Ready, Asleep, BarrierHolds, Unshared, OneWriterPerChunk, Writing,
         Registered, Emptied, Refused
<1>3. Gone
  BY DEF Init, NotErasing, Gone, EraserBegan, CommitsEmpty, NoObjectOutlives
<1>4. Receipt
  BY DEF Init, NotErasing, Receipt, ReceiptCountsTheBarrier
<1>5. FoldsStored
  BY DEF Init, Ready, FoldsStored, Stored, NoRecord, Uncounted
<1>6. Whole /\ StampVouches
  BY DEF Init, Ready, Asleep, Whole, Stamped, StampVouches, Vouched, NoRecord
<1> QED
  BY <1>1, <1>2, <1>3, <1>4, <1>5, <1>6 DEF Inv

LEMMA NextInv == Inv /\ [Next]_vars => Inv'
<1> SUFFICES ASSUME Inv, [Next]_vars PROVE Inv'
  OBVIOUS
<1>1. Shape' /\ BarrierHolds' /\ OneWriterPerChunk'
  BY NextShape, BarrierKept, OneWriterKept DEF Inv
<1>2. Registered' /\ Gone' /\ Receipt'
  BY RegisteredKept, GoneKept, ReceiptKept DEF Inv, Gone
<1>3. FoldsStored' /\ Whole' /\ StampVouches'
  BY StoredKept, WholeKept, VouchedKept DEF Inv
<1> QED
  BY <1>1, <1>2, <1>3 DEF Inv

LEMMA Invariance == Spec => []Inv
  BY InitInv, NextInv, PTL DEF Spec

\* An erased meeting, or one whose audio expired, keeps no object and gets none,
\* whatever uploads, reads and erasures were under way and failed.
THEOREM ErasedStaysErased == Spec => []NoObjectOutlives
<1>1. Inv => NoObjectOutlives
  BY DEF Inv, Gone
<1> QED
  BY <1>1, Invariance, PTL

\* The receipt's count is the census at the barrier, however many requests erased
\* and however often one began again.
THEOREM ReceiptIsExact == Spec => []ReceiptCountsTheBarrier
<1>1. Inv => ReceiptCountsTheBarrier
  BY DEF Inv, Receipt
<1> QED
  BY <1>1, Invariance, PTL

\* A chunk the record counts is stored, whatever other uploads were undone: only
\* an upload that was told wrongly that its object is new, or that its fold
\* failed, removes one.
THEOREM FoldedStays == Spec => []FoldedIsStored
<1>1. Inv => FoldedIsStored
  BY DEF Inv, FoldsStored, Stored, FoldedIsStored
<1> QED
  BY <1>1, Invariance, PTL

\* A stamp that says the master is current is right, unless assemblies crossed.
THEOREM StampIsCurrent == Spec => []MasterNotFrozen
<1>1. Inv => MasterNotFrozen
  <2> SUFFICES ASSUME Inv, ~crossed, Exclusive, ~swept, faults = 0,
                      record.assembled = Cardinality(objects)
               PROVE  record.folded \subseteq master
    BY DEF MasterNotFrozen, Current
  <2>1. Vouched /\ Unshared /\ record.folded \subseteq objects
    BY ExclusiveMeansUnshared DEF Inv, StampVouches, Disturbed, FoldsStored, Stored, Vouched
  <2>2. objects \in SUBSET Chunks /\ IsFiniteSet(objects)
    BY ChunkSetSize DEF Inv, Shape, TypeOK
  <2>3. CASE record.assembled = 0
    BY <2>1, <2>2, <2>3, FS_EmptySet
  <2>4. CASE record.assembled # 0
    <3>1. Cardinality(master) = Cardinality(objects) /\ master \subseteq objects
      BY <2>1, <2>4 DEF Vouched, Unshared
    <3>2. master = objects
      BY <2>2, <3>1, FS_Subset
    <3> QED
      BY <2>1, <3>2
  <2> QED
    BY <2>3, <2>4
<1> QED
  BY <1>1, Invariance, PTL
=============================================================================
