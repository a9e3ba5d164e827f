---------------------------- MODULE RecordingStore ----------------------------
(***************************************************************************)
(* The recording of one meeting: the bot's chunks go to object storage and *)
(* are folded into meetings.data, a read of the master assembles what is   *)
(* there, and withdrawal, expiry and erasure shut the writers out           *)
(* (recordings/service.py, adapters.py, jsonb.py; retention/service.py,    *)
(* adapters.py, ttl_adapters.py).                                           *)
(*                                                                         *)
(* A writer holds the meeting-write lock shared for as long as it works;   *)
(* what takes it exclusively does so in one transaction and is one action. *)
(***************************************************************************)
EXTENDS Naturals, FiniteSets

CONSTANTS Chunks,     \* chunk sequences of the session
          Uploaders,  \* chunk uploads at a time
          Finalizers, \* reads of the master at a time
          Erasers,    \* erasure requests at a time
          MaxFaults   \* processes that die and calls that fail

ASSUME BoundsAssumption == MaxFaults \in Nat /\ IsFiniteSet(Chunks)

VARIABLES
  row,      \* the meeting row, as far as recording writers look at it
  prefix,   \* data.zaki_recording_prefixes has the session's prefix
  record,   \* data.recordings: the media file of the session
  objects,  \* chunk objects in storage
  master,   \* the chunks the master object was assembled from
  upload, finalize, erase, \* the requests
  censused, \* zaki_retention.recording_objects
  witness,  \* history: objects under the prefix when the barrier fell
  swept,    \* history: an expiry or an erasure has begun to delete objects
  crossed,  \* history: an assembly put its master between another's put and stamp
  misled,   \* history: chunks an upload may undo after another, or itself, counted them
  faults

history == <<witness, swept, crossed, misled>>
vars == <<row, prefix, record, objects, master, upload, finalize, erase,
          censused, history, faults>>

-----------------------------------------------------------------------------
NoRecord == [folded |-> {}, final |-> FALSE, assembled |-> 0, path |-> "none"]
NoChunk == "no chunk"
Unknown == Cardinality(Chunks) + 2  \* no census yet

\* The master object counts as one more when it is there.
Census == Cardinality(objects) + IF master = {} THEN 0 ELSE 1

Ready == [pc |-> "idle", chunk |-> NoChunk, present |-> FALSE]
Asleep == [pc |-> "idle", mf |-> NoRecord, listed |-> {}]
NotErasing == [pc |-> "idle", count |-> 0]

Shared == {u \in Uploaders : upload[u].pc # "idle"}
          \cup {f \in Finalizers : finalize[f].pc # "idle"}
Exclusive == Shared = {}

\* RecordingWriteRefused.
Refused == ~row.present \/ row.withdrawn \/ row.erasing \/ row.expired

Fault == faults < MaxFaults /\ faults' = faults + 1

Init ==
  /\ row = [present |-> TRUE, ended |-> FALSE, withdrawn |-> FALSE,
            erasing |-> FALSE, expired |-> FALSE]
  /\ prefix = FALSE /\ record = NoRecord
  /\ objects = {} /\ master = {}
  /\ upload = [u \in Uploaders |-> Ready]
  /\ finalize = [f \in Finalizers |-> Asleep]
  /\ erase = [e \in Erasers |-> NotErasing]
  /\ censused = Unknown /\ witness = Unknown
  /\ swept = FALSE /\ crossed = FALSE /\ misled = {}
  /\ faults = 0

-----------------------------------------------------------------------------
(* upload_chunk. *)

UploadTo(u, pc) == upload' = [upload EXCEPT ![u].pc = pc]

\* recording_write: the shared lock, and the row's state under it.  The bot may
\* send a chunk again.
UploadLease(u) ==
  /\ upload[u].pc = "idle" /\ ~Refused
  /\ \E c \in Chunks : upload' = [upload EXCEPT ![u] =
       [pc |-> "register", chunk |-> c, present |-> FALSE]]
  /\ UNCHANGED <<row, prefix, record, objects, master, finalize, erase, censused, history, faults>>

\* Mutant of Register: the prefix is not written ahead.
RegisterNothing(u) ==
  /\ upload[u].pc = "register"
  /\ UploadTo(u, "lock")
  /\ UNCHANGED <<row, prefix, record, objects, master, finalize, erase, censused, history, faults>>

Register(u) ==
  /\ upload[u].pc = "register"
  /\ prefix' = TRUE
  /\ UploadTo(u, "lock")
  /\ UNCHANGED <<row, record, objects, master, finalize, erase, censused, history, faults>>

\* chunk_write: one writer of a key at a time.
Locked(c) ==
  \E u \in Uploaders : upload[u].chunk = c /\ upload[u].pc \in {"look", "put", "fold", "undo"}

\* Mutant of ChunkLock: no lock on the key.
ChunkLockOpen(u) ==
  /\ upload[u].pc = "lock"
  /\ UploadTo(u, "look")
  /\ UNCHANGED <<row, prefix, record, objects, master, finalize, erase, censused, history, faults>>

ChunkLock(u) ==
  /\ upload[u].pc = "lock" /\ ~Locked(upload[u].chunk)
  /\ UploadTo(u, "look")
  /\ UNCHANGED <<row, prefix, record, objects, master, finalize, erase, censused, history, faults>>

\* exists, and for an object that is there the comparison of the bytes, which may
\* conflict.
Look(u) ==
  /\ upload[u].pc = "look"
  /\ \/ /\ upload[u].chunk \in objects
        /\ upload' = [upload EXCEPT ![u] = [@ EXCEPT !.pc = "fold", !.present = TRUE]]
     \/ upload[u].chunk \in objects /\ upload' = [upload EXCEPT ![u] = Ready]
     \/ upload[u].chunk \notin objects /\ UploadTo(u, "put")
  /\ UNCHANGED <<row, prefix, record, objects, master, finalize, erase, censused, history, faults>>

\* storage.exists takes every error of the store for an absent object.
LookFails(u) ==
  /\ upload[u].pc = "look" /\ upload[u].chunk \in objects /\ Fault
  /\ misled' = misled \cup {upload[u].chunk}
  /\ UploadTo(u, "put")
  /\ UNCHANGED <<row, prefix, record, objects, master, finalize, erase, censused, witness, swept, crossed>>

Put(u) ==
  /\ upload[u].pc = "put"
  /\ objects' = objects \cup {upload[u].chunk}
  /\ UploadTo(u, "fold")
  /\ UNCHANGED <<row, prefix, record, master, finalize, erase, censused, history, faults>>

\* apply_chunk_to_recording under the row lock.  The entry is written anew: it
\* keeps the path of a final media file and loses assembled_chunk_count.
Count(c) ==
  \E last \in BOOLEAN :
    record' = [folded |-> record.folded \cup {c}, final |-> record.final \/ last,
               assembled |-> 0,
               path |-> IF record.final THEN record.path ELSE "chunk"]

Fold(u) ==
  /\ upload[u].pc = "fold"
  /\ Count(upload[u].chunk)
  /\ upload' = [upload EXCEPT ![u] = Ready]
  /\ UNCHANGED <<row, prefix, objects, master, finalize, erase, censused, history, faults>>

\* The compensation: an object that was not there before is removed.
Compensate(u) == UploadTo(u, IF upload[u].present THEN "idle" ELSE "undo")

\* The put fails, or the fold, which is not committed.
WriteFails(u) ==
  /\ upload[u].pc \in {"put", "fold"} /\ Fault
  /\ Compensate(u)
  /\ UNCHANGED <<row, prefix, record, objects, master, finalize, erase, censused, history>>

\* The fold is committed and its answer lost: it is compensated all the same.
FoldUnanswered(u) ==
  /\ upload[u].pc = "fold" /\ Fault
  /\ Count(upload[u].chunk)
  /\ misled' = IF upload[u].present THEN misled ELSE misled \cup {upload[u].chunk}
  /\ Compensate(u)
  /\ UNCHANGED <<row, prefix, objects, master, finalize, erase, censused, witness, swept, crossed>>

Undo(u) ==
  /\ upload[u].pc = "undo"
  /\ objects' = objects \ {upload[u].chunk}
  /\ upload' = [upload EXCEPT ![u] = Ready]
  /\ UNCHANGED <<row, prefix, record, master, finalize, erase, censused, history, faults>>

\* The process dies, or the removal fails; the locks go with the connection.
UploadCrash(u) ==
  /\ upload[u].pc # "idle" /\ Fault
  /\ upload' = [upload EXCEPT ![u] = Ready]
  /\ UNCHANGED <<row, prefix, record, objects, master, finalize, erase, censused, history>>

-----------------------------------------------------------------------------
(* finalize_master. *)

FinalizeOver(f) == finalize' = [finalize EXCEPT ![f] = Asleep]

\* The lease, and the recording as it is then.
FinalizeLease(f) ==
  /\ finalize[f].pc = "idle" /\ ~Refused
  /\ record # NoRecord
  /\ finalize' = [finalize EXCEPT ![f] = [pc |-> "list", mf |-> record, listed |-> {}]]
  /\ UNCHANGED <<row, prefix, record, objects, master, upload, erase, censused, history, faults>>

\* Mutant of List: a master that is there is served, whatever it holds.
ListByExistence(f) ==
  /\ finalize[f].pc = "list"
  /\ finalize' = [finalize EXCEPT ![f] =
       [@ EXCEPT !.listed = objects,
                 !.pc = IF objects # {} /\ master = {} THEN "build" ELSE "stamp"]]
  /\ UNCHANGED <<row, prefix, record, objects, master, upload, erase, censused, history, faults>>

\* The chunks are listed and the master looked for: a master of as many chunks is
\* served, and not stamped again.
List(f) ==
  /\ finalize[f].pc = "list"
  /\ LET mf == finalize[f].mf
         rebuild == /\ objects # {}
                    /\ master = {} \/ mf.assembled # Cardinality(objects)
         stamped == /\ mf.final /\ mf.path = "master"
                    /\ mf.assembled = Cardinality(objects)
     IN IF ~rebuild /\ stamped THEN FinalizeOver(f)
        ELSE finalize' = [finalize EXCEPT ![f] =
               [@ EXCEPT !.listed = objects, !.pc = IF rebuild THEN "build" ELSE "stamp"]]
  /\ UNCHANGED <<row, prefix, record, objects, master, upload, erase, censused, history, faults>>

\* The chunks are read and the master put; a chunk that went missing fails it.
Build(f) ==
  /\ finalize[f].pc = "build"
  /\ IF finalize[f].listed \subseteq objects
     THEN /\ master' = finalize[f].listed
          /\ finalize' = [finalize EXCEPT ![f].pc = "stamp"]
          /\ crossed' = (crossed \/ \E g \in Finalizers : finalize[g].pc = "stamp")
     ELSE FinalizeOver(f) /\ UNCHANGED <<master, crossed>>
  /\ UNCHANGED <<row, prefix, record, objects, upload, erase, censused, witness, swept, misled, faults>>

\* Mutant of Stamp: the master is counted among its own chunks.
StampCountsMaster(f) ==
  /\ finalize[f].pc = "stamp"
  /\ record' = [record EXCEPT !.path = "master", !.final = TRUE,
                              !.assembled = Cardinality(finalize[f].listed) + 1]
  /\ FinalizeOver(f)
  /\ UNCHANGED <<row, prefix, objects, master, upload, erase, censused, history, faults>>

Stamp(f) ==
  /\ finalize[f].pc = "stamp"
  /\ record' = [record EXCEPT !.path = "master", !.final = TRUE,
                              !.assembled = Cardinality(finalize[f].listed)]
  /\ FinalizeOver(f)
  /\ UNCHANGED <<row, prefix, objects, master, upload, erase, censused, history, faults>>

FinalizeCrash(f) ==
  /\ finalize[f].pc # "idle" /\ Fault
  /\ FinalizeOver(f)
  /\ UNCHANGED <<row, prefix, record, objects, master, upload, erase, censused, history>>

-----------------------------------------------------------------------------
(* What shuts the writers out. *)

End ==
  /\ row.present /\ ~row.ended
  /\ row' = [row EXCEPT !.ended = TRUE]
  /\ UNCHANGED <<prefix, record, objects, master, upload, finalize, erase, censused, history, faults>>

Withdraw ==
  /\ Exclusive /\ row.present /\ ~row.withdrawn
  /\ row' = [row EXCEPT !.withdrawn = TRUE]
  /\ UNCHANGED <<prefix, record, objects, master, upload, finalize, erase, censused, history, faults>>

\* The prefixes of the plan: those registered and those of the record.
Planned == prefix \/ record # NoRecord

\* expire_scope "audio": the objects go first, and a failure leaves the rest due.
ExpireAudio ==
  /\ Exclusive /\ row.present /\ row.ended /\ ~row.erasing /\ ~row.expired
  /\ \/ /\ IF Planned THEN objects' = {} /\ master' = {} ELSE UNCHANGED <<objects, master>>
        /\ record' = NoRecord
        /\ row' = [row EXCEPT !.expired = TRUE]
        /\ UNCHANGED faults
     \/ /\ Fault /\ Planned
        /\ objects' \in SUBSET objects /\ master' \in {master, {}}
        /\ UNCHANGED <<record, row>>
  /\ swept' = TRUE
  /\ UNCHANGED <<prefix, upload, finalize, erase, censused, witness, crossed, misled>>

-----------------------------------------------------------------------------
(* erase_meeting; a request that fails or dies is made again. *)

EraseTo(e, pc) == erase' = [erase EXCEPT ![e].pc = pc]
EraseOver(e) == erase' = [erase EXCEPT ![e] = NotErasing]

\* begin_erasure: the state, or the plan that is there already.
BeginErasure(e) ==
  /\ erase[e].pc = "idle" /\ Exclusive /\ row.present
  /\ row' = [row EXCEPT !.erasing = TRUE]
  /\ witness' = IF row.erasing THEN witness ELSE Census
  /\ erase' = [erase EXCEPT ![e] =
       [pc |-> IF censused = Unknown THEN "count" ELSE "delete", count |-> 0]]
  /\ UNCHANGED <<swept, crossed, misled, prefix, record, objects, master, upload, finalize, censused, faults>>

CountObjects(e) ==
  /\ erase[e].pc = "count"
  /\ erase' = [erase EXCEPT ![e] = [pc |-> "record", count |-> IF Planned THEN Census ELSE 0]]
  /\ UNCHANGED <<row, prefix, record, objects, master, upload, finalize, censused, history, faults>>

\* Mutant of RecordCensus: the last count stays.
RecordCensusAnew(e) ==
  /\ erase[e].pc = "record" /\ Exclusive
  /\ IF row.present THEN censused' = erase[e].count /\ EraseTo(e, "delete")
                    ELSE EraseOver(e) /\ UNCHANGED censused
  /\ UNCHANGED <<row, prefix, record, objects, master, upload, finalize, history, faults>>

\* record_object_census: the first count stays.
RecordCensus(e) ==
  /\ erase[e].pc = "record" /\ Exclusive
  /\ IF row.present
     THEN /\ censused' = IF censused = Unknown THEN erase[e].count ELSE censused
          /\ EraseTo(e, "delete")
     ELSE EraseOver(e) /\ UNCHANGED censused
  /\ UNCHANGED <<row, prefix, record, objects, master, upload, finalize, history, faults>>

\* delete_prefix; half of it when storage fails.
DeletePrefix(e) ==
  /\ erase[e].pc = "delete"
  /\ \/ /\ IF Planned THEN objects' = {} /\ master' = {} ELSE UNCHANGED <<objects, master>>
        /\ EraseTo(e, "recount")
        /\ UNCHANGED faults
     \/ /\ Fault /\ Planned
        /\ objects' \in SUBSET objects /\ master' \in {master, {}}
        /\ EraseOver(e)
  /\ swept' = TRUE
  /\ UNCHANGED <<row, prefix, record, upload, finalize, censused, witness, crossed, misled>>

Recount(e) ==
  /\ erase[e].pc = "recount"
  /\ IF Planned /\ Census # 0 THEN EraseOver(e) ELSE EraseTo(e, "commit")
  /\ UNCHANGED <<row, prefix, record, objects, master, upload, finalize, censused, history, faults>>

CommitErasure(e) ==
  /\ erase[e].pc = "commit" /\ Exclusive
  /\ row' = [row EXCEPT !.present = FALSE]
  /\ prefix' = FALSE /\ record' = NoRecord
  /\ EraseOver(e)
  /\ UNCHANGED <<objects, master, upload, finalize, censused, history, faults>>

EraseCrash(e) ==
  /\ erase[e].pc # "idle" /\ Fault
  /\ EraseOver(e)
  /\ UNCHANGED <<row, prefix, record, objects, master, upload, finalize, censused, history>>

-----------------------------------------------------------------------------
Upload(u) ==
  UploadLease(u) \/ Register(u) \/ ChunkLock(u) \/ Look(u) \/ Put(u) \/ Fold(u) \/ Undo(u)

UploadFails(u) ==
  LookFails(u) \/ WriteFails(u) \/ FoldUnanswered(u) \/ UploadCrash(u)

Finalize(f) == FinalizeLease(f) \/ List(f) \/ Build(f) \/ Stamp(f)

Erase(e) ==
  \/ BeginErasure(e) \/ CountObjects(e) \/ RecordCensus(e)
  \/ DeletePrefix(e) \/ Recount(e) \/ CommitErasure(e)

Next ==
  \/ \E u \in Uploaders : Upload(u) \/ UploadFails(u)
  \/ \E f \in Finalizers : Finalize(f) \/ FinalizeCrash(f)
  \/ \E e \in Erasers : Erase(e) \/ EraseCrash(e)
  \/ End \/ Withdraw \/ ExpireAudio

Spec == Init /\ [][Next]_vars

-----------------------------------------------------------------------------
MediaFile == [folded : SUBSET Chunks, final : BOOLEAN,
              assembled : 0 .. Cardinality(Chunks), path : {"none", "chunk", "master"}]

TypeOK ==
  /\ row \in [present : BOOLEAN, ended : BOOLEAN, withdrawn : BOOLEAN,
              erasing : BOOLEAN, expired : BOOLEAN]
  /\ prefix \in BOOLEAN
  /\ record \in MediaFile
  /\ objects \subseteq Chunks /\ master \subseteq Chunks
  /\ upload \in [Uploaders ->
       [pc : {"idle", "register", "lock", "look", "put", "fold", "undo"},
        chunk : Chunks \cup {NoChunk}, present : BOOLEAN]]
  /\ finalize \in [Finalizers ->
       [pc : {"idle", "list", "build", "stamp"}, mf : MediaFile, listed : SUBSET Chunks]]
  /\ erase \in [Erasers ->
       [pc : {"idle", "count", "record", "delete", "recount", "commit"}, count : 0 .. Unknown]]
  /\ {censused, witness} \subseteq 0 .. Unknown /\ {swept, crossed} \subseteq BOOLEAN
  /\ misled \subseteq Chunks
  /\ faults \in 0 .. MaxFaults

\* An erased meeting, or one whose audio expired, has no object left in storage
\* and gets none: whoever was uploading or assembling, and whatever failed.
NoObjectOutlives == ~row.present \/ row.expired => objects = {} /\ master = {}

\* The receipt of an erasure counts what was there when the writers were shut
\* out, however often the erasure was begun again after deleting some of it.
ReceiptCountsTheBarrier == censused # Unknown => censused = witness

\* A chunk the record counts has its object: the compensation of a failed upload
\* (service.py 184) never removes an object another upload has folded.  It does
\* remove one that its own upload has, when the fold was committed and not
\* answered, and one it was told was not there before.
FoldedIsStored == swept \/ record.folded \ misled \subseteq objects

\* What a read is served without another assembly has every chunk the record
\* counts, once nobody writes and when nothing failed.
Current ==
  Exclusive /\ ~swept /\ faults = 0 /\ record.path = "master"
    /\ record.assembled = Cardinality(objects)
  => record.folded \subseteq master

\* A master that its stamp says is current is, unless one assembly put its master
\* in the place of another's between that one's put and its stamp.
MasterNotFrozen == crossed \/ Current

\* service.py 226: "the freeze is impossible to reintroduce silently".  Two reads
\* at once do: the lease is shared, and the older listing may be put last and
\* stamped first.
NeverFrozen == Current
=============================================================================
