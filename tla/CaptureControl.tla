---------------------------- MODULE CaptureControl ----------------------------
(***************************************************************************)
(* The signed control operations of one subject: POST captures and POST    *)
(* erase of zaki_control/router.py over the idempotency ledger, the        *)
(* subject barrier and the capture map of zaki_control/adapters.py.        *)
(*                                                                         *)
(* The Hub repeats a request under its idempotency key until it has a      *)
(* receipt.  An executor that holds the operation may be slow or dead: its *)
(* lease expires, the next request takes the operation over under a higher *)
(* fence, and the slow one wakes up between any two of its steps.          *)
(* Settlement with the Hub is CaptureOutbox, the deletion of the raw data  *)
(* is RecordingStore and TranscriptStore: one step each here.              *)
(***************************************************************************)
EXTENDS Naturals, FiniteSets

CONSTANTS Captors,     \* executors of POST captures at a time
          Erasers,     \* executors of POST erase at a time
          MaxMeetings, \* meeting rows of the subject
          MaxFaults    \* processes that die, calls that fail, and executors that
                       \* outlive their lease

ASSUME BoundsAssumption == MaxMeetings \in Nat /\ MaxFaults \in Nat

VARIABLES
  ledger,    \* zaki_control_operations: the capture and the erasure operation
  subject,   \* zaki_control_subject_state, and the policy
  capture,   \* zaki_control_captures: the capture of the operation
  meeting,   \* the subject's meetings, with the grant in each
  captor, eraser, \* the executors
  grants,    \* history: capture ids minted
  forgotten, \* history: the control data of the subject has been erased
  faults

history == <<grants, forgotten>>
vars == <<ledger, subject, capture, meeting, captor, eraser, history, faults>>

-----------------------------------------------------------------------------
Operation == {"capture", "erase"}
Meetings == 1..MaxMeetings

\* The journal of an erasure: how far each target is, and what was counted.
Progress == [at : {"nothing", "prepared", "raw_erased", "absent", "finalized"}, counted : BOOLEAN]
NoJournal == [m \in Meetings |-> [at |-> "nothing", counted |-> FALSE]]

\* The policy, against the request: capture is on at the version it attests, or it is
\* off or at another version.
Policy == {"none", "attested", "other"}

NotClaimed == [status |-> "none", fence |-> 0, leased |-> FALSE, journal |-> NoJournal]
NoCapture == [grant |-> 0, meeting |-> 0]
Idle == [pc |-> "idle", fence |-> 0, grant |-> 0]
Asleep == [pc |-> "idle", fence |-> 0, todo |-> {}, journal |-> NoJournal]

Fault == faults < MaxFaults /\ faults' = faults + 1

Init ==
  /\ ledger = [o \in Operation |-> NotClaimed]
  /\ subject = [state |-> "active", fence |-> 0, policy |-> "attested"]
  /\ capture = NoCapture
  /\ meeting = [m \in Meetings |-> [status |-> "none", grant |-> 0]]
  /\ captor = [c \in Captors |-> Idle]
  /\ eraser = [e \in Erasers |-> Asleep]
  /\ grants = 0 /\ forgotten = FALSE
  /\ faults = 0

-----------------------------------------------------------------------------
(* The ledger.  A pending operation is taken over once its lease is up.      *)

Claimable(o) == ledger[o].status = "none" \/ (ledger[o].status = "pending" /\ ~ledger[o].leased)

Claimed(o) ==
  [ledger EXCEPT ![o] =
     [@ EXCEPT !.status = "pending", !.fence = ledger[o].fence + 1, !.leased = TRUE]]

\* The WHERE clause of assert_operation_fence, save_operation_progress and
\* complete_operation.
Owns(o, fence) == ledger[o].status = "pending" /\ ledger[o].fence = fence

Renewed(o) == [ledger EXCEPT ![o].leased = TRUE]
Saved(journal) == [ledger EXCEPT !["erase"] = [@ EXCEPT !.leased = TRUE, !.journal = journal]]
Completed(o) == [ledger EXCEPT ![o] = [@ EXCEPT !.status = "completed", !.leased = FALSE]]

\* Somebody still works under the fence that holds the operation.
Worked(o) ==
  LET fence == ledger[o].fence
  IN  IF o = "capture" THEN \E c \in Captors : captor[c].pc # "idle" /\ captor[c].fence = fence
                       ELSE \E e \in Erasers : eraser[e].pc # "idle" /\ eraser[e].fence = fence

LeaseExpires(o) ==
  /\ ledger[o].leased
  /\ IF Worked(o) THEN Fault ELSE UNCHANGED faults
  /\ ledger' = [ledger EXCEPT ![o].leased = FALSE]
  /\ UNCHANGED <<subject, capture, meeting, captor, eraser, history>>

-----------------------------------------------------------------------------
(* POST captures.                                                            *)

CaptorTo(c, pc) == captor' = [captor EXCEPT ![c].pc = pc]
CaptorGivesUp(c) == captor' = [captor EXCEPT ![c] = Idle]

\* capture_enabled, and the policy_version of the attestation.
Admitted == subject.state # "erasing" /\ subject.policy = "attested"

\* Admission is looked at before the operation is claimed, by every repetition.
CaptorAdmitted(c) ==
  /\ captor[c].pc = "idle" /\ ledger["capture"].status # "completed"
  /\ Admitted
  /\ CaptorTo(c, "claim")
  /\ UNCHANGED <<ledger, subject, capture, meeting, eraser, history, faults>>

CaptorClaims(c) ==
  /\ captor[c].pc = "claim"
  /\ IF Claimable("capture")
     THEN /\ ledger' = Claimed("capture")
          /\ captor' = [captor EXCEPT ![c] =
               [pc |-> "find", fence |-> ledger'["capture"].fence, grant |-> 0]]
     ELSE CaptorGivesUp(c) /\ UNCHANGED ledger
  /\ UNCHANGED <<subject, capture, meeting, eraser, history, faults>>

\* Mutant of CaptorFinds: a capture that exists only lacks its receipt.
CaptorFindsItDone(c) ==
  /\ captor[c].pc = "find"
  /\ captor' = [captor EXCEPT ![c] =
       [@ EXCEPT !.pc = IF capture = NoCapture THEN "create" ELSE "seal", !.grant = capture.grant]]
  /\ UNCHANGED <<ledger, subject, capture, meeting, eraser, history, faults>>

\* get_capture_by_operation: a capture that is bound only lacks its receipt.
CaptorFinds(c) ==
  /\ captor[c].pc = "find"
  /\ captor' = [captor EXCEPT ![c] =
       [@ EXCEPT !.pc = CASE capture = NoCapture -> "create"
                          [] capture.meeting # 0 -> "seal"
                          [] OTHER -> "recover",
                 !.grant = capture.grant]]
  /\ UNCHANGED <<ledger, subject, capture, meeting, eraser, history, faults>>

\* A capture under a new id; it waits for its meeting.
Grant(c) ==
  /\ grants' = grants + 1
  /\ capture' = [grant |-> grants', meeting |-> 0]
  /\ captor' = [captor EXCEPT ![c] = [@ EXCEPT !.pc = "recover", !.grant = grants']]

\* Mutant of CaptorCreates: an operation may have a second capture.
CaptorReplaces(c) ==
  /\ captor[c].pc = "create"
  /\ IF subject.state # "erasing" THEN Grant(c)
                                  ELSE CaptorGivesUp(c) /\ UNCHANGED <<capture, grants>>
  /\ UNCHANGED <<ledger, subject, meeting, eraser, forgotten, faults>>

\* create_capture, under the subject's lock: the operation is unique in the
\* table, and none is created while the subject is being erased.
CaptorCreates(c) ==
  /\ captor[c].pc = "create"
  /\ IF subject.state # "erasing" /\ capture = NoCapture
     THEN Grant(c)
     ELSE CaptorGivesUp(c) /\ UNCHANGED <<capture, grants>>
  /\ UNCHANGED <<ledger, subject, meeting, eraser, forgotten, faults>>

Stored(m) == meeting[m].status \in {"live", "ended"}
Carrying(grant) == {m \in Meetings : Stored(m) /\ meeting[m].grant = grant}
Live == {m \in Meetings : meeting[m].status = "live"}

\* _recover_spawned_meeting: a meeting that carries the grant is completed.
CaptorRecovers(c) ==
  /\ captor[c].pc = "recover"
  /\ CaptorTo(c, IF Carrying(captor[c].grant) # {} THEN "fence" ELSE "spawn")
  /\ UNCHANGED <<ledger, subject, capture, meeting, eraser, history, faults>>

\* assert_operation_fence before request_capture, the binding and the receipt.
CaptorFences(c) ==
  /\ captor[c].pc \in {"spawn", "fence", "seal"}
  /\ IF Owns("capture", captor[c].fence)
     THEN /\ ledger' = Renewed("capture")
          /\ CaptorTo(c, CASE captor[c].pc = "spawn" -> "insert"
                           [] captor[c].pc = "fence" -> "bind"
                           [] captor[c].pc = "seal" -> "complete")
     ELSE CaptorGivesUp(c) /\ UNCHANGED ledger
  /\ UNCHANGED <<subject, capture, meeting, eraser, history, faults>>

\* request_capture: a grant is consumed by the row it is written to.  While a bot
\* of another grant is in the meeting the Hub only hears 409, again and again: the
\* model waits instead of counting the fences of those attempts.
CaptorSpawns(c) ==
  /\ captor[c].pc = "insert"
  /\ LET consumed == Carrying(captor[c].grant) # {}
         free == {m \in Meetings : meeting[m].status = "none"}
     IN  \/ consumed /\ CaptorGivesUp(c) /\ UNCHANGED meeting
         \/ /\ ~consumed /\ Live = {}
            /\ \E m \in free :
                 /\ \A n \in free : m <= n
                 /\ meeting' = [meeting EXCEPT ![m] =
                      [status |-> "live", grant |-> captor[c].grant]]
            /\ CaptorTo(c, "fence")
  /\ UNCHANGED <<ledger, subject, capture, eraser, history, faults>>

\* bind_capture_meeting; the capture may be gone.
CaptorBinds(c) ==
  /\ captor[c].pc = "bind"
  /\ IF capture.grant = captor[c].grant
     THEN /\ \E m \in Meetings :
               /\ meeting[m].grant = captor[c].grant
               /\ capture' = [capture EXCEPT !.meeting = m]
          /\ CaptorTo(c, "complete")
     ELSE CaptorGivesUp(c) /\ UNCHANGED capture
  /\ UNCHANGED <<ledger, subject, meeting, eraser, history, faults>>

CaptorCompletes(c) ==
  /\ captor[c].pc = "complete"
  /\ ledger' = IF Owns("capture", captor[c].fence) THEN Completed("capture") ELSE ledger
  /\ CaptorGivesUp(c)
  /\ UNCHANGED <<subject, capture, meeting, eraser, history, faults>>

\* A crash, or a call that fails; the runtime may have refused before the row.
CaptorFails(c) ==
  /\ captor[c].pc # "idle" /\ Fault
  /\ CaptorGivesUp(c)
  /\ UNCHANGED <<ledger, subject, capture, meeting, eraser, history>>

\* A bot's run ends; the row and the grant in it stay.
MeetingEnds(m) ==
  /\ m \in Live
  /\ meeting' = [meeting EXCEPT ![m].status = "ended"]
  /\ UNCHANGED <<ledger, subject, capture, captor, eraser, history, faults>>

\* put_policy, unless the subject is being erased: consent again, capture turned off,
\* another version.
Ensure ==
  /\ subject.state # "erasing"
  /\ \E policy \in Policy \ {"none"} :
       subject' = [state |-> "active", fence |-> 0, policy |-> policy]
  /\ UNCHANGED <<ledger, capture, meeting, captor, eraser, history, faults>>

-----------------------------------------------------------------------------
(* POST erase: the account.                                                  *)

EraserTo(e, pc) == eraser' = [eraser EXCEPT ![e].pc = pc]
EraserGivesUp(e) == eraser' = [eraser EXCEPT ![e] = Asleep]

\* An eraser takes note in memory and in the ledger, which must still be its own.
Notes(e, journal, pc) ==
  IF Owns("erase", eraser[e].fence)
  THEN /\ ledger' = Saved(journal)
       /\ eraser' = [eraser EXCEPT ![e] = [@ EXCEPT !.pc = pc, !.journal = journal]]
  ELSE EraserGivesUp(e) /\ UNCHANGED ledger

\* The target at hand.  Targets are taken in the order of their ids.
Target(e) == CHOOSE m \in eraser[e].todo : \A n \in eraser[e].todo : m <= n
NotesTarget(e, at, counted, pc) ==
  Notes(e, [eraser[e].journal EXCEPT ![Target(e)] = [at |-> at, counted |-> counted]], pc)

EraserClaims(e) ==
  /\ eraser[e].pc = "idle" /\ Claimable("erase")
  /\ ledger' = Claimed("erase")
  /\ eraser' = [eraser EXCEPT ![e] = [pc |-> "journal", fence |-> ledger'["erase"].fence,
                                      todo |-> {}, journal |-> ledger["erase"].journal]]
  /\ UNCHANGED <<subject, capture, meeting, captor, history, faults>>

EraserOpensJournal(e) ==
  /\ eraser[e].pc = "journal"
  /\ Notes(e, eraser[e].journal, "barrier")
  /\ UNCHANGED <<subject, capture, meeting, captor, history, faults>>

\* begin_subject_erasure: the barrier goes over to the executor that asks last.
EraserRaisesBarrier(e) ==
  /\ eraser[e].pc = "barrier"
  /\ subject' = [subject EXCEPT !.state = "erasing", !.fence = eraser[e].fence]
  /\ EraserTo(e, "list")
  /\ UNCHANGED <<ledger, capture, meeting, captor, history, faults>>

\* list_owned_erasure_targets, and the targets of the journal.
EraserLists(e) ==
  /\ eraser[e].pc = "list"
  /\ eraser' = [eraser EXCEPT ![e] = [@ EXCEPT !.pc = "target",
       !.todo = {m \in Meetings : Stored(m) \/ eraser[e].journal[m].at # "nothing"}]]
  /\ UNCHANGED <<ledger, subject, capture, meeting, captor, history, faults>>

\* _erase_target picks up where the journal left the target.
EraserTakesTarget(e) ==
  /\ eraser[e].pc = "target"
  /\ IF eraser[e].todo = {} THEN EraserTo(e, "control")
     ELSE CASE eraser[e].journal[Target(e)].at = "finalized" ->
                 eraser' = [eraser EXCEPT ![e].todo = @ \ {Target(e)}]
            [] eraser[e].journal[Target(e)].at = "raw_erased" -> EraserTo(e, "settled")
            [] OTHER -> EraserTo(e, "withdraw")
  /\ UNCHANGED <<ledger, subject, capture, meeting, captor, history, faults>>

\* _withdraw_for_erasure of a target listed as not terminal, which it may have
\* become since; the settlement with the Hub follows.
EraserWithdraws(e) ==
  /\ eraser[e].pc = "withdraw"
  /\ \/ /\ Stored(Target(e))
        /\ IF Owns("erase", eraser[e].fence)
           THEN /\ ledger' = Renewed("erase")
                /\ meeting' = [meeting EXCEPT ![Target(e)].status = "ended"]
                /\ EraserTo(e, "plan")
           ELSE EraserGivesUp(e) /\ UNCHANGED <<ledger, meeting>>
     \/ Target(e) \notin Live /\ EraserTo(e, "plan") /\ UNCHANGED <<ledger, meeting>>
  /\ UNCHANGED <<subject, capture, captor, history, faults>>

\* begin_erasure and the census.
EraserPlans(e) ==
  /\ eraser[e].pc = "plan"
  /\ EraserTo(e, IF Stored(Target(e)) THEN "prepare" ELSE "absent")
  /\ UNCHANGED <<ledger, subject, capture, meeting, captor, history, faults>>

\* Mutant of EraserPrepares: the plan is kept in memory only.
EraserPreparesInMemory(e) ==
  /\ eraser[e].pc = "prepare"
  /\ eraser' = [eraser EXCEPT ![e] =
       [@ EXCEPT !.pc = "delete", !.journal[Target(e)] = [at |-> "prepared", counted |-> TRUE]]]
  /\ UNCHANGED <<ledger, subject, capture, meeting, captor, history, faults>>

\* remember_plan, before the first irreversible deletion.
EraserPrepares(e) ==
  /\ eraser[e].pc = "prepare"
  /\ NotesTarget(e, "prepared", TRUE, "delete")
  /\ UNCHANGED <<subject, capture, meeting, captor, history, faults>>

\* delete_prefix and commit_erasure.
EraserDeletes(e) ==
  /\ eraser[e].pc = "delete"
  /\ meeting' = [meeting EXCEPT ![Target(e)].status = "deleted"]
  /\ EraserTo(e, "checkpoint")
  /\ UNCHANGED <<ledger, subject, capture, captor, history, faults>>

\* The raw data is gone: deleted now, or by the executor that noted the counts.
EraserChecksIn(e) ==
  /\ eraser[e].pc \in {"checkpoint", "absent"}
  /\ LET noted == eraser[e].journal[Target(e)]
     IN  NotesTarget(e, IF noted.at = "nothing" THEN "absent" ELSE "raw_erased",
                     noted.counted, "settled")
  /\ UNCHANGED <<subject, capture, meeting, captor, history, faults>>

\* finalize_erased_capture, of a capture that was bound.
EraserFinalizes(e) ==
  /\ eraser[e].pc = "settled"
  /\ capture' = IF capture.meeting = Target(e) THEN NoCapture ELSE capture
  /\ EraserTo(e, "finalized")
  /\ UNCHANGED <<ledger, subject, meeting, captor, history, faults>>

EraserClosesTarget(e) ==
  /\ eraser[e].pc = "finalized"
  /\ NotesTarget(e, "finalized", eraser[e].journal[Target(e)].counted, "target")
  /\ UNCHANGED <<subject, capture, meeting, captor, history, faults>>

\* erase_subject_control_data.
EraserErasesControl(e) ==
  /\ eraser[e].pc = "control"
  /\ capture' = NoCapture
  /\ subject' = [subject EXCEPT !.policy = "none"]
  /\ forgotten' = TRUE
  /\ EraserTo(e, "lower")
  /\ UNCHANGED <<ledger, meeting, captor, grants, faults>>

\* Mutant of EraserLowersBarrier: the fence of the erasure stays in the row.
EraserLowersHalf(e) ==
  /\ eraser[e].pc = "lower"
  /\ IF subject.state = "erasing" /\ subject.fence = eraser[e].fence
     THEN subject' = [subject EXCEPT !.state = "erased"] /\ EraserTo(e, "complete")
     ELSE EraserGivesUp(e) /\ UNCHANGED subject
  /\ UNCHANGED <<ledger, capture, meeting, captor, history, faults>>

\* finish_subject_erasure: only from behind one's own barrier.
EraserLowersBarrier(e) ==
  /\ eraser[e].pc = "lower"
  /\ IF subject.state = "erasing" /\ subject.fence = eraser[e].fence
     THEN subject' = [subject EXCEPT !.state = "erased", !.fence = 0] /\ EraserTo(e, "complete")
     ELSE EraserGivesUp(e) /\ UNCHANGED subject
  /\ UNCHANGED <<ledger, capture, meeting, captor, history, faults>>

EraserCompletes(e) ==
  /\ eraser[e].pc = "complete"
  /\ ledger' = IF Owns("erase", eraser[e].fence) THEN Completed("erase") ELSE ledger
  /\ EraserGivesUp(e)
  /\ UNCHANGED <<subject, capture, meeting, captor, history, faults>>

\* A crash, a deletion that fails, a settlement that has to be tried again.
EraserFails(e) ==
  /\ eraser[e].pc # "idle" /\ Fault
  /\ EraserGivesUp(e)
  /\ UNCHANGED <<ledger, subject, capture, meeting, captor, history>>

-----------------------------------------------------------------------------
CaptorStep(c) ==
  \/ CaptorAdmitted(c) \/ CaptorClaims(c) \/ CaptorFinds(c) \/ CaptorCreates(c)
  \/ CaptorRecovers(c) \/ CaptorFences(c) \/ CaptorSpawns(c) \/ CaptorBinds(c)
  \/ CaptorCompletes(c)

EraserStep(e) ==
  \/ EraserClaims(e) \/ EraserOpensJournal(e) \/ EraserRaisesBarrier(e) \/ EraserLists(e)
  \/ EraserTakesTarget(e) \/ EraserWithdraws(e) \/ EraserPlans(e) \/ EraserPrepares(e)
  \/ EraserDeletes(e) \/ EraserChecksIn(e) \/ EraserFinalizes(e) \/ EraserClosesTarget(e)
  \/ EraserErasesControl(e) \/ EraserLowersBarrier(e) \/ EraserCompletes(e)

Next ==
  \/ Ensure \/ \E m \in Meetings : MeetingEnds(m)
  \/ \E o \in Operation : LeaseExpires(o)
  \/ \E c \in Captors : CaptorStep(c) \/ CaptorFails(c)
  \/ \E e \in Erasers : EraserStep(e) \/ EraserFails(e)

\* Once made, a request is repeated by the Hub until it has its receipt; a request
\* that runs goes on, and the lease of one that does not runs out.  Nobody has to
\* ask for an erasure.
Spec ==
  /\ Init /\ [][Next]_vars
  /\ \A c \in Captors : WF_vars(CaptorStep(c))
  /\ \A e \in Erasers : WF_vars(ledger["erase"].status # "none" /\ EraserStep(e))
  /\ \A o \in Operation : WF_vars(~Worked(o) /\ LeaseExpires(o))

-----------------------------------------------------------------------------
(* Properties.                                                               *)

CaptorPc == {"idle", "claim", "find", "create", "recover", "spawn", "fence", "seal",
             "insert", "bind", "complete"}
EraserPc == {"idle", "journal", "barrier", "list", "target", "withdraw", "plan", "prepare",
             "delete", "checkpoint", "absent", "settled", "finalized", "control", "lower", "complete"}

\* Fences, journals and grants are what the tables can hold, a barrier belongs to
\* an executor exactly while it is up, and a capture is bound to a meeting that
\* carries its id.
TypeOK ==
  /\ ledger \in [Operation -> [status : {"none", "pending", "completed"}, fence : Nat,
                               leased : BOOLEAN, journal : [Meetings -> Progress]]]
  /\ subject \in [state : {"active", "erasing", "erased"}, fence : Nat, policy : Policy]
  /\ (subject.state = "erasing") = (subject.fence # 0)
  /\ capture \in [grant : 0..grants, meeting : 0..MaxMeetings]
  /\ capture.meeting # 0 => meeting[capture.meeting].grant = capture.grant
  /\ meeting \in [Meetings -> [status : {"none", "live", "ended", "deleted"}, grant : 0..grants]]
  /\ captor \in [Captors -> [pc : CaptorPc, fence : Nat, grant : 0..grants]]
  /\ eraser \in [Erasers -> [pc : EraserPc, fence : Nat, todo : SUBSET Meetings,
                             journal : [Meetings -> Progress]]]
  /\ grants \in Nat /\ forgotten \in BOOLEAN
  /\ faults \in 0..MaxFaults

\* However often the Hub repeats POST captures, whoever takes it over and wherever
\* its executors stopped, one operation puts one bot into the meeting, so long as
\* nothing of the subject is erased (_recover_spawned_meeting: "never a duplicate
\* visible bot").
OneBotPerOperation ==
  \/ forgotten \/ \E m \in Meetings : meeting[m].status = "deleted"
  \/ Cardinality({m \in Meetings : meeting[m].status # "none"}) <= 1

\* The receipt of an account erasure counts the meetings that were deleted, by
\* whichever executor, and no others (remember_plan, _erase_target).
ReceiptCountsWhatWasErased ==
  ledger["erase"].status = "completed" =>
    \A m \in Meetings : ledger["erase"].journal[m].counted <=> meeting[m].status = "deleted"

\* A capture whose bot was started is bound to its meeting, or the erasure deletes
\* either, if the policy does not go on refusing the repetitions: a crash between the
\* start and the binding leaves no bot that nobody accounts for (create_capture, "A
\* lease retry first recovers the durable mapping").
Unbound == capture.grant # 0 /\ capture.meeting = 0 /\ Carrying(capture.grant) # {}

BoundInTheEnd == <>[]Admitted => (Unbound ~> ~Unbound)

\* Whatever the policy says by then: admission comes before recovery, so capture
\* turned off after the crash leaves the bot unbound.
RecoveredWithoutConsent == Unbound ~> ~Unbound \/ ledger["erase"].status # "none"

\* An erasure that has its receipt comes to an end for the subject: the executors
\* that were overtaken leave no barrier behind (begin_subject_erasure).
BarrierComesDown == ledger["erase"].status = "completed" ~> subject.state # "erasing"

\* router.py: "a capture cannot slip in after this point and evade account
\* erasure".
NothingSlipsIn == ledger["erase"].status = "completed" => Live = {} \/ subject.state = "active"

\* assert_operation_fence: "A later executor cannot use a stale lease generation".
\* Consent given after the receipt is not erased by an executor of that receipt.
StaleErasesNothing ==
  [][ledger["erase"].status = "completed" => (subject.policy # "none" => subject'.policy # "none")]_vars
=============================================================================
