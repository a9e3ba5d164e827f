---------------------------- MODULE CaptureOutbox ----------------------------
(***************************************************************************)
(* What the ZAKI Hub is told of one capture: zaki_control/callbacks.py,    *)
(* the outbox and capture rows of zaki_control/adapters.py, and the        *)
(* settlement half of the erasure of zaki_control/router.py.               *)
(*                                                                         *)
(* The meeting row advances (MeetingLifecycle) and each advance is         *)
(* recorded with the events that make it visible; a stop, the binding of   *)
(* the capture and the reconcile pass record as well.  Every drain sends   *)
(* the pending events in their order.  An erasure settles, deletes the raw *)
(* meeting (RecordingStore, TranscriptStore) and then the capture.         *)
(* The Hub is external and follows the contract's README.                  *)
(***************************************************************************)
EXTENDS Naturals, FiniteSets, SequencesExt

CONSTANTS Tasks,      \* record_lifecycle, stop_capture, reconcile and bind tasks at a time
          Drains,     \* passes of drain_once at a time: a replica's or an erasure's own
          Stages,     \* statuses a bot reports before it ends
          MaxFaults   \* lost posts, failed transactions, processes that die

ASSUME BoundsAssumption ==
  MaxFaults \in Nat /\ Stages \subseteq {"joining", "awaiting_admission", "active"}

VARIABLES
  row,      \* meetings: the status, and whether a stop caught the bot in the lobby
  capture,  \* zaki_control_captures
  outbox,   \* zaki_control_callback_outbox: events in order, and which are done
  hub,      \* the Hub: its state of the capture, the events it took, and whether it
            \* said that it will never take the usage
  task,     \* a recording under way: steps to record, the capture it read
  drain,    \* a drain under way: the batch it read, the Hub's answer
  erase,    \* the erasure request
  crowded,  \* rows of other captures fill the batches of the loop, LIMIT 50 each
  faults

vars == <<row, capture, outbox, hub, task, drain, erase, crowded, faults>>

-----------------------------------------------------------------------------
State == {"requested", "joining", "awaiting_admission", "active", "stopping",
          "completed", "failed"}
Final == {"completed", "failed"}
Usage == "usage"
Event == State \cup {Usage}  \* status-{capture}-{state}, usage-{capture}-1

Adjacency ==
  [s \in State |->
     CASE s = "requested" -> {"joining", "failed"}
       [] s = "joining" -> {"awaiting_admission", "active", "failed"}
       [] s = "awaiting_admission" -> {"active", "failed"}
       [] s = "active" -> {"stopping", "completed", "failed"}
       [] s = "stopping" -> {"completed", "failed"}
       [] OTHER -> {}]

\* _RECOVERY_STEPS.
RecoverySteps ==
  [s \in State |->
     CASE s = "requested" -> <<>>
       [] s = "awaiting_admission" -> <<"joining", "awaiting_admission">>
       [] s = "active" -> <<"joining", "active">>
       [] s = "stopping" -> <<"joining", "active", "stopping">>
       [] s = "completed" -> <<"joining", "active", "completed">>
       [] OTHER -> <<s>>]

\* _legal_path: the shortest walk, which is unique in this graph.
LegalPath(from, to) ==
  LET walks == {w \in SeqOf(State, 3) :
                  /\ Last(<<from>> \o w) = to
                  /\ \A i \in DOMAIN w : w[i] \in Adjacency[(<<from>> \o w)[i]]}
  IN  CHOOSE w \in walks : \A v \in walks : Len(w) <= Len(v)

\* record_capture_timeline of an erasure: to `stopping`, then to `completed`.
WithdrawalWalk ==
  [s \in State \ Final |->
     LegalPath(s, "stopping") \o LegalPath("stopping", "completed")]

-----------------------------------------------------------------------------
NoTask == [pc |-> "idle", path |-> <<>>, seen |-> "requested"]
NoDrain == [pc |-> "idle", batch |-> <<>>, answer |-> "none"]
NotErasing == [pc |-> "idle", path |-> <<>>, rawErased |-> FALSE]

\* pending_callbacks: the events not delivered, in their order.
Open == {i \in DOMAIN outbox.queue : outbox.queue[i] \notin outbox.done}
Pending ==
  [k \in 1..Cardinality(Open) |->
     outbox.queue[CHOOSE i \in Open : Cardinality({j \in Open : j <= i}) = k]]

Fault == faults < MaxFaults /\ faults' = faults + 1

Init ==
  /\ row = [status |-> "requested", lobby |-> FALSE]
  /\ capture = [there |-> TRUE, bound |-> FALSE, state |-> "requested"]
  /\ outbox = [queue |-> <<>>, done |-> {}]
  /\ hub = [state |-> "requested", took |-> {}, refused |-> FALSE]
  /\ task = [t \in Tasks |-> NoTask]
  /\ drain = [d \in Drains |-> NoDrain]
  /\ erase = NotErasing
  /\ crowded = FALSE /\ faults = 0

\* _capture_from_row: the meeting's status, while there is one, overlays the
\* state the capture was recorded in.
Overlay == IF row.status = "gone" THEN capture.state ELSE row.status

\* hub_state_for: a run stopped in the lobby is told as failed, once it is over.
HubStateFor(r) == IF r.status = "completed" /\ r.lobby THEN "failed" ELSE r.status

-----------------------------------------------------------------------------
(* Recording: record_capture_transition writes the state and every event of  *)
(* it in one transaction, if the capture is still there.                     *)

\* Mutant of Insert: an event that is there already is inserted again.
InsertAgain(queue, e) == Append(queue, e)

\* ON CONFLICT (event_id) DO NOTHING.
Insert(queue, e) == IF e \in ToSet(queue) THEN queue ELSE Append(queue, e)

\* The status, and the usage of a capture that ends.
Enqueue(s) ==
  outbox' = [outbox EXCEPT !.queue =
    IF s \in Final THEN Insert(Insert(@, s), Usage) ELSE Insert(@, s)]

\* Mutant of Transition: the capture row is not looked for first.
TransitionBlindly(s) ==
  /\ capture' = IF capture.there THEN [capture EXCEPT !.state = s] ELSE capture
  /\ Enqueue(s)

Transition(s) ==
  IF capture.there
  THEN capture' = [capture EXCEPT !.state = s] /\ Enqueue(s)
  ELSE UNCHANGED <<capture, outbox>>

\* The capture is looked up by its meeting: nothing is recorded before it is bound.
TaskRead(t) ==
  /\ task[t].pc = "read"
  /\ task' = [task EXCEPT ![t] =
       IF task[t].path # <<>> /\ capture.there /\ capture.bound
       THEN [@ EXCEPT !.pc = "write", !.seen = Overlay] ELSE NoTask]
  /\ UNCHANGED <<row, capture, outbox, hub, drain, erase, crowded, faults>>

\* record_capture_status: only a step adjacent to the state that was read.
TaskWrite(t) ==
  /\ task[t].pc = "write"
  /\ LET step == Head(task[t].path)
         rest == Tail(task[t].path)
     IN  /\ IF step = task[t].seen \/ step \in Adjacency[task[t].seen]
            THEN Transition(step) ELSE UNCHANGED <<capture, outbox>>
         /\ task' = [task EXCEPT ![t] =
              IF rest = <<>> THEN NoTask ELSE [NoTask EXCEPT !.pc = "read", !.path = rest]]
  /\ UNCHANGED <<row, hub, drain, erase, crowded, faults>>

\* A failed transaction or a crash; the caller swallows it.
TaskFails(t) ==
  /\ task[t].pc # "idle" /\ Fault
  /\ task' = [task EXCEPT ![t] = NoTask]
  /\ UNCHANGED <<row, capture, outbox, hub, drain, erase, crowded>>

-----------------------------------------------------------------------------
(* The meeting row, and what sets a recording off.                           *)

PreActive == {"requested", "joining", "awaiting_admission"}

RowAt(status, lobby) == [status |-> status, lobby |-> lobby]

\* A run that ends clean without the bot having got in was stopped in the lobby;
\* after a restart a withdrawn one is taken for active (bot_status_from_persisted).
NextRow ==
  {RowAt(s, FALSE) : s \in Adjacency[row.status] \cap (Stages \cup Final)}
  \cup {RowAt("completed", l) : l \in IF row.status \in PreActive THEN {TRUE} ELSE {row.lobby, FALSE}}

\* _apply_lifecycle_event: the row is written, then record_lifecycle runs.
Advance(t) ==
  /\ task[t].pc = "idle"
  /\ row.status \notin Final \cup {"gone"} /\ row' \in NextRow
  /\ task' = [task EXCEPT ![t] = [NoTask EXCEPT !.pc = "read", !.path = <<HubStateFor(row')>>]]
  /\ UNCHANGED <<capture, outbox, hub, drain, erase, crowded, faults>>

\* stop_bot: the row of a live bot is written, nothing is recorded.
UserStop ==
  /\ row.status = "active"
  /\ row' = RowAt("stopping", FALSE)
  /\ UNCHANGED <<capture, outbox, hub, task, drain, erase, crowded, faults>>

\* stop_capture: the capture is read, withdrawn, and recorded as it was read.
StopRead(t) ==
  /\ task[t].pc = "idle" /\ capture.there /\ capture.bound /\ Overlay \notin Final
  /\ task' = [task EXCEPT ![t] = [pc |-> "withdraw", path |-> <<"stopping">>, seen |-> Overlay]]
  /\ UNCHANGED <<row, capture, outbox, hub, drain, erase, crowded, faults>>

Withdrawn == IF row.status \in Final \cup {"gone"} THEN row
             ELSE RowAt("stopping", row.lobby \/ row.status \in PreActive)

\* Nothing left to withdraw is CaptureDenied.
StopWithdraw(t) ==
  /\ task[t].pc = "withdraw"
  /\ row' = Withdrawn
  /\ task' = [task EXCEPT ![t] = IF row.status = "gone" THEN NoTask ELSE [@ EXCEPT !.pc = "write"]]
  /\ UNCHANGED <<capture, outbox, hub, drain, erase, crowded, faults>>

\* _complete_capture: bound once, to a bot that may already be running.  The row
\* it replays is read anew when a capture is recovered; after a spawn it is the one
\* the spawn wrote, which is still requested and has no steps.
Bind(t) ==
  /\ task[t].pc = "idle" /\ ~capture.bound /\ row.status # "gone"
  /\ capture' = [capture EXCEPT !.bound = TRUE, !.state = "requested"]
  /\ \/ task' = [task EXCEPT ![t] =
            [NoTask EXCEPT !.pc = "read", !.path = RecoverySteps[HubStateFor(row)]]]
     \/ UNCHANGED task
  /\ UNCHANGED <<row, outbox, hub, drain, erase, crowded, faults>>

\* reconcile_once: the meetings whose status is not the recorded one.
NeedsReconciliation ==
  /\ capture.there /\ capture.bound
  /\ row.status \notin {"gone", "requested", capture.state}

\* LIMIT 50, the longest unchanged first: fifty that are older come before.  Runs
\* stopped in the lobby stay in the list until they are erased.
Crowd ==
  /\ ~crowded /\ Fault
  /\ crowded' = TRUE
  /\ UNCHANGED <<row, capture, outbox, hub, task, drain, erase>>

Clear ==
  /\ crowded
  /\ crowded' = FALSE
  /\ UNCHANGED <<row, capture, outbox, hub, task, drain, erase, faults>>

\* Mutant of Reconcile: a terminal capture is not looked at again.
ReconcileTheLive(t) ==
  /\ task[t].pc = "idle" /\ NeedsReconciliation /\ ~crowded /\ row.status \notin Final
  /\ task' = [task EXCEPT ![t] = [NoTask EXCEPT !.pc = "read", !.path = RecoverySteps[HubStateFor(row)]]]
  /\ UNCHANGED <<row, capture, outbox, hub, drain, erase, crowded, faults>>

Reconcile(t) ==
  /\ task[t].pc = "idle" /\ NeedsReconciliation /\ ~crowded
  /\ task' = [task EXCEPT ![t] = [NoTask EXCEPT !.pc = "read", !.path = RecoverySteps[HubStateFor(row)]]]
  /\ UNCHANGED <<row, capture, outbox, hub, drain, erase, crowded, faults>>

-----------------------------------------------------------------------------
(* drain_once.  The Hub records an event it has not seen when its own state  *)
(* allows the step, acknowledges one it has, and refuses the rest with 409;  *)
(* usage settles once, whatever the state.  A subject that it no longer has  *)
(* (410) or a body that its schema rejects (422) it will never take: the     *)
(* model has it refuse the usage so, once per fault.                         *)

\* A pass of the loop takes the oldest events of all captures, the pass that an
\* erasure makes at its gate those of this one.
DrainRead(d) ==
  /\ drain[d].pc = "idle" /\ Pending # <<>>
  /\ ~crowded \/ erase.pc = "gate"
  /\ drain' = [drain EXCEPT ![d] = [pc |-> "post", batch |-> Pending, answer |-> "none"]]
  /\ UNCHANGED <<row, capture, outbox, hub, task, erase, crowded, faults>>

Takes(e) == e = Usage \/ e \in hub.took \/ e \in Adjacency[hub.state]

Answered(d, a) == drain' = [drain EXCEPT ![d].pc = "judge", ![d].answer = a]

HubTakes(e) ==
  hub' = [hub EXCEPT !.state = IF e \in hub.took \cup {Usage} THEN hub.state ELSE e,
                     !.took = @ \cup {e}]

DrainPost(d) ==
  /\ drain[d].pc = "post"
  /\ LET e == Head(drain[d].batch) IN
       \/ Takes(e) /\ HubTakes(e) /\ Answered(d, "ack") /\ UNCHANGED faults
       \/ ~Takes(e) /\ Answered(d, "409") /\ UNCHANGED <<hub, faults>>
       \* The answer is lost on the way back, or the post on the way there.
       \/ Takes(e) /\ HubTakes(e) /\ Answered(d, "lost") /\ Fault
       \/ Answered(d, "lost") /\ Fault /\ UNCHANGED hub
       \* A Hub that has another total for the sequence.
       \/ e = Usage /\ e \notin hub.took /\ Answered(d, "409") /\ Fault /\ UNCHANGED hub
       \/ /\ e = Usage /\ hub' = [hub EXCEPT !.refused = TRUE]
          /\ Answered(d, "refused") /\ Fault
  /\ UNCHANGED <<row, capture, outbox, task, erase, crowded>>

\* Mutants of Conflict409IsFinal: usage is not shielded; a terminal status is too.
Conflict409IsFinalForAll(e) == ~capture.there \/ Overlay \in Final
Conflict409SparesTerminals(e) ==
  e \notin Final \cup {Usage} /\ (~capture.there \/ Overlay \in Final)

\* _hub_409_is_final.
Conflict409IsFinal(e) == e # Usage /\ (~capture.there \/ Overlay \in Final)

\* Acknowledged, or dead-lettered (_PERMANENT_REFUSALS), which is marked the same;
\* otherwise every later event of the capture is barred from this pass.
DrainJudge(d) ==
  /\ drain[d].pc = "judge"
  /\ LET e == Head(drain[d].batch)
         rest == Tail(drain[d].batch)
         closed == \/ drain[d].answer \in {"ack", "refused"}
                   \/ drain[d].answer = "409" /\ Conflict409IsFinal(e)
     IN  /\ outbox' = IF closed /\ e \in ToSet(outbox.queue)
                      THEN [outbox EXCEPT !.done = @ \cup {e}] ELSE outbox
         /\ drain' = [drain EXCEPT ![d] =
              IF closed /\ rest # <<>> THEN [pc |-> "post", batch |-> rest, answer |-> "none"]
              ELSE NoDrain]
  /\ UNCHANGED <<row, capture, hub, task, erase, crowded, faults>>

\* The replica dies: what it sent and did not mark is sent again.
DrainDies(d) ==
  /\ drain[d].pc # "idle" /\ Fault
  /\ drain' = [drain EXCEPT ![d] = NoDrain]
  /\ UNCHANGED <<row, capture, outbox, hub, task, erase, crowded>>

-----------------------------------------------------------------------------
(* The erasure of the meeting: _erase_target, repeated by the Hub until it   *)
(* is answered with a receipt.                                               *)

EraseTo(pc) == erase' = [erase EXCEPT !.pc = pc]

EraseBegin ==
  /\ erase.pc \in {"idle", "retry"} /\ capture.there /\ capture.bound
  /\ EraseTo(IF erase.rawErased THEN "finalize"
             ELSE IF Overlay \in Final THEN "settle" ELSE "withdraw")
  /\ UNCHANGED <<row, capture, outbox, hub, task, drain, crowded, faults>>

EraseWithdraw ==
  /\ erase.pc = "withdraw"
  /\ row' = Withdrawn
  /\ EraseTo(IF row.status = "gone" THEN "retry" ELSE "settle")
  /\ UNCHANGED <<capture, outbox, hub, task, drain, crowded, faults>>

\* A terminal capture is asserted again, a live one walked to its end.
EraseSettle ==
  /\ erase.pc = "settle"
  /\ erase' = [erase EXCEPT !.pc = "emit",
       !.path = IF Overlay \in Final THEN <<Overlay>> ELSE WithdrawalWalk[Overlay]]
  /\ UNCHANGED <<row, capture, outbox, hub, task, drain, crowded, faults>>

EraseEmit ==
  /\ erase.pc = "emit"
  /\ Transition(Head(erase.path))
  /\ LET rest == Tail(erase.path) IN
       erase' = [erase EXCEPT !.path = rest, !.pc = IF rest = <<>> THEN "gate" ELSE "emit"]
  /\ UNCHANGED <<row, hub, task, drain, crowded, faults>>

TerminalEvents == ToSet(outbox.queue) \cap (Final \cup {Usage})

\* terminal_callbacks_delivered: there are some, and none is pending.
TerminalsDelivered == TerminalEvents # {} /\ TerminalEvents \subseteq outbox.done

\* drain_capture_terminal: a pass, one of Drains, and the verdict that lets the
\* deletion of the raw meeting begin.
EraseRaw ==
  /\ erase.pc = "gate"
  /\ IF TerminalsDelivered
     THEN row' = RowAt("gone", FALSE) /\ EraseTo("checkpoint")
     ELSE EraseTo("retry") /\ UNCHANGED row
  /\ UNCHANGED <<capture, outbox, hub, task, drain, crowded, faults>>

EraseCheckpoint ==
  /\ erase.pc = "checkpoint"
  /\ erase' = [erase EXCEPT !.pc = "finalize", !.rawErased = TRUE]
  /\ UNCHANGED <<row, capture, outbox, hub, task, drain, crowded, faults>>

\* finalize_erased_capture counts again, with the capture row locked.
EraseFinalize ==
  /\ erase.pc = "finalize"
  /\ IF TerminalsDelivered
     THEN /\ capture' = [capture EXCEPT !.there = FALSE]
          /\ outbox' = [queue |-> <<>>, done |-> {}]
          /\ EraseTo("done")
     ELSE EraseTo("retry") /\ UNCHANGED <<capture, outbox>>
  /\ UNCHANGED <<row, hub, task, drain, crowded, faults>>

EraseFails ==
  /\ erase.pc \notin {"idle", "retry", "done"} /\ Fault
  /\ erase' = [erase EXCEPT !.pc = "retry", !.path = <<>>]
  /\ UNCHANGED <<row, capture, outbox, hub, task, drain, crowded>>

-----------------------------------------------------------------------------
Next ==
  \/ UserStop \/ Crowd \/ Clear
  \/ \E t \in Tasks :
       \/ TaskRead(t) \/ TaskWrite(t) \/ TaskFails(t)
       \/ Advance(t) \/ StopRead(t) \/ StopWithdraw(t) \/ Bind(t) \/ Reconcile(t)
  \/ \E d \in Drains : DrainRead(d) \/ DrainPost(d) \/ DrainJudge(d) \/ DrainDies(d)
  \/ EraseBegin \/ EraseWithdraw \/ EraseSettle \/ EraseEmit
  \/ EraseRaw \/ EraseCheckpoint \/ EraseFinalize \/ EraseFails

\* The loop of __main__ reconciles and drains for ever, what was begun goes on, and a
\* meeting that is being stopped ends (MeetingLifecycle).  Only of batches that are
\* not crowded does it reach this capture: the properties say so.
Fairness ==
  /\ \A t \in Tasks : WF_vars(TaskRead(t) \/ TaskWrite(t) \/ StopWithdraw(t))
  /\ SF_vars(\E t \in Tasks : Reconcile(t))
  /\ SF_vars(\E t \in Tasks : Advance(t) /\ row.status = "stopping")
  /\ \A d \in Drains : WF_vars(DrainRead(d) \/ DrainPost(d) \/ DrainJudge(d))
  /\ WF_vars(EraseWithdraw \/ EraseSettle \/ EraseEmit
             \/ EraseRaw \/ EraseCheckpoint \/ EraseFinalize)

Spec == Init /\ [][Next]_vars /\ Fairness

\* The Hub asks for an erasure again until it has the receipt.
PersistentHub == Spec /\ WF_vars(EraseBegin /\ erase.pc = "retry")

-----------------------------------------------------------------------------
TaskRecord == [pc : {"idle", "read", "write", "withdraw"}, path : Seq(State), seen : State]
DrainRecord == [pc : {"idle", "post", "judge"}, batch : Seq(Event),
                answer : {"none", "ack", "409", "lost", "refused"}]
EraseRecord == [pc : {"idle", "retry", "withdraw", "settle", "emit", "gate", "checkpoint",
                      "finalize", "done"},
                path : Seq(State), rawErased : BOOLEAN]

\* The types; an event is queued once and only what is queued is done
\* (record_capture_transition's event ids).
TypeOK ==
  /\ row \in [status : State \cup {"gone"}, lobby : BOOLEAN]
  /\ capture \in [there : BOOLEAN, bound : BOOLEAN, state : State]
  /\ IsInjective(outbox.queue)
  /\ outbox.done \subseteq ToSet(outbox.queue) /\ ToSet(outbox.queue) \subseteq Event
  /\ hub.state \in State /\ hub.took \subseteq Event /\ hub.refused \in BOOLEAN
  /\ task \in [Tasks -> TaskRecord] /\ drain \in [Drains -> DrainRecord]
  /\ erase \in EraseRecord /\ crowded \in BOOLEAN /\ faults \in 0..MaxFaults

\* Erasure never deletes the only evidence of seconds the Hub has not settled,
\* whatever is lost, sent twice or refused as out of order, unless the Hub says
\* that it will never take them (_withdraw_for_erasure, _hub_409_is_final).
SettledBeforeErased == ~capture.there => Usage \in hub.took \/ hub.refused

\* _withdraw_for_erasure keeps the outbox "until Hub has acknowledged the terminal
\* status/usage pair".  A 410 or a 422 is no acknowledgement, and ends it as well.
AcknowledgedBeforeErased == ~capture.there => Usage \in hub.took

\* A recording that was under way while the capture was erased leaves no event
\* about the erased subject (record_capture_transition).
NothingAfterErasure == ~capture.there => outbox.queue = <<>>

\* Every bound capture whose meeting has ended is settled, or refused for good,
\* whatever recording failed or came late, if fifty others do not come before it
\* again and again: reconcile_once and drain_once.  Lobby stops are not (see
\* TheLobbySettlesToo).
Over == capture.bound /\ row.status \in Final /\ ~row.lobby
Closed == Usage \in hub.took \/ hub.refused

EverySettles == <>[]~crowded => (Over ~> Closed)

\* A stale recording put the capture back to a live state after the meeting was
\* deleted: each retry then tries to withdraw what is not there.
Stranded == row.status = "gone" /\ capture.state \notin Final

\* An erasure that is asked for again gets its receipt, if fifty others do not come
\* before it again and again, or is stranded, which the code does not mend, against
\* adapters.py 871 (see RetriesFinish): no event the Hub will never take keeps the
\* gate shut (_hub_409_is_final).
ErasureCompletes ==
  <>[]~crowded => ((erase.pc # "idle") ~> (erase.pc = "done" \/ Stranded))

\* hub_state_for: a run stopped in the lobby is told as failed and settled.
\* It is not: the overlay shows it completed, which nothing is adjacent to.
TheLobbySettlesToo ==
  <>[]~crowded => ((capture.bound /\ row.status \in Final) ~> Closed)

\* get_erasure_target keeps the mapping discoverable after the raw deletion "so
\* a retry can finish settlement cleanup"; a stranded one does not.
RetriesFinish == <>[]~crowded => ((erase.pc # "idle") ~> (erase.pc = "done"))
=============================================================================
