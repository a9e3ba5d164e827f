----------------------------- MODULE MeetingFSM -----------------------------
(***************************************************************************)
(* The meeting status machine of meeting-api, lifecycle/machine.py, as     *)
(* pure operators: which transitions are legal, how a persisted row status *)
(* seeds a record after a restart, and what apply_change does to a record. *)
(*                                                                         *)
(* A record here carries what later decisions read: the status, the user's *)
(* stop intent and the failure stage.  The free-text reason, exit code,    *)
(* error details, bot logs and the completion reason are payload that no   *)
(* transition depends on, and are left out.                                *)
(***************************************************************************)

NoStatus  == "none"
BotStatus == {"joining", "awaiting_admission", "needs_help", "active",
              "completed", "failed"}
Terminal  == {"completed", "failed"}
RowStatus == {"requested", "stopping"} \cup BotStatus

NoStage      == "none"
FailureStage == {"requested", "joining", "awaiting_admission", "active",
                 "runtime_spawn"}

\* One in-memory MeetingRecord (a record whose status is still None included).
Record == [status : {NoStatus} \cup BotStatus,
           stop   : BOOLEAN,
           stage  : {NoStage} \cup FailureStage]

NewRecord == [status |-> NoStatus, stop |-> FALSE, stage |-> NoStage]

LegalTransitions ==
  {<<NoStatus, "joining">>,
   <<"joining", "awaiting_admission">>, <<"joining", "active">>,
   <<"joining", "failed">>,
   <<"awaiting_admission", "active">>, <<"awaiting_admission", "needs_help">>,
   <<"awaiting_admission", "failed">>,
   <<"needs_help", "active">>, <<"needs_help", "failed">>,
   <<"active", "completed">>, <<"active", "failed">>}

\* Mutant of BotStatusFromPersisted: `requested` is taken for a bot status.
PersistedVerbatim(rowStatus) ==
  IF rowStatus = "stopping" THEN "active" ELSE rowStatus

\* bot_status_from_persisted: the record status a durable row status stands for.
BotStatusFromPersisted(rowStatus) ==
  IF rowStatus = "stopping" THEN "active"
  ELSE IF rowStatus \in BotStatus THEN rowStatus
  ELSE NoStatus

\* The stage recorded for a run that ends while in status s.
StageReached(s) ==
  IF s = NoStatus THEN "requested"
  ELSE IF s = "needs_help" THEN "awaiting_admission"
  ELSE IF s \in {"joining", "awaiting_admission"} THEN s
  ELSE "active"

\* MeetingStore.rehydrate: only a record without a status is seeded.
Rehydrate(rec, rowStatus) ==
  IF rec.status = NoStatus
  THEN [rec EXCEPT !.status = BotStatusFromPersisted(rowStatus)]
  ELSE rec

(***************************************************************************)
(* apply_change.  An event ev has a status and the stop intent its data    *)
(* may carry; force is force_terminal_on_destroy or                        *)
(* force_terminal_after_stop.                                              *)
(***************************************************************************)
NoteStop(rec, ev) == [rec EXCEPT !.stop = rec.stop \/ ev.stop]

\* Mutant of TargetStatus: the bot's word is taken for it.
TargetStatusReported(rec, ev) == ev.status

\* A stopped run that reports `failed` before `active` is classified completed.
TargetStatus(rec, ev) ==
  IF /\ ev.status = "failed"
     /\ rec.stop \/ ev.stop
     /\ rec.status \notin {"active", "failed"}
  THEN "completed"
  ELSE ev.status

\* Mutant of Outcome: the forced edge is taken before the terminal check.
OutcomeForcedFirst(rec, ev, force) ==
  LET to == TargetStatus(rec, ev) IN
  IF rec.status = to THEN "no_op"
  ELSE IF (force \/ rec.stop \/ ev.stop) /\ to \in Terminal THEN "advanced"
  ELSE IF <<rec.status, to>> \in LegalTransitions THEN "advanced"
  ELSE "illegal"

Outcome(rec, ev, force) ==
  LET to == TargetStatus(rec, ev) IN
  IF rec.status = to THEN "no_op"
  ELSE IF rec.status \in Terminal THEN "illegal"
  ELSE IF (force \/ rec.stop \/ ev.stop) /\ to \in Terminal THEN "advanced"
  ELSE IF <<rec.status, to>> \in LegalTransitions THEN "advanced"
  ELSE "illegal"

\* The record after the call: advanced, or left as it was but for the intent,
\* which is noted before any check.
ApplyChange(rec, ev, force) ==
  LET noted == NoteStop(rec, ev)
      to    == TargetStatus(rec, ev)
      ends  == \/ to = "failed"
               \/ to = "completed" /\ noted.stop /\ rec.status # "active"
  IN  IF Outcome(rec, ev, force) = "advanced"
      THEN [noted EXCEPT
              !.status = to,
              !.stage  = IF ends THEN StageReached(rec.status) ELSE rec.stage]
      ELSE noted
=============================================================================
