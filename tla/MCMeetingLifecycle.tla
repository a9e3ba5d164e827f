------------------------ MODULE MCMeetingLifecycle ------------------------
(***************************************************************************)
(* MeetingLifecycle for TLC: the assumptions that some of the runs make,   *)
(* and the mapping of a meeting to what MeetingPromise says of it.         *)
(***************************************************************************)
EXTENDS MeetingLifecycle

\* A bot takes longer to boot than request_bot takes to insert its session, so
\* its first report finds the session.
SlowBoot == \A s \in Sids : bot'[s].attempt > bot[s].attempt => Known(s)

\* A user's stop may fail; other failures do not meet it in one behaviour, since
\* what a stop then owes is less (README, "Known divergences").
StopOrFailure ==
  (\E d \in Stops : stops'[d].pc # "idle")
    => \A kind \in FaultKind \ {"db"} : faults'[kind] = 0

\* A write of the row that fails in a call or in a spawn is made good by nobody.
OnlyStopsFail == faults'.db > faults.db => stops' # stops

LiveSpec ==
  Init /\ [][Next /\ SlowBoot /\ StopOrFailure /\ OnlyStopsFail]_vars /\ Fairness

\* A user does not continue a meeting while another POST /bots is under way.
OneSpawnAtATime ==
  \A s \in Sids : spawn[s] = "idle" /\ spawn'[s] # "idle"
                    => \A t \in Sids : Settled(t)

SequentialSpec == Init /\ [][Next /\ OneSpawnAtATime]_vars

-----------------------------------------------------------------------------
(* The refinement, for a deployment of one replica. *)

VerdictOf(record) ==
  IF record.status = "failed" THEN "failed"
  ELSE IF record.status # "completed" THEN "none"
  ELSE IF record.stage = NoStage THEN "clean" ELSE "stopped"

Promise == INSTANCE MeetingPromise WITH
  Runs    <- Sids,
  seat    <- seated,
  asked   <- row.stop,
  verdict <- [s \in Sids |-> VerdictOf(rec[CHOOSE r \in Replicas : TRUE][s])],
  told    <- {s \in Sids : announced[s] > 0}

\* Every step of the meeting is a step of MeetingPromise or none at all: a run
\* is concluded once and for the right reason, whoever reports its end.
KeepsPromise == Promise!Spec
===========================================================================
