----------------------- MODULE MeetingLifecycleProofs -----------------------
(***************************************************************************)
(* Theorems about MeetingLifecycle, for every number of spawns, replicas,  *)
(* stop requests and lifecycle calls and every number of faults: types and *)
(* the sweep first; then how the runs of a meeting end, how their end is   *)
(* announced, and that one run's bot and evidence stay apart from those of *)
(* the run before; last, that a meeting keeps MeetingPromise.              *)
(***************************************************************************)
EXTENDS MCMeetingLifecycle, FiniteSetTheorems, TLAPS

-----------------------------------------------------------------------------
(* The inductive invariant behind the type invariant. *)

\* Nothing has been spawned as long as there is no row.
RowFirst ==
  row.status = "absent" => sessions = <<>> /\ \A s \in Sids : spawn[s] = "idle"

\* A sweep that has listed a row knows its session.
SweepHasSession ==
  sweep.pc \in {"probe", "teardown", "post"} => sweep.sid \in Sids

\* Only an advance is persisted, and an advanced record has a status.
AdvanceHasStatus ==
  \A c \in calls : c.pc = "persist" => c.new.status \in BotStatus

Shape == TypeOK /\ RowFirst /\ SweepHasSession /\ AdvanceHasStatus

-----------------------------------------------------------------------------
(* The status machine. *)

\* apply_change turns a record into a record; an advance leaves it in one of
\* the bot's statuses.
LEMMA ApplyChangeType ==
  ASSUME NEW old \in Record, NEW ev \in Event, NEW force \in BOOLEAN
  PROVE  /\ ApplyChange(old, ev, force) \in Record
         /\ Outcome(old, ev, force) = "advanced"
              => ApplyChange(old, ev, force).status \in BotStatus
<1> DEFINE to    == TargetStatus(old, ev)
           noted == NoteStop(old, ev)
           ends  == \/ to = "failed"
                    \/ to = "completed" /\ noted.stop /\ old.status # "active"
<1>1. to \in BotStatus
  BY DEF TargetStatus, Event, BotStatus
<1>2. noted \in Record
  BY DEF NoteStop, Record, Event
<1>3. StageReached(old.status) \in FailureStage
  BY DEF StageReached, FailureStage
<1>4. CASE Outcome(old, ev, force) = "advanced"
  <2>1. ApplyChange(old, ev, force)
          = [noted EXCEPT !.status = to,
                          !.stage = IF ends THEN StageReached(old.status)
                                            ELSE old.stage]
    BY <1>4 DEF ApplyChange
  <2> QED
    BY <1>1, <1>2, <1>3, <2>1 DEF Record
<1>5. CASE Outcome(old, ev, force) # "advanced"
  BY <1>2, <1>5 DEF ApplyChange
<1> QED
  BY <1>4, <1>5

\* No call of apply_change, forced or not, moves a record out of a terminal
\* status (machine.py, "terminal is terminal").
LEMMA TerminalStays ==
  ASSUME NEW old \in Record, NEW ev \in Event, NEW force \in BOOLEAN,
         old.status \in Terminal
  PROVE  /\ Outcome(old, ev, force) # "advanced"
         /\ ApplyChange(old, ev, force).status = old.status
<1>1. Outcome(old, ev, force) # "advanced"
  BY DEF Outcome
<1>2. NoteStop(old, ev).status = old.status
  BY DEF NoteStop, Record
<1> QED
  BY <1>1, <1>2 DEF ApplyChange

-----------------------------------------------------------------------------
(* Reads and writes of the durable state. *)

LEMMA SessionsAreSids ==
  ASSUME sessions \in Seq(Sids)
  PROVE  /\ sessions # <<>> => LastSession \in Sids
         /\ LastSession \in Sid0
  BY DEF LastSession, Sid0

\* What get_status_by_session returns is a row's status or nothing.
LEMMA StatusReadType ==
  ASSUME TypeOK, RowFirst, NEW s \in Sids
  PROVE  /\ StatusBySession(s) \in {NoStatus} \cup RowStatus
         /\ StopBySession(s) \in BOOLEAN
<1>1. Known(s) => row.status \in RowStatus
  <2>1. Known(s) => sessions # <<>>
    BY DEF Known, TypeOK
  <2> QED
    BY <2>1 DEF TypeOK, Row, RowFirst
<1> QED
  BY <1>1 DEF StatusBySession, StopBySession, TypeOK, Row

\* update_meeting_status leaves a row a row, and creates none.
LEMMA UpdateType ==
  ASSUME TypeOK, NEW s \in Sid0, NEW status \in RowStatus, NEW stop \in BOOLEAN,
         NEW stage \in {NoStage} \cup FailureStage,
         UpdateMeetingStatus(s, status, stop, stage)
  PROVE  /\ row' \in Row
         /\ row'.status = "absent" => row.status = "absent"
         /\ row'.container = row.container
<1>1. row \in Row
  BY DEF TypeOK
<1>2. CASE ~Known(s)
  BY <1>1, <1>2 DEF UpdateMeetingStatus
<1>3. CASE Known(s)
  <2>1. StatusKept(status) \in RowStatus
    BY DEF StatusKept, RowStatus, Terminal, BotStatus
  <2>2. "absent" \notin RowStatus
    BY DEF RowStatus, BotStatus
  <2> QED
    BY <1>1, <1>3, <2>1, <2>2 DEF UpdateMeetingStatus, Row
<1> QED
  BY <1>2, <1>3

LEMMA DestroyType ==
  ASSUME TypeOK, NEW s \in Sid0, Destroy(s)
  PROVE  /\ wl' \in [Sids -> Workload]
         /\ cb' \in [Sids -> BOOLEAN]
         /\ bot' \in [Sids -> Bot]
<1>1. wl' \in [Sids -> Workload]
  BY ZenonT(30) DEF TypeOK, Destroy, Workload
<1>2. cb' \in [Sids -> BOOLEAN]
  BY DEF TypeOK, Destroy
<1>3. bot' \in [Sids -> Bot]
  BY DEF TypeOK, Destroy, Kill, NoBot, Bot, NoStatus
<1> QED
  BY <1>1, <1>2, <1>3

LEMMA FailType ==
  ASSUME TypeOK, NEW kind \in FaultKind, Fail(kind)
  PROVE  faults' \in [FaultKind -> Nat]
  BY DEF TypeOK, Fail

\* A call comes in with nothing read yet.
LEMMA ReceivedType ==
  ASSUME TypeOK, RowFirst,
         NEW src \in {"bot", "runtime", "sweep", "presumed"}, NEW from \in Sid0,
         NEW attempt \in Nat, NEW s \in Sids, NEW ev \in Event,
         NEW r \in Replicas
  PROVE  /\ Received(src, from, attempt, s, ev, r) \in Call
         /\ Received(src, from, attempt, s, ev, r).pc # "persist"
<1>1. StopBySession(s) \in BOOLEAN
  BY StatusReadType
<1> QED
  BY <1>1 DEF Received, Call, CallPc, NewRecord, Record

-----------------------------------------------------------------------------
(* Every step preserves Shape. *)

\* A teardown that may fail touches the substrate and the fault counts only.
LEMMA BestEffortDeleteType ==
  ASSUME TypeOK, NEW s \in Sid0, BestEffortDelete(s)
  PROVE  /\ wl' \in [Sids -> Workload]
         /\ cb' \in [Sids -> BOOLEAN]
         /\ bot' \in [Sids -> Bot]
         /\ faults' \in [FaultKind -> Nat]
<1>1. CASE Destroy(s) /\ UNCHANGED faults
  BY <1>1, DestroyType DEF TypeOK
<1>2. CASE UNCHANGED <<substrate, faults>>
  BY <1>2 DEF TypeOK, substrate
<1>3. CASE Fail("runtime") /\ UNCHANGED substrate
  BY <1>3, FailType DEF TypeOK, substrate, FaultKind
<1> QED
  BY <1>1, <1>2, <1>3 DEF BestEffortDelete

LEMMA StartWorkloadType ==
  ASSUME TypeOK, NEW s \in Sids, StartWorkload(s)
  PROVE  wl' \in [Sids -> Workload] /\ bot' \in [Sids -> Bot]
  BY DEF TypeOK, StartWorkload, Workload, Bot, NoBot, BotStatus, NoStatus

LEMMA SpawnStepShape ==
  ASSUME Shape, NEW s \in Sids, SpawnStep(s)
  PROVE  Shape'
<1> DEFINE Disturbed == /\ row \in Row
                        /\ sessions \in Seq(Sids)
                        /\ wl \in [Sids -> Workload]
                        /\ cb \in [Sids -> BOOLEAN]
                        /\ bot \in [Sids -> Bot]
                        /\ spawn \in [Sids -> SpawnPc]
                        /\ faults \in [FaultKind -> Nat]
                        /\ RowFirst
<1>1. TypeOK /\ RowFirst /\ Disturbed
  BY DEF Shape, TypeOK
<1> SUFFICES Disturbed'
  BY <1>1 DEF SpawnStep, memory, reconcile, history, Shape, TypeOK,
     SweepHasSession, AdvanceHasStatus
<1>2. {"requested", "failed"} \subseteq RowStatus /\ NoStage # "runtime_spawn"
  BY DEF RowStatus, BotStatus, NoStage
<1>3. CASE SpawnInsert(s)
  BY <1>1, <1>2, <1>3 DEF SpawnInsert, substrate, Row, SpawnPc, RowFirst
<1>4. CASE SpawnContinue(s)
  BY <1>1, <1>4
  DEF SpawnContinue, durable, substrate, SpawnPc, RowFirst, Terminal
<1>5. CASE SpawnReopen(s)
  BY <1>1, <1>2, <1>5
  DEF SpawnReopen, substrate, Row, Sid0, SpawnPc, RowFirst
<1>6. CASE SpawnCreate(s)
  BY <1>1, <1>6, StartWorkloadType
  DEF SpawnCreate, durable, SpawnPc, RowFirst
<1>7. CASE SpawnRefused(s)
  BY <1>1, <1>7, FailType
  DEF SpawnRefused, durable, substrate, SpawnPc, RowFirst, FaultKind
<1>8. CASE SpawnReject(s)
  BY <1>1, <1>2, <1>8
  DEF SpawnReject, substrate, Row, FailureStage, SpawnPc, RowFirst
<1>9. CASE SpawnTransportError(s)
  BY <1>1, <1>9, StartWorkloadType, FailType
  DEF SpawnTransportError, durable, SpawnPc, RowFirst, FaultKind
<1>10. CASE SpawnCreateSession(s)
  BY <1>1, <1>10 DEF SpawnCreateSession, substrate, SpawnPc, RowFirst
<1>11. CASE SpawnSetContainer(s)
  BY <1>1, <1>11 DEF SpawnSetContainer, substrate, Row, Sid0, SpawnPc, RowFirst
<1>12. CASE SpawnDbFault(s)
  BY <1>1, <1>12, FailType
  DEF SpawnDbFault, durable, substrate, SpawnPc, RowFirst, FaultKind
<1>13. CASE SpawnTeardown(s)
  BY <1>1, <1>13, BestEffortDeleteType
  DEF SpawnTeardown, durable, Sid0, SpawnPc, RowFirst
<1>14. CASE SpawnRaceCheck(s)
  BY <1>1, <1>14 DEF SpawnRaceCheck, durable, substrate, SpawnPc, RowFirst
<1> QED
  BY <1>3, <1>4, <1>5, <1>6, <1>7, <1>8, <1>9, <1>10, <1>11, <1>12, <1>13,
     <1>14 DEF SpawnStep

LEMMA StopStepShape ==
  ASSUME Shape, NEW d \in Stops, StopStep(d)
  PROVE  Shape'
<1> DEFINE Disturbed == /\ row \in Row
                        /\ wl \in [Sids -> Workload]
                        /\ cb \in [Sids -> BOOLEAN]
                        /\ bot \in [Sids -> Bot]
                        /\ stops \in [Stops -> Stop]
                        /\ faults \in [FaultKind -> Nat]
                        /\ row.status = "absent" =>
                             /\ sessions = <<>>
                             /\ \A s \in Sids : spawn[s] = "idle"
<1>1. TypeOK /\ RowFirst /\ Disturbed
  BY DEF Shape, TypeOK, RowFirst
<1>2. UNCHANGED <<sessions, rec, calls, spawn, sweep, zombie, announced,
                  seated>>
  BY DEF StopStep, memory, reconcile, history
<1> SUFFICES Disturbed'
  BY <1>1, <1>2 DEF Shape, TypeOK, RowFirst, SweepHasSession, AdvanceHasStatus
<1>3. StopDone \in Stop
  BY DEF StopDone, IdleStop, Stop, Sid0
<1>4. CASE StopFind(d)
  <2>1. row.status \in RowStatus /\ row.container \in Sid0
    BY <1>1, <1>4
    DEF StopFind, Row, FindActive, Booting, RowStatus, BotStatus
  <2>2. stops' \in [Stops -> Stop]
    BY <1>1, <1>4, <2>1 DEF StopFind, Stop, Sid0
  <2> QED
    BY <1>1, <1>2, <1>4, <2>2 DEF StopFind, substrate
<1>5. CASE StopListSessions(d)
  BY <1>1, <1>2, <1>5, SessionsAreSids
  DEF StopListSessions, substrate, Stop, TypeOK
<1>6. CASE StopUpdate(d)
  <2>1. stops[d].last \in Sid0
    BY <1>1 DEF Stop
  <2>2. (IF stops[d].status \in Booting THEN stops[d].status ELSE "stopping")
          \in RowStatus
    BY DEF Booting, RowStatus, BotStatus
  <2>3. row' \in Row /\ (row'.status = "absent" => row.status = "absent")
    BY <1>1, <1>6, <2>1, <2>2, UpdateType DEF StopUpdate
  <2> QED
    BY <1>1, <1>2, <1>6, <2>3
    DEF StopUpdate, StopStep, substrate, requests, Stop
<1>7. CASE StopFault(d)
  BY <1>1, <1>2, <1>3, <1>7, FailType DEF StopFault, substrate, FaultKind
<1>8. CASE StopPublish(d)
  <2>1. bot' \in [Sids -> Bot]
    <3>1. PICK heard \in SUBSET Sids :
            bot' = [s \in Sids |-> [bot[s] EXCEPT !.leave = @ \/ s \in heard]]
      BY <1>8 DEF StopPublish
    <3>2. ASSUME NEW s \in Sids
          PROVE  [bot[s] EXCEPT !.leave = @ \/ s \in heard] \in Bot
      BY ZenonT(30), <1>1 DEF Bot
    <3> QED
      BY <3>1, <3>2
  <2>2. stops' \in [Stops -> Stop]
    BY SMTT(30), <1>1, <1>3, <1>8 DEF StopPublish, Stop
  <2> QED
    BY <1>1, <1>2, <1>8, <2>1, <2>2 DEF StopPublish
<1>9. CASE StopKill(d)
  <2>1. stops[d].container \in Sid0
    BY <1>1 DEF Stop
  <2> QED
    BY <1>1, <1>2, <1>3, <1>9, <2>1, BestEffortDeleteType DEF StopKill
<1>10. CASE Withdraw(d)
  <2>1. row' \in Row /\ row'.status # "absent"
    BY <1>1, <1>10 DEF Withdraw, Row, RowStatus, BotStatus
  <2>2. stops' \in [Stops -> Stop]
    BY <1>1, <1>3, <1>10 DEF Withdraw, Row, Stop, Sid0
  <2>3. faults' \in [FaultKind -> Nat]
    BY <1>1, <1>10, FailType DEF Withdraw, FaultKind
  <2> QED
    BY <1>1, <1>2, <1>10, <2>1, <2>2, <2>3 DEF Withdraw, substrate
<1> QED
  BY <1>4, <1>5, <1>6, <1>7, <1>8, <1>9, <1>10 DEF StopStep
-----------------------------------------------------------------------------
LEMMA UntrackedShape ==
  ASSUME Shape, sweep.pc \in {"probe", "teardown"}, Untracked
  PROVE  sweep' \in Sweep /\ zombie' \in BOOLEAN /\ SweepHasSession'
<1>1. sweep \in Sweep /\ zombie \in BOOLEAN /\ sweep.sid \in Sids
  BY DEF Shape, TypeOK, SweepHasSession
<1>2. CASE sweep' = [sweep EXCEPT !.pc = "post", !.presumed = TRUE]
  <2>1. [sweep EXCEPT !.pc = "post"] \in Sweep
    BY <1>1 DEF Sweep
  <2>2. sweep' \in Sweep /\ sweep'.sid = sweep.sid
    BY <1>1, <1>2, <2>1 DEF Sweep
  <2> QED
    BY <1>1, <1>2, <2>2 DEF Untracked, SweepHasSession
<1>3. CASE sweep' = IdleSweep
  BY <1>1, <1>3 DEF Untracked, IdleSweep, Sweep, SweepHasSession, Sid0, NoStatus
<1> QED
  BY <1>2, <1>3 DEF Untracked

LEMMA ObserveExitType ==
  ASSUME TypeOK, NEW s \in Sid0, ObserveExit(s)
  PROVE  wl' \in [Sids -> Workload] /\ cb' \in [Sids -> BOOLEAN]
<1>1. wl' \in [Sids -> Workload]
  BY DEF TypeOK, ObserveExit, Workload
<1>2. cb' \in [Sids -> BOOLEAN]
  BY DEF TypeOK, ObserveExit
<1> QED
  BY <1>1, <1>2

LEMMA BotStepShape ==
  ASSUME Shape, NEW s \in Sids, BotStep(s)
  PROVE  Shape'
<1> DEFINE Disturbed == /\ calls \subseteq Call
                        /\ wl \in [Sids -> Workload]
                        /\ bot \in [Sids -> Bot]
                        /\ seated \subseteq Sids
                        /\ AdvanceHasStatus
<1>1. TypeOK /\ RowFirst /\ Disturbed
  BY DEF Shape, TypeOK
<1> SUFFICES Disturbed'
  BY <1>1 DEF BotStep, durable, requests, reconcile, Shape, TypeOK,
     RowFirst, SweepHasSession
<1>2. ASSUME NEW to \in BotStatus, BotReport(s, to)
      PROVE  Disturbed'
  BY ZenonT(30), <1>1, <1>2 DEF BotReport, Bot, AdvanceHasStatus
<1>3. ASSUME NEW r \in Replicas, BotPost(s, r)
      PROVE  Disturbed'
  <2> DEFINE c == Received("bot", s, bot[s].attempt + 1, s,
                           [status |-> bot[s].out, stop |-> FALSE], r)
  <2>1. [status |-> bot[s].out, stop |-> FALSE] \in Event
    BY <1>1, <1>3 DEF BotPost, Bot, Event
  <2>2. bot[s].attempt + 1 \in Nat
    BY <1>1 DEF Bot
  <2>3. c \in Call /\ c.pc # "persist"
    BY <1>1, <2>1, <2>2, ReceivedType DEF Sid0
  <2>4. bot' \in [Sids -> Bot]
    BY <1>1, <1>3, <2>2 DEF BotPost, Bot
  <2> QED
    BY <1>1, <1>3, <2>3, <2>4 DEF BotPost, AdvanceHasStatus
<1>4. CASE BotPostLost(s)
  BY <1>1, <1>4 DEF BotPostLost, Bot, AdvanceHasStatus
<1>5. CASE BotGiveUp(s)
  BY <1>1, <1>5 DEF BotGiveUp, Bot, AdvanceHasStatus
<1>6. CASE BotExit(s)
  BY <1>1, <1>6
  DEF BotExit, Kill, NoBot, Bot, NoStatus, Workload, AdvanceHasStatus
<1> QED
  BY <1>2, <1>3, <1>4, <1>5, <1>6 DEF BotStep

LEMMA KernelStepShape ==
  ASSUME Shape, KernelStep
  PROVE  Shape'
<1> DEFINE Disturbed == /\ calls \subseteq Call
                        /\ wl \in [Sids -> Workload]
                        /\ cb \in [Sids -> BOOLEAN]
                        /\ faults \in [FaultKind -> Nat]
                        /\ AdvanceHasStatus
<1>1. TypeOK /\ RowFirst /\ Disturbed
  BY DEF Shape, TypeOK
<1> SUFFICES Disturbed'
  BY <1>1 DEF KernelStep, durable, requests, reconcile, history, Shape, TypeOK,
     RowFirst, SweepHasSession
<1>2. ASSUME NEW s \in Sids, KernelReap(s)
      PROVE  Disturbed'
  BY <1>1, <1>2, ObserveExitType DEF KernelReap, Sid0, AdvanceHasStatus
<1>3. ASSUME NEW s \in Sids, RuntimeCallbackLost(s)
      PROVE  Disturbed'
  BY <1>1, <1>3, FailType DEF RuntimeCallbackLost, FaultKind, AdvanceHasStatus
<1>4. ASSUME NEW s \in Sids, NEW r \in Replicas, RuntimeCallback(s, r)
      PROVE  Disturbed'
  <2>1. CASE calls' = calls
    BY <1>1, <1>4, <2>1 DEF RuntimeCallback, AdvanceHasStatus
  <2>2. CASE calls' # calls
    <3> DEFINE c == Received("runtime", s, 0, LastSession, RuntimeEvent, r)
    <3>1. sessions # <<>> /\ calls' = calls \cup {c}
      BY <1>4, <2>2 DEF RuntimeCallback
    <3>2. RuntimeEvent \in Event
      <4>1. CASE row.status \in Booting
        <5>1. row.stop \in BOOLEAN
          BY <1>1 DEF TypeOK, Row
        <5>2. RuntimeEvent = [status |-> "failed", stop |-> row.stop]
          BY <4>1 DEF RuntimeEvent
        <5> QED
          BY <5>1, <5>2 DEF Event, BotStatus
      <4>2. CASE row.status \notin Booting
        <5> DEFINE stopped == row.status = "stopping"
        <5>1. stopped \in BOOLEAN
          OBVIOUS
        <5>2. RuntimeEvent = [status |-> "completed", stop |-> stopped]
          BY <4>2 DEF RuntimeEvent
        <5> HIDE DEF stopped
        <5> QED
          BY <5>1, <5>2 DEF Event, BotStatus
      <4> QED
        BY <4>1, <4>2
    <3>3. LastSession \in Sids
      BY <1>1, <3>1, SessionsAreSids DEF TypeOK
    <3>4. c \in Call /\ c.pc # "persist"
      BY <1>1, <3>2, <3>3, ReceivedType DEF Sid0
    <3> QED
      BY <1>1, <1>4, <3>1, <3>4 DEF RuntimeCallback, AdvanceHasStatus
  <2> QED
    BY <2>1, <2>2
<1>5. CASE KernelRestart
  <2>1. wl' \in [Sids -> Workload]
    <3>1. PICK adopted \in SUBSET Sids :
            wl' = [s \in Sids |->
                     [wl[s] EXCEPT !.known = IF s \in adopted THEN "adopted"
                                             ELSE IF @ = "none" THEN @
                                             ELSE "forgotten",
                                   !.over  = s \in adopted /\ ~wl[s].alive]]
      BY <1>5 DEF KernelRestart
    <3>2. ASSUME NEW s \in Sids
          PROVE  wl'[s] \in Workload
      <4> DEFINE k == IF s \in adopted THEN "adopted"
                      ELSE IF wl[s].known = "none" THEN "none"
                      ELSE "forgotten"
                 over == s \in adopted /\ ~wl[s].alive
      <4>1. wl'[s] = [wl[s] EXCEPT !.known = k, !.over = over]
        BY <1>1, <3>1 DEF Workload
      <4>2. k \in {"none", "tracked", "adopted", "forgotten"}
        OBVIOUS
      <4>3. over \in BOOLEAN
        OBVIOUS
      <4> HIDE DEF k, over
      <4> QED
        BY <1>1, <4>1, <4>2, <4>3 DEF Workload
    <3> QED
      BY <3>1, <3>2
  <2>2. faults' \in [FaultKind -> Nat]
    BY <1>1, <1>5, FailType DEF KernelRestart, FaultKind
  <2> QED
    BY <1>1, <1>5, <2>1, <2>2 DEF KernelRestart, AdvanceHasStatus
<1> QED
  BY <1>2, <1>3, <1>4, <1>5 DEF KernelStep
\* The four kinds of call leave with an answer, which a bot or a sweep hears.
LEMMA AnswerType ==
  ASSUME Shape, NEW c \in Call, NEW ok \in BOOLEAN, Answer(c, ok)
  PROVE  /\ bot' \in [Sids -> Bot]
         /\ sweep' \in Sweep
         /\ zombie' \in BOOLEAN
         /\ SweepHasSession'
<1>1. bot \in [Sids -> Bot] /\ sweep \in Sweep /\ zombie \in BOOLEAN
  BY DEF Shape, TypeOK
<1>2. bot' \in [Sids -> Bot]
  BY ZenonT(30), <1>1 DEF Answer, Bot
<1>3. CASE sweep' = IdleSweep /\ zombie' = (zombie /\ sweep.kind = "stopping")
  BY <1>1, <1>2, <1>3 DEF IdleSweep, Sweep, SweepHasSession, Sid0, NoStatus
<1>4. CASE UNCHANGED reconcile
  BY <1>1, <1>2, <1>4 DEF reconcile, Shape, SweepHasSession
<1> QED
  BY <1>3, <1>4 DEF Answer

\* The event meets a record: the store keeps its type, and only an advance goes
\* on to be persisted.
LEMMA ApplyShape ==
  ASSUME Shape, NEW c \in calls, NEW before \in Record, Apply(c, before)
  PROVE  /\ rec' \in [Replicas -> [Sids -> Record]]
         /\ calls' \subseteq Call /\ AdvanceHasStatus'
         /\ bot' \in [Sids -> Bot]
         /\ sweep' \in Sweep /\ zombie' \in BOOLEAN /\ SweepHasSession'
<1> DEFINE force == c.src # "bot" \/ before.stop \/ c.persisted = "stopping"
           after == ApplyChange(before, c.ev, force)
           kept  == IF after.status \in Terminal THEN NewRecord ELSE before
           moved == [c EXCEPT !.pc = "persist", !.persisted = NoStatus,
                              !.intent = FALSE, !.new = after, !.old = kept]
<1>1. /\ TypeOK /\ AdvanceHasStatus /\ c \in Call /\ c.ev \in Event
      /\ c.on \in Replicas /\ c.sid \in Sids
  BY DEF Shape, TypeOK, Call
<1>2. force \in BOOLEAN
  OBVIOUS
<1> HIDE DEF force
<1>3. /\ after \in Record
      /\ Outcome(before, c.ev, force) = "advanced" => after.status \in BotStatus
  BY <1>1, <1>2, ApplyChangeType
<1>4. kept \in Record
  BY DEF NewRecord, Record
<1>5. rec' = [rec EXCEPT ![c.on][c.sid] = after]
  BY DEF Apply, force
<1> HIDE DEF after, kept
<1>6. rec' \in [Replicas -> [Sids -> Record]]
  BY <1>1, <1>3, <1>5 DEF TypeOK
<1>7. CASE Outcome(before, c.ev, force) = "advanced"
  <2>1. /\ calls' = (calls \ {c}) \cup {moved}
        /\ UNCHANGED <<bot, reconcile>>
    BY <1>7 DEF Apply, Move, force, after, kept
  <2>2. moved \in Call /\ moved.new = after
    BY <1>1, <1>3, <1>4 DEF Call, CallPc, NoStatus
  <2> QED
    BY <1>1, <1>3, <1>6, <1>7, <2>1, <2>2
    DEF Shape, TypeOK, AdvanceHasStatus, reconcile, SweepHasSession
<1>8. CASE Outcome(before, c.ev, force) # "advanced"
  <2> DEFINE ok == Outcome(before, c.ev, force) = "no_op"
  <2>1. calls' = calls \ {c} /\ Answer(c, ok)
    BY <1>8 DEF Apply, Finish, force
  <2>2. ok \in BOOLEAN
    OBVIOUS
  <2> HIDE DEF ok
  <2> QED
    BY <1>1, <1>6, <2>1, <2>2, AnswerType DEF TypeOK, AdvanceHasStatus
<1> QED
  BY <1>7, <1>8
\* rehydrate seeds a record and nothing else.
LEMMA RehydrateType ==
  ASSUME NEW old \in Record, NEW status
  PROVE  Rehydrate(old, status) \in Record
<1>1. BotStatusFromPersisted(status) \in {NoStatus} \cup BotStatus
  BY DEF BotStatusFromPersisted, BotStatus
<1> QED
  BY <1>1 DEF Rehydrate, Record

\* A call that moves on without being persisted stays a call.
LEMMA MoveShape ==
  ASSUME Shape, NEW c \in calls, NEW d \in Call, Move(c, d),
         d.pc # "persist"
  PROVE  calls' \subseteq Call /\ AdvanceHasStatus'
  BY DEF Shape, TypeOK, Move, AdvanceHasStatus

LEMMA CallStepShape ==
  ASSUME Shape, NEW c \in calls, CallStep(c)
  PROVE  Shape'
<1> DEFINE Disturbed == /\ row \in Row
                        /\ row.status = "absent" =>
                             /\ sessions = <<>>
                             /\ \A s \in Sids : spawn[s] = "idle"
                        /\ rec \in [Replicas -> [Sids -> Record]]
                        /\ calls \subseteq Call
                        /\ bot \in [Sids -> Bot]
                        /\ sweep \in Sweep
                        /\ zombie \in BOOLEAN
                        /\ faults \in [FaultKind -> Nat]
                        /\ announced \in [Sids -> 0..2]
                        /\ SweepHasSession
                        /\ AdvanceHasStatus
<1>1. /\ TypeOK /\ RowFirst /\ Disturbed /\ c \in Call /\ c.ev \in Event
      /\ c.on \in Replicas /\ c.sid \in Sids /\ rec[c.on][c.sid] \in Record
  BY DEF Shape, TypeOK, Call, RowFirst
<1>2. UNCHANGED <<sessions, wl, cb, spawn, stops, seated>>
  BY DEF CallStep, requests
<1> SUFFICES Disturbed'
  BY <1>1, <1>2 DEF Shape, TypeOK, RowFirst
<1>3. CASE CallReadStatus(c)
  <2>1. PICK seen \in {StatusBySession(c.sid), NoStatus} :
          /\ UNCHANGED faults \/ Fail("db")
          /\ Move(c, [c EXCEPT !.persisted = seen,
                        !.pc = IF rec[c.on][c.sid].status = NoStatus
                               THEN "rehydrate" ELSE "read_stop"])
    BY <1>3 DEF CallReadStatus
  <2> DEFINE d == [c EXCEPT !.persisted = seen,
                     !.pc = IF rec[c.on][c.sid].status = NoStatus
                            THEN "rehydrate" ELSE "read_stop"]
  <2>2. d \in Call /\ d.pc # "persist"
    BY ZenonT(30), <1>1, StatusReadType DEF Call, CallPc
  <2>3. calls' \subseteq Call /\ AdvanceHasStatus'
    BY <2>1, <2>2, MoveShape
  <2>4. faults' \in [FaultKind -> Nat]
    BY <1>1, <2>1, FailType DEF FaultKind
  <2> QED
    BY <1>1, <1>2, <1>3, <2>3, <2>4
    DEF CallReadStatus, reconcile, SweepHasSession
<1>4. CASE CallRehydrate(c)
  <2> DEFINE seeded == Rehydrate(rec[c.on][c.sid], c.persisted)
  <2>1. seeded \in Record
    BY <1>1, RehydrateType
  <2>2. CASE c.ev.status \in Terminal
    <3>1. [c EXCEPT !.pc = "read_stop"] \in Call
      BY <1>1 DEF Call, CallPc
    <3>2. Move(c, [c EXCEPT !.pc = "read_stop"])
      BY <1>4, <2>2 DEF CallRehydrate
    <3>3. calls' \subseteq Call /\ AdvanceHasStatus'
      BY <1>1, <3>1, <3>2, MoveShape DEF Call
    <3>4. rec' \in [Replicas -> [Sids -> Record]]
      BY <1>1, <1>4, <2>1, <2>2 DEF CallRehydrate
    <3> QED
      BY <1>1, <1>2, <1>4, <2>2, <3>3, <3>4
      DEF CallRehydrate, reconcile, SweepHasSession
  <2>3. CASE c.ev.status \notin Terminal
    <3>1. Apply(c, seeded)
      BY <1>4, <2>3 DEF CallRehydrate
    <3> HIDE DEF seeded
    <3> QED
      BY <1>1, <1>2, <1>4, <2>1, <3>1, ApplyShape DEF CallRehydrate
  <2> QED
    BY <2>2, <2>3
<1>5. CASE CallReadStop(c)
  <2>1. PICK intent \in {StopBySession(c.sid), FALSE} :
          /\ UNCHANGED faults \/ Fail("db")
          /\ Move(c, [c EXCEPT !.intent = intent, !.pc = "apply"])
    BY <1>5 DEF CallReadStop
  <2>2. intent \in BOOLEAN
    BY <1>1, StatusReadType
  <2>3. /\ [c EXCEPT !.intent = intent, !.pc = "apply"] \in Call
        /\ [c EXCEPT !.intent = intent, !.pc = "apply"].pc # "persist"
    BY <1>1, <2>2 DEF Call, CallPc
  <2>4. calls' \subseteq Call /\ AdvanceHasStatus'
    BY <2>1, <2>3, MoveShape
  <2>5. faults' \in [FaultKind -> Nat]
    BY <1>1, <2>1, FailType DEF FaultKind
  <2> QED
    BY <1>1, <1>2, <1>5, <2>4, <2>5
    DEF CallReadStop, reconcile, SweepHasSession
<1>6. CASE CallApply(c)
  <2> DEFINE live   == rec[c.on][c.sid]
             before == [live EXCEPT !.stop = @ \/ c.intent]
  <2>1. before \in Record
    <3>1. (live.stop \/ c.intent) \in BOOLEAN
      OBVIOUS
    <3> QED
      BY <1>1, <3>1 DEF Record
  <2>2. Apply(c, before)
    BY <1>6 DEF CallApply
  <2> HIDE DEF before
  <2> QED
    BY <1>1, <1>2, <1>6, <2>1, <2>2, ApplyShape DEF CallApply
<1>7. CASE CallPersist(c)
  <2> DEFINE seen == IF ~Known(c.sid) THEN "nothing"
                     ELSE IF row.withdrawn THEN "withdrawn" ELSE "row"
             d    == [c EXCEPT !.pc = "settle", !.shown = seen]
  <2>1. d \in Call /\ d.pc # "persist"
    BY ZenonT(30), <1>1 DEF Call, CallPc
  <2>2. calls' \subseteq Call /\ AdvanceHasStatus'
    BY <1>7, <2>1, MoveShape DEF CallPersist
  <2>3. /\ c.new.status \in RowStatus /\ c.new.stop \in BOOLEAN
        /\ c.new.stage \in {NoStage} \cup FailureStage /\ c.sid \in Sid0
    BY <1>1, <1>7
    DEF CallPersist, AdvanceHasStatus, Call, Record, RowStatus, Sid0
  <2>4. row' \in Row /\ (row'.status = "absent" => row.status = "absent")
    BY <1>1, <1>7, <2>3, UpdateType DEF CallPersist
  <2> QED
    BY <1>1, <1>2, <1>7, <2>2, <2>4 DEF CallPersist, reconcile, SweepHasSession
<1>8. CASE CallPersistFails(c)
  <2>1. [c EXCEPT !.pc = "settle"] \in Call
    BY <1>1 DEF Call, CallPc
  <2>2. calls' \subseteq Call /\ AdvanceHasStatus'
    BY <1>1, <1>8, <2>1, MoveShape DEF CallPersistFails, Call
  <2>3. faults' \in [FaultKind -> Nat]
    BY <1>1, <1>8, FailType DEF CallPersistFails, FaultKind
  <2> QED
    BY <1>1, <1>2, <1>8, <2>2, <2>3
    DEF CallPersistFails, reconcile, SweepHasSession
<1>9. CASE CallSettle(c)
  <2>1. /\ bot' \in [Sids -> Bot] /\ sweep' \in Sweep /\ zombie' \in BOOLEAN
        /\ SweepHasSession'
    BY <1>1, <1>9, AnswerType DEF CallSettle
  <2>2. CASE Suppresses(c)
    <3> DEFINE accepted == [c.old EXCEPT !.stop = TRUE]
    <3>1. accepted \in Record
      BY <1>1 DEF Call, Record
    <3>2. rec' \in [Replicas -> [Sids -> Record]]
      <4>1. rec' = [rec EXCEPT ![c.on][c.sid] = accepted]
        BY <1>9, <2>2 DEF CallSettle
      <4> HIDE DEF accepted
      <4> QED
        BY <1>1, <3>1, <4>1
    <3> HIDE DEF accepted
    <3>3. ASSUME NEW d \in calls
          PROVE  /\ [d EXCEPT !.held = rec[c.on][c.sid].status] \in Call
                 /\ [d EXCEPT !.held = rec[c.on][c.sid].status].pc = d.pc
                 /\ [d EXCEPT !.held = rec[c.on][c.sid].status].new = d.new
      BY ZenonT(30), <1>1 DEF Call, Record
    <3>4. Detach(c) \subseteq Call
      BY <1>1, <3>3 DEF Detach
    <3>5. ASSUME NEW d \in Detach(c)
          PROVE  d.pc = "persist" => d.new.status \in BotStatus
      <4>1. PICK e \in calls :
              d = e \/ d = [e EXCEPT !.held = rec[c.on][c.sid].status]
        BY DEF Detach
      <4>2. d.pc = e.pc /\ d.new = e.new
        BY <3>3, <4>1
      <4> QED
        BY <1>1, <4>2 DEF AdvanceHasStatus
    <3> QED
      BY <1>1, <1>2, <1>9, <2>1, <2>2, <3>2, <3>4, <3>5
      DEF CallSettle, AdvanceHasStatus
  <2>3. CASE ~Suppresses(c)
    <3>1. announced' \in [Sids -> 0..2]
      BY <1>1, <1>9, <2>3 DEF CallSettle
    <3>2. calls' \subseteq calls
      BY <1>9, <2>3 DEF CallSettle
    <3> QED
      BY <1>1, <1>2, <1>9, <2>1, <2>3, <3>1, <3>2
      DEF CallSettle, AdvanceHasStatus
  <2> QED
    BY <2>2, <2>3
<1> QED
  BY <1>3, <1>4, <1>5, <1>6, <1>7, <1>8, <1>9 DEF CallStep

\* A sweep's verdict is an event; it is posted as a call.
LEMMA SweepPostShape ==
  ASSUME Shape, NEW r \in Replicas, SweepPost(r)
  PROVE  /\ calls' \subseteq Call /\ AdvanceHasStatus'
         /\ sweep' \in Sweep /\ SweepHasSession'
<1> DEFINE src == IF sweep.presumed THEN "presumed" ELSE "sweep"
           c   == Received(src, sweep.container, 0, sweep.sid, SweepEvent, r)
<1>1. /\ TypeOK /\ RowFirst /\ AdvanceHasStatus /\ sweep \in Sweep
      /\ sweep.sid \in Sids
  BY DEF Shape, TypeOK, SweepPost, SweepHasSession
<1>2. SweepEvent \in Event
  <2>1. sweep.stop \in BOOLEAN
    BY <1>1 DEF Sweep
  <2> QED
    BY <2>1 DEF SweepEvent, Event, BotStatus
<1>3. sweep.container \in Sid0
  BY <1>1 DEF Sweep
<1>4. c \in Call /\ c.pc # "persist"
  BY <1>1, <1>2, <1>3, ReceivedType
<1>5. calls' = calls \cup {c}
  BY DEF SweepPost
<1> HIDE DEF c
<1>6. sweep' \in Sweep /\ sweep'.pc = "wait"
  BY <1>1 DEF SweepPost, IdleSweep, Sweep, Sid0, NoStatus
<1> QED
  BY <1>1, <1>4, <1>5, <1>6 DEF TypeOK, AdvanceHasStatus, SweepHasSession

LEMMA SweepStepShape ==
  ASSUME Shape, SweepStep
  PROVE  Shape'
<1> DEFINE Disturbed == /\ calls \subseteq Call
                        /\ wl \in [Sids -> Workload]
                        /\ cb \in [Sids -> BOOLEAN]
                        /\ bot \in [Sids -> Bot]
                        /\ sweep \in Sweep
                        /\ zombie \in BOOLEAN
                        /\ faults \in [FaultKind -> Nat]
                        /\ SweepHasSession
                        /\ AdvanceHasStatus
<1>1. TypeOK /\ RowFirst /\ Disturbed /\ sweep.container \in Sid0
  BY DEF Shape, TypeOK, Sweep
<1> SUFFICES Disturbed'
  BY <1>1 DEF SweepStep, durable, requests, history, Shape, TypeOK, RowFirst
<1>2. ASSUME NEW kind \in {"general", "stopping"}, SweepList(kind)
      PROVE  Disturbed'
  <2>1. LastSession \in Sids
    BY <1>1, <1>2, SessionsAreSids DEF SweepList, Stale, TypeOK
  <2>2. row.status \in RowStatus /\ row.container \in Sid0 /\ row.stop \in BOOLEAN
    BY <1>1, <1>2 DEF TypeOK, Row, SweepList, Stale, NonTerminal
  <2>3. sweep' \in Sweep /\ sweep'.sid = LastSession
    BY <1>2, <2>1, <2>2 DEF SweepList, Sweep, Sid0
  <2> QED
    BY <1>1, <1>2, <2>1, <2>3
    DEF SweepList, substrate, SweepHasSession, AdvanceHasStatus
<1>3. CASE SweepPass
  BY <1>1, <1>3 DEF SweepPass, substrate, SweepHasSession, AdvanceHasStatus
<1>4. CASE SweepProbe
  <2>1. sweep.pc = "probe" /\ UNCHANGED <<calls, bot>>
    BY <1>4 DEF SweepProbe
  <2>2. CASE Untracked /\ UNCHANGED <<wl, cb, faults>>
    BY <1>1, <2>1, <2>2, UntrackedShape DEF AdvanceHasStatus
  <2>3. CASE /\ UNCHANGED faults \/ Fail("runtime")
             /\ sweep' = IdleSweep /\ zombie' = FALSE /\ UNCHANGED <<wl, cb>>
    BY <1>1, <2>1, <2>3, FailType
    DEF IdleSweep, Sweep, Sid0, NoStatus, SweepHasSession, AdvanceHasStatus,
        FaultKind
  <2>4. CASE /\ UNCHANGED <<wl, cb>> \/ ObserveExit(sweep.container)
             /\ sweep' = [sweep EXCEPT !.pc = "teardown"]
             /\ UNCHANGED <<zombie, faults>>
    BY <1>1, <2>1, <2>4, ObserveExitType
    DEF Sweep, SweepHasSession, AdvanceHasStatus
  <2> QED
    BY <1>4, <2>2, <2>3, <2>4 DEF SweepProbe
<1>5. CASE SweepTeardown
  <2>1. sweep.pc = "teardown" /\ UNCHANGED calls
    BY <1>5 DEF SweepTeardown
  <2>2. CASE /\ UNCHANGED substrate \/ Destroy(sweep.container)
             /\ sweep' = [sweep EXCEPT !.pc = "post"]
             /\ UNCHANGED <<zombie, faults>>
    BY <1>1, <2>1, <2>2, DestroyType
    DEF substrate, Sweep, SweepHasSession, AdvanceHasStatus
  <2>3. CASE Untracked /\ UNCHANGED <<substrate, faults>>
    BY <1>1, <2>1, <2>3, UntrackedShape DEF substrate, AdvanceHasStatus
  <2>4. CASE /\ Fail("runtime") /\ sweep' = IdleSweep
             /\ zombie' = (zombie /\ sweep.kind = "stopping")
             /\ UNCHANGED substrate
    BY <1>1, <2>1, <2>4, FailType
    DEF substrate, IdleSweep, Sweep, Sid0, NoStatus, SweepHasSession,
        AdvanceHasStatus, FaultKind
  <2> QED
    BY <1>5, <2>2, <2>3, <2>4 DEF SweepTeardown
<1>6. ASSUME NEW r \in Replicas, SweepPost(r)
      PROVE  Disturbed'
  BY <1>1, <1>6, SweepPostShape DEF SweepPost, substrate
<1> QED
  BY <1>2, <1>3, <1>4, <1>5, <1>6 DEF SweepStep

LEMMA RestartShape ==
  ASSUME Shape, Restart
  PROVE  Shape'
<1>1. TypeOK /\ RowFirst
  BY DEF Shape
<1>2. faults' \in [FaultKind -> Nat]
  BY <1>1, FailType DEF Restart, FaultKind
<1>3. rec' \in [Replicas -> [Sids -> Record]]
  BY DEF Restart, EmptyStores, NewRecord, Record
<1>4. spawn' \in [Sids -> SpawnPc] /\ RowFirst'
  BY <1>1 DEF TypeOK, Restart, durable, SpawnPc, RowFirst
<1>5. stops' \in [Stops -> Stop]
  BY <1>1 DEF TypeOK, Restart, StopDone, IdleStop, Stop, Sid0
<1>6. sweep' \in Sweep /\ SweepHasSession'
  BY DEF Restart, IdleSweep, Sweep, Sid0, NoStatus, SweepHasSession
<1> QED
  BY <1>1, <1>2, <1>3, <1>4, <1>5, <1>6
  DEF Restart, durable, substrate, history, Shape, TypeOK, AdvanceHasStatus

LEMMA InitShape == Init => Shape
<1> SUFFICES ASSUME Init PROVE Shape
  OBVIOUS
<1>1. row \in Row /\ sweep \in Sweep /\ zombie \in BOOLEAN
  BY DEF Init, Row, Sid0, IdleSweep, Sweep, NoStatus, NoStage
<1>2. rec \in [Replicas -> [Sids -> Record]] /\ calls \subseteq Call
  BY DEF Init, EmptyStores, NewRecord, Record
<1>3. /\ wl \in [Sids -> Workload] /\ cb \in [Sids -> BOOLEAN]
      /\ bot \in [Sids -> Bot]
  BY DEF Init, Workload, NoBot, Bot, NoStatus
<1>4. spawn \in [Sids -> SpawnPc] /\ stops \in [Stops -> Stop]
  BY DEF Init, SpawnPc, IdleStop, Stop, Sid0
<1>5. /\ sessions \in Seq(Sids) /\ faults \in [FaultKind -> Nat]
      /\ announced \in [Sids -> 0..2] /\ seated \subseteq Sids
  BY DEF Init
<1>6. RowFirst /\ SweepHasSession /\ AdvanceHasStatus
  BY DEF Init, RowFirst, SweepHasSession, IdleSweep, AdvanceHasStatus
<1> QED
  BY <1>1, <1>2, <1>3, <1>4, <1>5, <1>6 DEF Shape, TypeOK

LEMMA NextShape == Shape /\ [Next]_vars => Shape'
<1> SUFFICES ASSUME Shape, [Next]_vars PROVE Shape'
  OBVIOUS
<1>1. CASE UNCHANGED vars
  BY <1>1 DEF vars, durable, memory, substrate, requests, reconcile, history,
     Shape, TypeOK, RowFirst, SweepHasSession, AdvanceHasStatus
<1>2. CASE Next
  BY <1>2, SpawnStepShape, BotStepShape, StopStepShape, CallStepShape,
     KernelStepShape, SweepStepShape, RestartShape DEF Next
<1> QED
  BY <1>1, <1>2

\* The durable row, the stores, the calls being served and the loops keep their
\* shapes: an advance never writes a missing status, a sweep never posts a
\* session that is not there, and no read returns a status nobody wrote.
THEOREM TypeCorrect == Spec => []TypeOK
<1>1. Spec => []Shape
  BY InitShape, NextShape, PTL DEF Spec
<1>2. Shape => TypeOK
  BY DEF Shape
<1> QED
  BY <1>1, <1>2, PTL

-----------------------------------------------------------------------------
(* A sweep never ends the meeting of a live bot.  By the time its event is   *)
(* served, everything the sweep saw may be old; what makes it safe is that a *)
(* workload is started once, so one found or made dead stays dead.           *)

\* The workload of s has been asked for: it is not started any more.
Created(s) == spawn[s] \notin {"idle", "reopen", "create"}

Gone(s) == Created(s) /\ ~wl[s].alive

\* A workload is named, by the row or by a sweep, after it was asked for.
NamesCreated ==
  /\ row.container # NoSid => Created(row.container)
  /\ sweep.container # NoSid => Created(sweep.container)

\* A sweep that has made up its mind has seen its workload gone, or presumes
\* it lost.
VerdictConfirmed ==
  sweep.pc = "post" /\ ~sweep.presumed /\ sweep.container # NoSid
    => Gone(sweep.container)

\* So has the call that carries its verdict.
SweepCallsConfirmed ==
  \A c \in calls : c.src = "sweep" /\ c.from # NoSid => Gone(c.from)

Evidence == Shape /\ NamesCreated /\ VerdictConfirmed /\ SweepCallsConfirmed

\* A teardown revives nothing.
LEMMA TeardownRevivesNothing ==
  ASSUME TypeOK, NEW s \in Sids, NEW t \in Sid0, ~wl[s].alive,
         \/ Destroy(t) \/ BestEffortDelete(t) \/ ObserveExit(t)
  PROVE  ~wl'[s].alive
<1>1. wl \in [Sids -> Workload]
  BY DEF TypeOK
<1>2. CASE Destroy(t)
  BY <1>1, <1>2 DEF Destroy, Workload
<1>3. CASE ObserveExit(t)
  BY <1>1, <1>3 DEF ObserveExit, Workload
<1> QED
  BY <1>2, <1>3 DEF BestEffortDelete, substrate

\* Only a POST /bots that is about to create its workload makes one live.
LEMMA OnlyCreateRevives ==
  ASSUME Shape, Next, NEW s \in Sids, ~wl[s].alive, spawn[s] # "create"
  PROVE  ~wl'[s].alive
<1>1. TypeOK /\ wl \in [Sids -> Workload] /\ sweep.container \in Sid0
  BY DEF Shape, TypeOK, Sweep
<1>2. ASSUME NEW t \in Sids, SpawnStep(t)
      PROVE  ~wl'[s].alive
  <2>1. CASE StartWorkload(t) /\ spawn[t] = "create"
    BY <1>1, <2>1 DEF StartWorkload
  <2>2. CASE BestEffortDelete(t)
    BY <1>1, <2>2, TeardownRevivesNothing DEF Sid0
  <2>3. CASE UNCHANGED wl
    BY <2>3
  <2> QED
    BY <1>2, <2>1, <2>2, <2>3
    DEF SpawnStep, SpawnInsert, SpawnContinue, SpawnReopen, SpawnCreate,
        SpawnRefused, SpawnReject, SpawnTransportError, SpawnCreateSession,
        SpawnSetContainer, SpawnDbFault, SpawnTeardown, SpawnRaceCheck,
        substrate
<1>3. ASSUME NEW t \in Sids, BotStep(t)
      PROVE  ~wl'[s].alive
  BY <1>1, <1>3
  DEF BotStep, BotReport, BotPost, BotPostLost, BotGiveUp, BotExit, Workload
<1>4. ASSUME NEW d \in Stops, StopStep(d)
      PROVE  ~wl'[s].alive
  <2>1. CASE StopKill(d)
    <3>1. stops[d].container \in Sid0
      BY <1>1 DEF TypeOK, Stop
    <3> QED
      BY <1>1, <2>1, <3>1, TeardownRevivesNothing DEF StopKill
  <2> QED
    BY <1>4, <2>1
    DEF StopStep, StopFind, StopListSessions, StopUpdate, StopFault,
        StopPublish, Withdraw, substrate
<1>5. ASSUME NEW c \in calls, CallStep(c)
      PROVE  ~wl'[s].alive
  BY <1>5 DEF CallStep
<1>6. CASE KernelStep
  <2>1. ASSUME NEW t \in Sids, KernelReap(t)
        PROVE  ~wl'[s].alive
    BY <1>1, <2>1, TeardownRevivesNothing DEF KernelReap, Sid0
  <2>2. CASE KernelRestart
    <3>1. PICK adopted \in SUBSET Sids :
            wl' = [t \in Sids |->
                     [wl[t] EXCEPT !.known = IF t \in adopted THEN "adopted"
                                             ELSE IF @ = "none" THEN @
                                             ELSE "forgotten",
                                   !.over  = t \in adopted /\ ~wl[t].alive]]
      BY <2>2 DEF KernelRestart
    <3> DEFINE k    == IF s \in adopted THEN "adopted"
                       ELSE IF wl[s].known = "none" THEN "none"
                       ELSE "forgotten"
               over == s \in adopted /\ ~wl[s].alive
    <3>2. wl'[s] = [wl[s] EXCEPT !.known = k, !.over = over]
      BY <1>1, <3>1 DEF Workload
    <3> HIDE DEF k, over
    <3> QED
      BY <1>1, <3>2 DEF Workload
  <2> QED
    BY <1>6, <2>1, <2>2 DEF KernelStep, RuntimeCallback, RuntimeCallbackLost
<1>7. CASE SweepStep
  BY <1>1, <1>7, TeardownRevivesNothing
  DEF SweepStep, SweepList, SweepPass, SweepProbe, SweepTeardown, SweepPost,
      substrate
<1>8. CASE Restart
  BY <1>8 DEF Restart, substrate
<1> QED
  BY <1>2, <1>3, <1>4, <1>5, <1>6, <1>7, <1>8 DEF Next

LEMMA CreatedStays ==
  ASSUME Shape, Next, NEW s \in Sids, Created(s)
  PROVE  Created(s)'
<1>1. spawn \in [Sids -> SpawnPc]
  BY DEF Shape, TypeOK
<1>2. ASSUME NEW t \in Sids, SpawnStep(t)
      PROVE  Created(s)'
  BY <1>1, <1>2
  DEF Created, SpawnStep, SpawnInsert, SpawnContinue, SpawnReopen, SpawnCreate,
      SpawnRefused, SpawnReject, SpawnTransportError, SpawnCreateSession,
      SpawnSetContainer, SpawnDbFault, SpawnTeardown, SpawnRaceCheck
<1>3. CASE Restart
  BY <1>1, <1>3 DEF Created, Restart
<1>4. CASE UNCHANGED spawn
  BY <1>4 DEF Created
<1> QED
  BY <1>2, <1>3, <1>4
  DEF Next, BotStep, StopStep, CallStep, KernelStep, SweepStep, requests

\* A workload that was asked for and is dead stays dead.
LEMMA GoneStays ==
  ASSUME Shape, Next, NEW s \in Sids, Gone(s)
  PROVE  Gone(s)'
<1>1. Created(s)'
  BY CreatedStays DEF Gone
<1>2. ~wl'[s].alive
  BY OnlyCreateRevives DEF Gone, Created
<1> QED
  BY <1>1, <1>2 DEF Gone

LEMMA ReceivedSource ==
  ASSUME NEW src, NEW from, NEW attempt, NEW s, NEW ev, NEW r
  PROVE  /\ Received(src, from, attempt, s, ev, r).src = src
         /\ Received(src, from, attempt, s, ev, r).from = from
  BY DEF Received

\* Being served, a call keeps its source and the workload it is about.
LEMMA CallsKeepSource ==
  ASSUME Shape, NEW c \in calls, CallStep(c), NEW d \in calls'
  PROVE  \E e \in calls : d.src = e.src /\ d.from = e.from
<1>1. c \in Call /\ calls \subseteq Call
  BY DEF Shape, TypeOK
<1>2. ASSUME NEW e \in Call, Move(c, e), e.src = c.src, e.from = c.from
      PROVE  \E f \in calls : d.src = f.src /\ d.from = f.from
  BY <1>2 DEF Move
<1>3. CASE calls' \subseteq calls
  BY <1>3
<1>4. ASSUME NEW before, Apply(c, before)
      PROVE  \E e \in calls : d.src = e.src /\ d.from = e.from
  <2> DEFINE force == c.src # "bot" \/ before.stop \/ c.persisted = "stopping"
             after == ApplyChange(before, c.ev, force)
             kept  == IF after.status \in Terminal THEN NewRecord ELSE before
             moved == [c EXCEPT !.pc = "persist", !.persisted = NoStatus,
                                !.intent = FALSE, !.new = after, !.old = kept]
  <2>1. Move(c, moved) \/ calls' \subseteq calls
    BY <1>4 DEF Apply, Finish
  <2> HIDE DEF after, kept
  <2>2. moved.src = c.src /\ moved.from = c.from
    BY <1>1 DEF Call
  <2> HIDE DEF moved
  <2> QED
    BY <1>3, <2>1, <2>2 DEF Move
<1>5. CASE CallReadStatus(c)
  <2>1. PICK seen \in {StatusBySession(c.sid), NoStatus} :
          Move(c, [c EXCEPT !.persisted = seen,
                     !.pc = IF rec[c.on][c.sid].status = NoStatus
                            THEN "rehydrate" ELSE "read_stop"])
    BY <1>5 DEF CallReadStatus
  <2> QED
    BY <1>1, <2>1 DEF Move, Call
<1>6. CASE CallRehydrate(c)
  <2> DEFINE seeded == Rehydrate(rec[c.on][c.sid], c.persisted)
  <2>1. Move(c, [c EXCEPT !.pc = "read_stop"]) \/ Apply(c, seeded)
    BY <1>6 DEF CallRehydrate
  <2> HIDE DEF seeded
  <2> QED
    BY <1>1, <1>4, <2>1 DEF Move, Call
<1>7. CASE CallReadStop(c)
  <2>1. PICK intent \in {StopBySession(c.sid), FALSE} :
          Move(c, [c EXCEPT !.intent = intent, !.pc = "apply"])
    BY <1>7 DEF CallReadStop
  <2> QED
    BY <1>1, <2>1 DEF Move, Call
<1>8. CASE CallApply(c)
  <2> DEFINE before == [rec[c.on][c.sid] EXCEPT !.stop = @ \/ c.intent]
  <2>1. Apply(c, before)
    BY <1>8 DEF CallApply
  <2> HIDE DEF before
  <2> QED
    BY <1>4, <2>1
<1>9. CASE CallPersist(c)
  <2> DEFINE seen == IF ~Known(c.sid) THEN "nothing"
                     ELSE IF row.withdrawn THEN "withdrawn" ELSE "row"
  <2>1. Move(c, [c EXCEPT !.pc = "settle", !.shown = seen])
    BY <1>9 DEF CallPersist
  <2> HIDE DEF seen
  <2> QED
    BY <1>1, <2>1 DEF Move, Call
<1>10. CASE CallPersistFails(c)
  BY <1>1, <1>10 DEF CallPersistFails, Move, Call
<1>11. CASE CallSettle(c)
  <2>1. CASE calls' = Detach(c)
    <3>1. PICK e \in calls :
            d = e \/ d = [e EXCEPT !.held = rec[c.on][c.sid].status]
      BY <2>1 DEF Detach
    <3> QED
      BY <1>1, <3>1 DEF Call
  <2> QED
    BY <1>3, <1>11, <2>1 DEF CallSettle
<1> QED
  BY <1>5, <1>6, <1>7, <1>8, <1>9, <1>10, <1>11 DEF CallStep

\* An unknown workload is presumed lost or left alone for now.
LEMMA UntrackedOutcome ==
  ASSUME sweep \in Sweep, Untracked
  PROVE  \/ sweep'.presumed /\ sweep'.container = sweep.container
         \/ sweep' = IdleSweep
<1>1. CASE sweep' = [sweep EXCEPT !.pc = "post", !.presumed = TRUE]
  <2>1. [sweep EXCEPT !.pc = "post"] \in Sweep
    BY DEF Sweep
  <2> QED
    BY <1>1, <2>1 DEF Sweep
<1> QED
  BY <1>1 DEF Untracked

LEMMA NextNamesCreated ==
  ASSUME Evidence, Next
  PROVE  NamesCreated'
<1>1. /\ Shape /\ TypeOK /\ row \in Row /\ sweep \in Sweep
      /\ row.container \in Sid0 /\ sweep.container \in Sid0
  BY DEF Evidence, Shape, TypeOK, Row, Sweep
<1>2. ASSUME NEW s \in Sids, s = row.container \/ s = sweep.container
      PROVE  Created(s)'
  <2>1. Created(s)
    BY <1>2, SidsAssumption DEF Evidence, NamesCreated
  <2> QED
    BY <1>1, <2>1, CreatedStays
<1>3. \/ row'.container \in {NoSid, row.container}
      \/ \E s \in Sids : row'.container = s /\ Created(s)'
  <2>1. ASSUME NEW s \in Sids, SpawnStep(s)
        PROVE  \/ row'.container \in {NoSid, row.container}
               \/ row'.container = s /\ Created(s)'
    BY <1>1, <2>1
    DEF TypeOK, Row, Created, durable, SpawnStep, SpawnInsert, SpawnContinue,
        SpawnReopen, SpawnCreate, SpawnRefused, SpawnReject,
        SpawnTransportError, SpawnCreateSession, SpawnSetContainer,
        SpawnDbFault, SpawnTeardown, SpawnRaceCheck
  <2>2. ASSUME NEW s, NEW status, NEW stop, NEW stage,
               UpdateMeetingStatus(s, status, stop, stage)
        PROVE  row'.container = row.container
    BY <1>1, <2>2 DEF UpdateMeetingStatus, Row
  <2>3. ASSUME NEW d \in Stops, StopStep(d)
        PROVE  row'.container = row.container
    BY <1>1, <2>2, <2>3
    DEF StopStep, StopFind, StopListSessions, StopUpdate, StopFault,
        StopPublish, StopKill, Withdraw, Row
  <2>4. ASSUME NEW c \in calls, CallStep(c)
        PROVE  row'.container = row.container
    BY <2>2, <2>4
    DEF CallStep, CallReadStatus, CallRehydrate, CallReadStop, CallApply,
        CallPersist, CallPersistFails, CallSettle
  <2>5. CASE UNCHANGED row
    BY <2>5
  <2> QED
    BY <2>1, <2>3, <2>4, <2>5
    DEF Next, BotStep, KernelStep, SweepStep, Restart, durable
<1>4. sweep'.container \in {NoSid, sweep.container, row.container}
  <2>1. CASE SweepStep
    <3>1. ASSUME NEW kind, SweepList(kind)
          PROVE  sweep'.container = row.container
      BY <3>1 DEF SweepList
    <3>2. CASE Untracked
      BY <1>1, <3>2, UntrackedOutcome DEF IdleSweep
    <3>3. CASE SweepProbe
      BY <1>1, <3>2, <3>3 DEF SweepProbe, IdleSweep, Sweep
    <3>4. CASE SweepTeardown
      BY <1>1, <3>2, <3>4 DEF SweepTeardown, IdleSweep, Sweep
    <3>5. ASSUME NEW r \in Replicas, SweepPost(r)
          PROVE  sweep'.container = NoSid
      BY <3>5 DEF SweepPost, IdleSweep
    <3> QED
      BY <2>1, <3>1, <3>3, <3>4, <3>5 DEF SweepStep, SweepPass
  <2>2. ASSUME NEW c \in calls, CallStep(c)
        PROVE  sweep' = sweep \/ sweep' = IdleSweep
    BY <2>2
    DEF CallStep, CallReadStatus, CallRehydrate, CallReadStop, CallApply,
        CallPersist, CallPersistFails, CallSettle, Apply, Finish, Answer,
        reconcile
  <2>3. CASE sweep' = sweep \/ sweep' = IdleSweep
    BY <2>3 DEF IdleSweep
  <2> QED
    BY <2>1, <2>2, <2>3
    DEF Next, SpawnStep, BotStep, StopStep, KernelStep, Restart, reconcile
<1> QED
  BY <1>1, <1>2, <1>3, <1>4 DEF NamesCreated, Created, Sid0

LEMMA NextVerdictConfirmed ==
  ASSUME Evidence, Next
  PROVE  VerdictConfirmed'
<1>1. Shape /\ TypeOK /\ sweep \in Sweep /\ wl \in [Sids -> Workload]
  BY DEF Evidence, Shape, TypeOK
<1>2. CASE /\ sweep'.pc = "post" /\ ~sweep'.presumed
           /\ sweep'.container # NoSid
  <2>1. ASSUME NEW c \in calls, CallStep(c)
        PROVE  sweep' = sweep \/ sweep' = IdleSweep
    BY <2>1
    DEF CallStep, CallReadStatus, CallRehydrate, CallReadStop, CallApply,
        CallPersist, CallPersistFails, CallSettle, Apply, Finish, Answer,
        reconcile
  <2>2. ASSUME NEW kind, SweepList(kind)
        PROVE  sweep'.pc # "post"
    BY <2>2 DEF SweepList
  <2>3. Untracked => sweep'.pc # "post" \/ sweep'.presumed
    BY <1>1, UntrackedOutcome DEF IdleSweep
  <2>4. SweepProbe => sweep'.pc # "post" \/ sweep'.presumed
    BY <1>1, <2>3 DEF SweepProbe, IdleSweep, Sweep
  <2>5. ASSUME NEW r \in Replicas, SweepPost(r)
        PROVE  sweep'.pc # "post"
    BY <2>5 DEF SweepPost, IdleSweep
  <2>6. CASE SweepTeardown /\ SweepStep
    <3>1. /\ sweep.container \in Sids
          /\ sweep'.container = sweep.container
          /\ Destroy(sweep.container)
      BY <1>1, <1>2, <2>3, <2>6, SidsAssumption
      DEF SweepTeardown, IdleSweep, Sweep, Sid0
    <3>2. Created(sweep.container) /\ UNCHANGED spawn
      BY <2>6, <3>1, SidsAssumption
      DEF Evidence, NamesCreated, SweepStep, requests
    <3>3. ~wl'[sweep.container].alive
      BY <1>1, <3>1 DEF Destroy, Workload
    <3> QED
      BY <3>1, <3>2, <3>3 DEF VerdictConfirmed, Gone, Created
  <2>7. CASE sweep' = sweep
    <3>1. PICK s \in Sids : s = sweep.container
      BY <1>1, <1>2, <2>7 DEF Sweep, Sid0
    <3>2. Gone(s)
      BY <1>2, <2>7, <3>1 DEF Evidence, VerdictConfirmed
    <3>3. Gone(s)'
      BY <1>1, <3>2, GoneStays
    <3> QED
      BY <2>7, <3>1, <3>3 DEF VerdictConfirmed, Gone, Created
  <2>8. CASE sweep' = IdleSweep
    BY <1>2, <2>8 DEF IdleSweep
  <2> QED
    BY <1>2, <2>1, <2>2, <2>4, <2>5, <2>6, <2>7, <2>8
    DEF Next, SpawnStep, BotStep, StopStep, KernelStep, SweepStep, SweepPass,
        Restart, reconcile
<1>3. CASE ~(/\ sweep'.pc = "post" /\ ~sweep'.presumed
             /\ sweep'.container # NoSid)
  BY <1>3 DEF VerdictConfirmed
<1> QED
  BY <1>2, <1>3

LEMMA NextSweepCallsConfirmed ==
  ASSUME Evidence, Next
  PROVE  SweepCallsConfirmed'
<1>1. Shape /\ TypeOK /\ sweep \in Sweep /\ calls \subseteq Call
  BY DEF Evidence, Shape, TypeOK
<1> SUFFICES ASSUME NEW c \in calls', c.src = "sweep", c.from # NoSid
             PROVE  Gone(c.from)'
  BY DEF SweepCallsConfirmed
<1>2. CASE \E e \in calls : c.src = e.src /\ c.from = e.from
  <2>1. c.from \in Sids /\ Gone(c.from)
    BY <1>1, <1>2 DEF Evidence, SweepCallsConfirmed, Call, Sid0
  <2> QED
    BY <1>1, <2>1, GoneStays
<1>3. ASSUME NEW r \in Replicas, SweepPost(r), SweepStep,
             ~\E e \in calls : c.src = e.src /\ c.from = e.from
      PROVE  Gone(c.from)'
  <2>1. c = Received(IF sweep.presumed THEN "presumed" ELSE "sweep",
                     sweep.container, 0, sweep.sid, SweepEvent, r)
    BY <1>3 DEF SweepPost
  <2>2. /\ c.src = (IF sweep.presumed THEN "presumed" ELSE "sweep")
        /\ c.from = sweep.container
    BY <2>1, ReceivedSource
  <2>3. ~sweep.presumed /\ sweep.pc = "post"
    BY <1>3, <2>2 DEF SweepPost
  <2>4. c.from \in Sids /\ Gone(c.from)
    BY <1>1, <2>2, <2>3 DEF Evidence, VerdictConfirmed, Sweep, Sid0
  <2> QED
    BY <1>1, <2>4, GoneStays
<1>4. ASSUME NEW s \in Sids, NEW r \in Replicas,
             RuntimeCallback(s, r) \/ BotPost(s, r)
      PROVE  \E e \in calls : c.src = e.src /\ c.from = e.from
  <2>1. c \in calls \/ c.src \in {"runtime", "bot"}
    BY <1>4, ReceivedSource DEF RuntimeCallback, BotPost
  <2> QED
    BY <2>1
<1>5. ASSUME NEW e \in calls, CallStep(e)
      PROVE  \E f \in calls : c.src = f.src /\ c.from = f.from
  BY <1>1, <1>5, CallsKeepSource
<1>6. CASE calls' \subseteq calls
  BY <1>2, <1>6
<1> QED
  BY <1>2, <1>3, <1>4, <1>5, <1>6
  DEF Next, SpawnStep, BotStep, BotReport, BotPostLost, BotGiveUp, BotExit,
      StopStep, KernelStep, KernelReap, RuntimeCallbackLost, KernelRestart,
      SweepStep, SweepList, SweepPass, SweepProbe, SweepTeardown, Restart,
      memory

LEMMA InitEvidence == Init => Evidence
  BY InitShape
  DEF Init, Evidence, NamesCreated, VerdictConfirmed, SweepCallsConfirmed,
      IdleSweep

LEMMA NextEvidence == Evidence /\ [Next]_vars => Evidence'
<1> SUFFICES ASSUME Evidence, [Next]_vars PROVE Evidence'
  OBVIOUS
<1>1. Shape'
  BY NextShape DEF Evidence
<1>2. CASE UNCHANGED vars
  BY <1>1, <1>2
  DEF vars, durable, memory, substrate, requests, reconcile, Evidence,
      NamesCreated, VerdictConfirmed, SweepCallsConfirmed, Gone, Created
<1>3. CASE Next
  BY <1>1, <1>3, NextNamesCreated, NextVerdictConfirmed,
     NextSweepCallsConfirmed DEF Evidence
<1> QED
  BY <1>2, <1>3

\* A sweep ends a meeting only when the workload it names is gone for good,
\* however stale the row, the probe or the verdict it acts on, and whatever
\* restarts, failed writes and failed runtime calls come in between.
THEOREM SweepSafe == Spec => []SweepNeverEndsALiveBot
<1>1. Spec => []Evidence
  BY InitEvidence, NextEvidence, PTL DEF Spec
<1>2. Evidence => SweepNeverEndsALiveBot
  BY DEF Evidence, SweepCallsConfirmed, Gone, SweepNeverEndsALiveBot
<1> QED
  BY <1>1, <1>2, PTL

-----------------------------------------------------------------------------
(* Terminal is terminal.  A withdrawal is what lets a call put an older record *)
(* back in the place of the live one.                                         *)

\* No capture is withdrawn, and no call has seen one that was.
NoWithdrawal ==
  /\ faults.withdraw = 0 /\ ~row.withdrawn
  /\ \A c \in calls : c.shown # "withdrawn"

Untaken == Shape /\ NoWithdrawal

\* A call is shown a withdrawn row only when it writes one.
LEMMA ShownWithdrawn ==
  ASSUME Shape, NoWithdrawal, NEW c \in calls, CallStep(c), NEW d \in calls'
  PROVE  d.shown # "withdrawn"
<1>1. c \in Call /\ calls \subseteq Call /\ c.shown # "withdrawn"
  BY DEF Shape, TypeOK, NoWithdrawal
<1>2. CASE d \in calls
  BY <1>2 DEF NoWithdrawal
<1>3. ASSUME NEW before, Apply(c, before)
      PROVE  d.shown # "withdrawn"
  <2> DEFINE force == c.src # "bot" \/ before.stop \/ c.persisted = "stopping"
             after == ApplyChange(before, c.ev, force)
             kept  == IF after.status \in Terminal THEN NewRecord ELSE before
             moved == [c EXCEPT !.pc = "persist", !.persisted = NoStatus,
                                !.intent = FALSE, !.new = after, !.old = kept]
  <2>1. Move(c, moved) \/ calls' \subseteq calls
    BY <1>3 DEF Apply, Finish
  <2> HIDE DEF after, kept
  <2>2. moved.shown = c.shown
    BY <1>1 DEF Call
  <2> HIDE DEF moved
  <2> QED
    BY <1>1, <1>2, <2>1, <2>2 DEF Move
<1>4. CASE CallReadStatus(c)
  <2>1. PICK seen \in {StatusBySession(c.sid), NoStatus} :
          Move(c, [c EXCEPT !.persisted = seen,
                     !.pc = IF rec[c.on][c.sid].status = NoStatus
                            THEN "rehydrate" ELSE "read_stop"])
    BY <1>4 DEF CallReadStatus
  <2> QED
    BY <1>1, <1>2, <2>1 DEF Move, Call
<1>5. CASE CallRehydrate(c)
  <2> DEFINE seeded == Rehydrate(rec[c.on][c.sid], c.persisted)
  <2>1. Move(c, [c EXCEPT !.pc = "read_stop"]) \/ Apply(c, seeded)
    BY <1>5 DEF CallRehydrate
  <2> HIDE DEF seeded
  <2> QED
    BY <1>1, <1>2, <1>3, <2>1 DEF Move, Call
<1>6. CASE CallReadStop(c)
  <2>1. PICK intent \in {StopBySession(c.sid), FALSE} :
          Move(c, [c EXCEPT !.intent = intent, !.pc = "apply"])
    BY <1>6 DEF CallReadStop
  <2> QED
    BY <1>1, <1>2, <2>1 DEF Move, Call
<1>7. CASE CallApply(c)
  <2> DEFINE before == [rec[c.on][c.sid] EXCEPT !.stop = @ \/ c.intent]
  <2>1. Apply(c, before)
    BY <1>7 DEF CallApply
  <2> HIDE DEF before
  <2> QED
    BY <1>3, <2>1
<1>8. CASE CallPersist(c)
  <2> DEFINE seen == IF ~Known(c.sid) THEN "nothing" ELSE "row"
  <2>1. Move(c, [c EXCEPT !.pc = "settle", !.shown = seen])
    BY <1>8 DEF CallPersist, NoWithdrawal
  <2>2. seen # "withdrawn"
    OBVIOUS
  <2> HIDE DEF seen
  <2> QED
    BY <1>1, <1>2, <2>1, <2>2 DEF Move, Call
<1>9. CASE CallPersistFails(c)
  BY <1>1, <1>2, <1>9 DEF CallPersistFails, Move, Call
<1>10. CASE CallSettle(c)
  BY <1>1, <1>2, <1>10 DEF CallSettle, Suppresses
<1> QED
  BY <1>4, <1>5, <1>6, <1>7, <1>8, <1>9, <1>10 DEF CallStep

LEMMA WithdrawNeedsBound ==
  ASSUME MaxWithdrawals = 0, Shape, NoWithdrawal
  PROVE  ~Fail("withdraw")
  BY DEF NoWithdrawal, Fail, FaultBound

LEMMA OtherFaultsKeepWithdraw ==
  ASSUME Shape, NEW kind \in FaultKind \ {"withdraw"}, Fail(kind)
  PROVE  faults'.withdraw = faults.withdraw
  BY DEF Shape, TypeOK, Fail, FaultKind

LEMMA NextNoWithdrawal ==
  ASSUME MaxWithdrawals = 0, Shape, NoWithdrawal, Next
  PROVE  NoWithdrawal'
<1>1. TypeOK /\ row \in Row
  BY DEF Shape, TypeOK
<1>2. faults'.withdraw = 0
  <2>1. \A d \in Stops : ~Withdraw(d)
    BY WithdrawNeedsBound DEF Withdraw
  <2>2. \/ UNCHANGED faults
        \/ \E kind \in {"restart", "forget", "db", "runtime"} : Fail(kind)
    <3>1. ASSUME NEW s \in Sids, SpawnStep(s)
          PROVE  UNCHANGED faults \/ Fail("runtime") \/ Fail("db")
      BY <3>1
      DEF SpawnStep, SpawnInsert, SpawnContinue, SpawnReopen, SpawnCreate,
          SpawnRefused, SpawnReject, SpawnTransportError, SpawnCreateSession,
          SpawnSetContainer, SpawnDbFault, SpawnTeardown, SpawnRaceCheck,
          BestEffortDelete
    <3>2. ASSUME NEW d \in Stops, StopStep(d)
          PROVE  UNCHANGED faults \/ Fail("runtime") \/ Fail("db")
      BY <2>1, <3>2
      DEF StopStep, StopFind, StopListSessions, StopUpdate, StopFault,
          StopPublish, StopKill, BestEffortDelete
    <3>3. ASSUME NEW c \in calls, CallStep(c)
          PROVE  UNCHANGED faults \/ Fail("db")
      BY <3>3
      DEF CallStep, CallReadStatus, CallRehydrate, CallReadStop, CallApply,
          CallPersist, CallPersistFails, CallSettle
    <3>4. CASE KernelStep
      BY <3>4
      DEF KernelStep, KernelReap, RuntimeCallback, RuntimeCallbackLost,
          KernelRestart
    <3>5. CASE SweepStep
      BY <3>5
      DEF SweepStep, SweepList, SweepPass, SweepProbe, SweepTeardown, SweepPost
    <3> QED
      BY <3>1, <3>2, <3>3, <3>4, <3>5 DEF Next, BotStep, Restart
  <2> QED
    BY <2>2, OtherFaultsKeepWithdraw DEF NoWithdrawal, FaultKind
<1>3. ~row'.withdrawn
  <2>1. ASSUME NEW s, NEW status, NEW stop, NEW stage,
               UpdateMeetingStatus(s, status, stop, stage)
        PROVE  row'.withdrawn = row.withdrawn
    BY <1>1, <2>1 DEF UpdateMeetingStatus, Row
  <2>2. ASSUME NEW s \in Sids, SpawnStep(s)
        PROVE  row'.withdrawn = row.withdrawn
    BY <1>1, <2>2
    DEF Row, durable, SpawnStep, SpawnInsert, SpawnContinue, SpawnReopen,
        SpawnCreate, SpawnRefused, SpawnReject, SpawnTransportError,
        SpawnCreateSession, SpawnSetContainer, SpawnDbFault, SpawnTeardown,
        SpawnRaceCheck
  <2>3. ASSUME NEW d \in Stops, StopStep(d)
        PROVE  row'.withdrawn = row.withdrawn
    BY <2>1, <2>3, WithdrawNeedsBound
    DEF StopStep, StopFind, StopListSessions, StopUpdate, StopFault,
        StopPublish, StopKill, Withdraw
  <2>4. ASSUME NEW c \in calls, CallStep(c)
        PROVE  row'.withdrawn = row.withdrawn
    BY <2>1, <2>4
    DEF CallStep, CallReadStatus, CallRehydrate, CallReadStop, CallApply,
        CallPersist, CallPersistFails, CallSettle
  <2> QED
    BY <2>2, <2>3, <2>4
    DEF NoWithdrawal, Next, BotStep, KernelStep, SweepStep, Restart, durable
<1>4. ASSUME NEW d \in calls'
      PROVE  d.shown # "withdrawn"
  <2>1. ASSUME NEW c \in calls, CallStep(c)
        PROVE  d.shown # "withdrawn"
    BY <2>1, ShownWithdrawn
  <2>2. CASE d \in calls
    BY <2>2 DEF NoWithdrawal
  <2>3. ASSUME NEW src, NEW from, NEW attempt, NEW s, NEW ev, NEW r,
               d = Received(src, from, attempt, s, ev, r)
        PROVE  d.shown # "withdrawn"
    BY <2>3 DEF Received
  <2>4. ASSUME NEW s \in Sids, NEW r \in Replicas,
               RuntimeCallback(s, r) \/ BotPost(s, r)
        PROVE  d.shown # "withdrawn"
    BY <2>2, <2>3, <2>4 DEF RuntimeCallback, BotPost
  <2>5. ASSUME NEW r \in Replicas, SweepPost(r)
        PROVE  d.shown # "withdrawn"
    BY <2>2, <2>3, <2>5 DEF SweepPost
  <2> QED
    BY <2>1, <2>2, <2>4, <2>5
    DEF Next, SpawnStep, BotStep, BotReport, BotPostLost, BotGiveUp, BotExit,
        StopStep, KernelStep, KernelReap, RuntimeCallbackLost, KernelRestart,
        SweepStep, SweepList, SweepPass, SweepProbe, SweepTeardown, Restart,
        memory
<1> QED
  BY <1>2, <1>3, <1>4 DEF NoWithdrawal

\* What apply_change leaves of a record that had ended: its status.
LEMMA ApplyKeepsTerminal ==
  ASSUME Shape, NEW c \in calls, NEW before \in Record, Apply(c, before),
         before.status = rec[c.on][c.sid].status,
         NEW r \in Replicas, NEW s \in Sids, rec[r][s].status \in Terminal
  PROVE  rec'[r][s].status = rec[r][s].status
<1> DEFINE force == c.src # "bot" \/ before.stop \/ c.persisted = "stopping"
           after == ApplyChange(before, c.ev, force)
<1>1. /\ c.ev \in Event /\ c.on \in Replicas /\ c.sid \in Sids
      /\ rec \in [Replicas -> [Sids -> Record]]
  BY DEF Shape, TypeOK, Call
<1>2. rec' = [rec EXCEPT ![c.on][c.sid] = after]
  BY DEF Apply
<1>3. force \in BOOLEAN
  OBVIOUS
<1> HIDE DEF force
<1>4. before.status \in Terminal => after.status = before.status
  BY <1>1, <1>3, TerminalStays
<1> HIDE DEF after
<1>5. CASE r = c.on /\ s = c.sid
  BY <1>1, <1>2, <1>4, <1>5
<1>6. CASE r # c.on \/ s # c.sid
  BY <1>1, <1>2, <1>6
<1> QED
  BY <1>5, <1>6

LEMMA NextTerminalFinal ==
  ASSUME Shape, Next,
         NEW r \in Replicas, NEW s \in Sids, rec[r][s].status \in Terminal
  PROVE  \/ rec'[r][s].status = rec[r][s].status
         \/ faults'.restart # faults.restart
         \/ \E c \in calls : /\ c.on = r /\ c.sid = s
                             /\ c.held # NoStatus /\ c.shown = "withdrawn"
<1>1. TypeOK
  BY DEF Shape
<1>2. ASSUME NEW c \in calls, CallStep(c)
      PROVE  \/ rec'[r][s].status = rec[r][s].status
             \/ c.on = r /\ c.sid = s /\ c.held # NoStatus /\ c.shown = "withdrawn"
  <2> DEFINE live == rec[c.on][c.sid]
  <2>1. /\ c \in Call /\ c.on \in Replicas /\ c.sid \in Sids
        /\ live \in Record /\ rec \in [Replicas -> [Sids -> Record]]
    BY <1>1 DEF TypeOK, Call
  <2>2. CASE CallRehydrate(c)
    <3> DEFINE seeded == Rehydrate(live, c.persisted)
    <3>1. seeded \in Record
      BY <2>1, RehydrateType
    <3>2. live.status # NoStatus => seeded = live
      BY DEF Rehydrate
    <3>3. CASE r = c.on /\ s = c.sid
      <4>1. seeded = live
        BY <3>2, <3>3 DEF Terminal, NoStatus
      <4>2. \/ rec' = [rec EXCEPT ![c.on][c.sid] = seeded]
            \/ Apply(c, seeded)
        BY <2>2 DEF CallRehydrate
      <4> HIDE DEF seeded
      <4> QED
        BY <2>1, <3>1, <3>3, <4>1, <4>2, ApplyKeepsTerminal
    <3>4. CASE r # c.on \/ s # c.sid
      <4>1. \E new : rec' = [rec EXCEPT ![c.on][c.sid] = new]
        BY <2>2 DEF CallRehydrate, Apply
      <4> QED
        BY <2>1, <3>4, <4>1
    <3> QED
      BY <3>3, <3>4
  <2>3. CASE CallApply(c)
    <3> DEFINE before == [live EXCEPT !.stop = @ \/ c.intent]
    <3>1. (live.stop \/ c.intent) \in BOOLEAN
      OBVIOUS
    <3>2. before \in Record /\ before.status = live.status
      BY <2>1, <3>1 DEF Record
    <3>3. Apply(c, before)
      BY <2>3 DEF CallApply
    <3> HIDE DEF before
    <3> QED
      BY <3>2, <3>3, ApplyKeepsTerminal
  <2>4. CASE CallSettle(c)
    <3>1. CASE ~Suppresses(c)
      BY <2>4, <3>1 DEF CallSettle
    <3>2. CASE Suppresses(c) /\ (r # c.on \/ s # c.sid)
      <4>1. \E old : rec' = [rec EXCEPT ![c.on][c.sid] = old]
        BY <2>4, <3>2 DEF CallSettle
      <4> QED
        BY <2>1, <3>2, <4>1
    <3>3. CASE Suppresses(c) /\ r = c.on /\ s = c.sid
      BY <3>3 DEF Suppresses
    <3> QED
      BY <3>1, <3>2, <3>3
  <2> QED
    BY <1>2, <2>2, <2>3, <2>4
    DEF CallStep, CallReadStatus, CallReadStop, CallPersist, CallPersistFails
<1>3. CASE Restart
  BY <1>1, <1>3 DEF Restart, Fail, TypeOK, FaultKind
<1> QED
  BY <1>2, <1>3
  DEF Next, SpawnStep, BotStep, StopStep, KernelStep, SweepStep, memory

LEMMA NextTerminalUntaken ==
  ASSUME Shape, NoWithdrawal, Next,
         NEW r \in Replicas, NEW s \in Sids, rec[r][s].status \in Terminal
  PROVE  \/ rec'[r][s].status = rec[r][s].status
         \/ faults'.restart # faults.restart
  BY NextTerminalFinal DEF NoWithdrawal

\* No event, however late, forced or repeated, and no advance that is taken back
\* after a withdrawal, moves a record out of the status it ended in; only a restart
\* forgets it, or a call at work on a record that another one took back already.
THEOREM TerminalFinal == Spec => TerminalRecordIsFinal
<1>1. Init => Shape
  BY InitShape
<1>2. Shape /\ [Next]_vars => Shape'
  BY NextShape
<1>3. Shape /\ [Next]_vars =>
        [\A r \in Replicas, s \in Sids :
           rec[r][s].status \in Terminal =>
             \/ rec'[r][s].status = rec[r][s].status
             \/ faults'.restart # faults.restart
             \/ \E c \in calls : /\ c.on = r /\ c.sid = s
                                 /\ c.held # NoStatus /\ c.shown = "withdrawn"]_vars
  BY NextTerminalFinal DEF vars, memory
<1> QED
  BY <1>1, <1>2, <1>3, PTL DEF Spec, TerminalRecordIsFinal

-----------------------------------------------------------------------------
(* What a step of a POST /bots may do. *)

SpawnEdge(p, q) ==
  \/ p = "idle" /\ q \in {"create", "reopen"}
  \/ p = "reopen" /\ q = "create"
  \/ p = "create" /\ q \in {"session", "reject", "done"}
  \/ p = "session" /\ q \in {"container", "compensate"}
  \/ p = "container" /\ q \in {"race", "compensate"}
  \/ p = "race" /\ q \in {"kill", "done"}
  \/ p \in {"reject", "compensate", "kill"} /\ q = "done"

LEMMA SpawnMoves ==
  ASSUME Shape, NEW s \in Sids, SpawnStep(s)
  PROVE  /\ SpawnEdge(spawn[s], spawn'[s])
         /\ \A t \in Sids \ {s} : spawn'[t] = spawn[t]
<1>1. spawn \in [Sids -> SpawnPc]
  BY DEF Shape, TypeOK
<1>2. PICK q : spawn' = [spawn EXCEPT ![s] = q] /\ SpawnEdge(spawn[s], q)
  <2>1. CASE SpawnInsert(s) \/ SpawnContinue(s) \/ SpawnReopen(s) \/ SpawnCreate(s)
    BY <2>1 DEF SpawnInsert, SpawnContinue, SpawnReopen, SpawnCreate, SpawnEdge
  <2>2. CASE SpawnRefused(s) \/ SpawnReject(s) \/ SpawnTransportError(s)
    BY <2>2 DEF SpawnRefused, SpawnReject, SpawnTransportError, SpawnEdge
  <2>3. CASE SpawnCreateSession(s) \/ SpawnSetContainer(s) \/ SpawnTeardown(s)
    BY <2>3 DEF SpawnCreateSession, SpawnSetContainer, SpawnTeardown, SpawnEdge
  <2>4. CASE SpawnDbFault(s)
    <3> DEFINE q == IF spawn[s] \in {"session", "container"} THEN "compensate" ELSE "done"
    <3>1. spawn' = [spawn EXCEPT ![s] = q]
      BY <2>4 DEF SpawnDbFault
    <3>2. SpawnEdge(spawn[s], q)
      BY <2>4 DEF SpawnDbFault, SpawnEdge
    <3> QED
      BY <3>1, <3>2
  <2>5. CASE SpawnRaceCheck(s)
    <3> DEFINE q == IF StatusBySession(s) \in {"stopping", "completed", "failed"}
                    THEN "kill" ELSE "done"
    <3>1. spawn' = [spawn EXCEPT ![s] = q]
      BY <2>5 DEF SpawnRaceCheck
    <3>2. SpawnEdge(spawn[s], q)
      BY <2>5 DEF SpawnRaceCheck, SpawnEdge
    <3> QED
      BY <3>1, <3>2
  <2> QED
    BY <2>1, <2>2, <2>3, <2>4, <2>5 DEF SpawnStep
<1> QED
  BY <1>1, <1>2

\* What it may do to the row.
SpawnRow(s) ==
  \/ row' = row
  \/ /\ spawn[s] = "idle" /\ row.status = "absent" /\ spawn'[s] = "create"
     /\ row' = [row EXCEPT !.status = "requested"]
  \/ /\ spawn[s] = "reopen" /\ spawn'[s] = "create"
     /\ row' = [row EXCEPT !.status = "requested", !.container = NoSid, !.stage = NoStage]
  \/ /\ spawn[s] = "reject" /\ spawn'[s] = "done"
     /\ row' = [row EXCEPT !.status = "failed", !.stage = "runtime_spawn"]
  \/ /\ spawn[s] = "container" /\ spawn'[s] = "race"
     /\ row' = [row EXCEPT !.container = s]

LEMMA SpawnRows ==
  ASSUME Shape, NEW s \in Sids, SpawnStep(s)
  PROVE  /\ SpawnRow(s)
         /\ spawn'[s] = "reopen" => row.status \in Terminal
<1>1. spawn \in [Sids -> SpawnPc]
  BY DEF Shape, TypeOK
<1>2. CASE SpawnInsert(s)
  BY <1>1, <1>2 DEF SpawnInsert, SpawnRow
<1>3. CASE SpawnContinue(s)
  BY <1>1, <1>3 DEF SpawnContinue, SpawnRow, durable
<1>4. CASE SpawnReopen(s)
  BY <1>1, <1>4 DEF SpawnReopen, SpawnRow
<1>5. CASE SpawnReject(s)
  BY <1>1, <1>5 DEF SpawnReject, SpawnRow
<1>6. CASE SpawnSetContainer(s)
  BY <1>1, <1>6 DEF SpawnSetContainer, SpawnRow
<1>7. CASE SpawnCreate(s) \/ SpawnRefused(s) \/ SpawnTransportError(s)
  BY <1>1, <1>7 DEF SpawnCreate, SpawnRefused, SpawnTransportError, SpawnRow, durable
<1>8. CASE SpawnCreateSession(s)
  BY <1>1, <1>8 DEF SpawnCreateSession, SpawnRow
<1>9. CASE SpawnDbFault(s) \/ SpawnTeardown(s) \/ SpawnRaceCheck(s)
  BY <1>1, <1>9 DEF SpawnDbFault, SpawnTeardown, SpawnRaceCheck, SpawnRow, durable
<1> QED
  BY <1>2, <1>3, <1>4, <1>5, <1>6, <1>7, <1>8, <1>9 DEF SpawnStep

\* Who else may write the row: an advance, a stop or a withdrawal.
UpdatedBy(s, status, stop, stage) ==
  /\ s \in Sid0 /\ status \in RowStatus /\ stop \in BOOLEAN
  /\ stage \in {NoStage} \cup FailureStage
  /\ UpdateMeetingStatus(s, status, stop, stage)

LEMMA OthersWriteRow ==
  ASSUME Shape, Next, \A s \in Sids : ~SpawnStep(s)
  PROVE  \/ row' = row
         \/ \E s, status, stop, stage : UpdatedBy(s, status, stop, stage)
         \/ /\ row.status # "absent"
            /\ row' = [row EXCEPT !.withdrawn = TRUE, !.stop = TRUE,
                         !.status = IF @ \in Terminal THEN @ ELSE "stopping"]
<1>1. TypeOK /\ calls \subseteq Call /\ stops \in [Stops -> Stop]
  BY DEF Shape, TypeOK
<1>2. ASSUME NEW d \in Stops, StopUpdate(d)
      PROVE  \E s, status, stop, stage : UpdatedBy(s, status, stop, stage)
  <2> DEFINE v == IF stops[d].status \in Booting THEN stops[d].status ELSE "stopping"
  <2>1. UpdateMeetingStatus(stops[d].last, v, TRUE, NoStage)
    BY <1>2 DEF StopUpdate
  <2>2. stops[d].last \in Sid0 /\ v \in RowStatus
    BY <1>1 DEF Stop, Booting, RowStatus, BotStatus
  <2> QED
    BY <2>1, <2>2 DEF UpdatedBy
<1>3. ASSUME NEW d \in Stops, Withdraw(d)
      PROVE  /\ row.status # "absent"
             /\ row' = [row EXCEPT !.withdrawn = TRUE, !.stop = TRUE,
                          !.status = IF @ \in Terminal THEN @ ELSE "stopping"]
  BY <1>3 DEF Withdraw
<1>4. ASSUME NEW d \in Stops, StopStep(d)
      PROVE  row' = row \/ StopUpdate(d) \/ Withdraw(d)
  BY <1>4 DEF StopStep, StopFind, StopListSessions, StopFault, StopPublish, StopKill
<1>5. ASSUME NEW c \in calls, CallPersist(c)
      PROVE  \E s, status, stop, stage : UpdatedBy(s, status, stop, stage)
  <2>1. UpdateMeetingStatus(c.sid, c.new.status, c.new.stop, c.new.stage)
    BY <1>5 DEF CallPersist
  <2>2. c \in Call /\ c.new \in Record /\ c.new.status \in BotStatus /\ c.sid \in Sid0
    BY <1>1, <1>5 DEF CallPersist, Shape, AdvanceHasStatus, Call, Sid0
  <2>3. c.new.status \in RowStatus /\ c.new.stop \in BOOLEAN /\ c.new.stage \in {NoStage} \cup FailureStage
    BY <2>2 DEF Record, RowStatus
  <2> QED
    BY <2>1, <2>2, <2>3 DEF UpdatedBy
<1>6. ASSUME NEW c \in calls, CallStep(c)
      PROVE  row' = row \/ CallPersist(c)
  BY <1>6 DEF CallStep, CallReadStatus, CallRehydrate, CallReadStop, CallApply,
     CallPersistFails, CallSettle
<1> QED
  BY <1>2, <1>3, <1>4, <1>5, <1>6
  DEF Next, BotStep, KernelStep, SweepStep, Restart, durable

\* A POST /bots is begun once.
LEMMA BegunStays ==
  ASSUME Shape, Next, NEW s \in Sids
  PROVE  /\ spawn[s] # "idle" => spawn'[s] # "idle"
         /\ spawn'[s] = "reopen" => spawn[s] = "reopen" \/ SpawnStep(s)
<1>1. ASSUME NEW t \in Sids, SpawnStep(t)
      PROVE  /\ spawn[s] # "idle" => spawn'[s] # "idle"
             /\ spawn'[s] = "reopen" => spawn[s] = "reopen" \/ SpawnStep(s)
  BY <1>1, SpawnMoves DEF SpawnEdge
<1>2. CASE Restart
  BY <1>2 DEF Restart
<1>3. CASE UNCHANGED spawn
  BY <1>3
<1> QED
  BY <1>1, <1>2, <1>3
  DEF Next, BotStep, StopStep, CallStep, KernelStep, SweepStep, requests

-----------------------------------------------------------------------------
(* A withdrawn row. *)

\* A withdrawal finds a row, a row has a POST /bots behind it, and one that is
\* reopened had another.
Reopening ==
  /\ row.status = "absent" => ~row.withdrawn
  /\ row.status # "absent" => \E s \in Sids : spawn[s] # "idle"
  /\ \A s \in Sids : spawn[s] = "reopen" => Continued

LEMMA NextReopening ==
  ASSUME Shape, Reopening, WithdrawnNeverLive, Next
  PROVE  Reopening' /\ WithdrawnNeverLive'
<1>1. row \in Row /\ TypeOK
  BY DEF Shape, TypeOK
<1>2. Continued => Continued'
  BY BegunStays DEF Continued
<1>3. ASSUME NEW s \in Sids, SpawnStep(s)
      PROVE  Reopening' /\ WithdrawnNeverLive'
  <2>1. spawn'[s] # "idle"
    BY <1>3, SpawnMoves DEF SpawnEdge
  <2>2. ASSUME NEW t \in Sids, spawn'[t] = "reopen"
        PROVE  Continued'
    <3>1. CASE spawn[t] = "reopen"
      BY <1>2, <3>1 DEF Reopening
    <3>2. CASE spawn[t] # "reopen"
      <4>1. t = s /\ spawn[s] = "idle" /\ row.status \in Terminal
        BY <1>3, <2>2, <3>2, SpawnMoves, SpawnRows DEF SpawnEdge
      <4>2. PICK u \in Sids : spawn[u] # "idle"
        BY <4>1 DEF Reopening, Terminal
      <4>3. u # s /\ spawn'[u] # "idle"
        BY <4>1, <4>2, BegunStays
      <4> QED
        BY <2>1, <4>3 DEF Continued
    <3> QED
      BY <3>1, <3>2
  <2>3. CASE row' = row
    BY <1>2, <2>1, <2>2, <2>3 DEF Reopening, WithdrawnNeverLive
  <2>4. CASE row.status = "absent" /\ row' = [row EXCEPT !.status = "requested"]
    BY <1>1, <2>1, <2>2, <2>4 DEF Reopening, WithdrawnNeverLive, Row
  <2>5. CASE /\ spawn[s] = "reopen"
             /\ row' = [row EXCEPT !.status = "requested", !.container = NoSid, !.stage = NoStage]
    BY <1>1, <1>2, <2>1, <2>2, <2>5 DEF Reopening, WithdrawnNeverLive, Row
  <2>6. CASE row' = [row EXCEPT !.status = "failed", !.stage = "runtime_spawn"]
    BY <1>1, <2>1, <2>2, <2>6 DEF Reopening, WithdrawnNeverLive, Row, Terminal
  <2>7. CASE row' = [row EXCEPT !.container = s]
    <3>1. row'.status = row.status /\ row'.withdrawn = row.withdrawn
      BY <1>1, <2>7 DEF Row
    <3> QED
      BY <1>2, <2>1, <2>2, <3>1 DEF Reopening, WithdrawnNeverLive
  <2> QED
    BY <1>3, <2>3, <2>4, <2>5, <2>6, <2>7, SpawnRows DEF SpawnRow
<1>4. CASE \A s \in Sids : ~SpawnStep(s)
  <2>1. ASSUME NEW s \in Sids, spawn'[s] = "reopen"
        PROVE  Continued'
    BY <1>2, <1>4, <2>1, BegunStays DEF Reopening
  <2>2. row.status # "absent" => \E s \in Sids : spawn'[s] # "idle"
    BY BegunStays DEF Reopening
  <2>3. CASE row' = row
    BY <1>2, <2>1, <2>2, <2>3 DEF Reopening, WithdrawnNeverLive
  <2>4. ASSUME NEW s, NEW status, NEW stop, NEW stage, UpdatedBy(s, status, stop, stage)
        PROVE  Reopening' /\ WithdrawnNeverLive'
    <3>1. CASE ~Known(s)
      BY <2>3, <2>4, <3>1 DEF UpdatedBy, UpdateMeetingStatus
    <3>2. CASE Known(s)
      <4>1. sessions # <<>> /\ row.status # "absent"
        BY <1>1, <3>2 DEF Known, TypeOK, Shape, RowFirst
      <4>2. row'.status = StatusKept(status) /\ row'.withdrawn = row.withdrawn
        BY <1>1, <2>4, <3>2 DEF UpdatedBy, UpdateMeetingStatus, Row
      <4>3. row.withdrawn => StatusKept(status) \in Terminal \cup {"stopping"}
        BY DEF StatusKept, Suppressed
      <4>4. row'.status # "absent"
        BY <2>4, <4>2 DEF UpdatedBy, StatusKept, Terminal, RowStatus, BotStatus
      <4> QED
        BY <2>1, <2>2, <4>1, <4>2, <4>3, <4>4 DEF Reopening, WithdrawnNeverLive
    <3> QED
      BY <3>1, <3>2
  <2>5. CASE /\ row.status # "absent"
             /\ row' = [row EXCEPT !.withdrawn = TRUE, !.stop = TRUE,
                          !.status = IF @ \in Terminal THEN @ ELSE "stopping"]
    <3>1. row'.status \in Terminal \cup {"stopping"} /\ row'.status # "absent"
      BY <1>1, <2>5 DEF Row, Terminal
    <3> QED
      BY <2>1, <2>2, <2>5, <3>1 DEF Reopening, WithdrawnNeverLive
  <2> QED
    BY <1>4, <2>3, <2>4, <2>5, OthersWriteRow
<1> QED
  BY <1>3, <1>4

\* A withdrawn row shows no live status, whatever calls, stops, sweeps and spawns
\* race over it and however many fail; a second POST /bots shows its request only.
THEOREM WithdrawnStaysDown == Spec => []WithdrawnNeverLive
<1> DEFINE I == Shape /\ Reopening /\ WithdrawnNeverLive
<1>1. Init => I
  <2> SUFFICES ASSUME Init PROVE I
    OBVIOUS
  <2>1. Shape
    BY InitShape
  <2> QED
    BY <2>1 DEF Init, Reopening, WithdrawnNeverLive
<1>2. I /\ [Next]_vars => I'
  <2> SUFFICES ASSUME I, [Next]_vars PROVE I'
    OBVIOUS
  <2>1. Shape'
    BY NextShape
  <2>2. CASE Next
    BY <2>1, <2>2, NextReopening
  <2>3. CASE UNCHANGED vars
    BY <2>1, <2>3 DEF vars, durable, requests, Reopening, WithdrawnNeverLive, Continued
  <2> QED
    BY <2>2, <2>3
<1>3. I => WithdrawnNeverLive
  OBVIOUS
<1> QED
  BY <1>1, <1>2, <1>3, PTL DEF Spec

-----------------------------------------------------------------------------
(* What one step of a lifecycle call does, told apart by where the call is. *)

\* What a call carries from the moment it came in.
SameCall(c, d) ==
  /\ d.src = c.src /\ d.from = c.from /\ d.sid = c.sid /\ d.ev = c.ev
  /\ d.on = c.on /\ d.asked = c.asked

\* It reads the row, and may seed a record that has no status yet.
Reads(c) ==
  /\ c.pc \in {"read_status", "rehydrate", "read_stop"}
  /\ \E d \in Call :
       /\ Move(c, d) /\ SameCall(c, d) /\ d.pc \in {"rehydrate", "read_stop", "apply"}
       /\ d.new = c.new /\ d.shown = c.shown /\ d.held = c.held
       /\ d.pc = "apply" => /\ c.pc = "read_stop"
                            /\ d.intent = StopBySession(c.sid) \/ Fail("db")
  /\ \E x \in Record :
       /\ rec' = [rec EXCEPT ![c.on][c.sid] = x]
       /\ rec[c.on][c.sid].status # NoStatus => x = rec[c.on][c.sid]
  /\ UNCHANGED announced

\* The event meets the record `before`.
Meets(c, before, force) ==
  /\ c.pc \in {"rehydrate", "apply"}
  /\ c.pc = "rehydrate" => c.ev.status \notin Terminal
  /\ c.pc = "apply" /\ c.intent => before.stop
  /\ rec[c.on][c.sid].status # NoStatus => before.status = rec[c.on][c.sid].status
  /\ rec' = [rec EXCEPT ![c.on][c.sid] = ApplyChange(before, c.ev, force)]
  /\ UNCHANGED announced
  /\ \/ /\ Outcome(before, c.ev, force) = "advanced"
        /\ \E d \in Call : /\ Move(c, d) /\ SameCall(c, d) /\ d.pc = "persist"
                           /\ d.new = ApplyChange(before, c.ev, force)
                           /\ d.shown = c.shown /\ d.held = c.held
     \/ /\ Outcome(before, c.ev, force) # "advanced"
        /\ calls' = calls \ {c}

\* It writes the row, or fails to.
Writes(c) ==
  /\ c.pc = "persist"
  /\ \E d \in Call : /\ Move(c, d) /\ SameCall(c, d) /\ d.pc = "settle"
                     /\ d.new = c.new /\ d.held = c.held
                     /\ d.shown = "withdrawn" => row.withdrawn \/ c.shown = "withdrawn"
  /\ UNCHANGED <<rec, announced>>

LEMMA ApplyMeets ==
  ASSUME Shape, NEW c \in calls, NEW before \in Record, Apply(c, before),
         UNCHANGED announced, c.pc \in {"rehydrate", "apply"},
         c.pc = "rehydrate" => c.ev.status \notin Terminal,
         c.pc = "apply" /\ c.intent => before.stop,
         rec[c.on][c.sid].status # NoStatus => before.status = rec[c.on][c.sid].status
  PROVE  \E b \in Record, force \in BOOLEAN : Meets(c, b, force)
<1> DEFINE force == c.src # "bot" \/ before.stop \/ c.persisted = "stopping"
           after == ApplyChange(before, c.ev, force)
           kept  == IF after.status \in Terminal THEN NewRecord ELSE before
           moved == [c EXCEPT !.pc = "persist", !.persisted = NoStatus,
                              !.intent = FALSE, !.new = after, !.old = kept]
<1>1. c \in Call /\ c.ev \in Event
  BY DEF Shape, TypeOK, Call
<1>2. force \in BOOLEAN
  OBVIOUS
<1>3. rec' = [rec EXCEPT ![c.on][c.sid] = after]
  BY DEF Apply
<1>4. CASE Outcome(before, c.ev, force) = "advanced"
  <2>1. Move(c, moved)
    BY <1>4 DEF Apply
  <2> HIDE DEF force
  <2>2. after \in Record
    BY <1>1, <1>2, ApplyChangeType
  <2>3. kept \in Record
    BY DEF NewRecord, Record
  <2> HIDE DEF after, kept
  <2>4. moved \in Call /\ SameCall(c, moved) /\ moved.pc = "persist" /\ moved.new = after
        /\ moved.shown = c.shown /\ moved.held = c.held
    BY <1>1, <2>2, <2>3 DEF Call, CallPc, SameCall, NoStatus
  <2> HIDE DEF moved
  <2>5. \E d \in Call : /\ Move(c, d) /\ SameCall(c, d) /\ d.pc = "persist"
                        /\ d.new = after /\ d.shown = c.shown /\ d.held = c.held
    BY <2>1, <2>4
  <2> QED
    BY <1>2, <1>3, <1>4, <2>5 DEF Meets, after
<1>5. CASE Outcome(before, c.ev, force) # "advanced"
  <2>1. calls' = calls \ {c}
    BY <1>5 DEF Apply, Finish
  <2> HIDE DEF force
  <2> QED
    BY <1>2, <1>3, <1>5, <2>1 DEF Meets
<1> QED
  BY <1>4, <1>5

LEMMA CallOutcome ==
  ASSUME Shape, NEW c \in calls, CallStep(c)
  PROVE  \/ Reads(c)
         \/ \E before \in Record, force \in BOOLEAN : Meets(c, before, force)
         \/ Writes(c)
         \/ CallSettle(c)
<1> DEFINE live == rec[c.on][c.sid]
<1>1. /\ c \in Call /\ c.on \in Replicas /\ c.sid \in Sids /\ live \in Record
      /\ rec \in [Replicas -> [Sids -> Record]] /\ TypeOK /\ RowFirst
  BY DEF Shape, TypeOK, Call
<1>2. rec = [rec EXCEPT ![c.on][c.sid] = live]
  BY <1>1
<1>3. CASE CallReadStatus(c)
  <2>1. PICK seen \in {StatusBySession(c.sid), NoStatus} :
          Move(c, [c EXCEPT !.persisted = seen,
                     !.pc = IF live.status = NoStatus THEN "rehydrate" ELSE "read_stop"])
    BY <1>3 DEF CallReadStatus
  <2> DEFINE pc == IF live.status = NoStatus THEN "rehydrate" ELSE "read_stop"
             d  == [c EXCEPT !.persisted = seen, !.pc = pc]
  <2>2. seen \in {NoStatus} \cup RowStatus
    BY <1>1, <2>1, StatusReadType
  <2>3. pc \in {"rehydrate", "read_stop"}
    OBVIOUS
  <2>4. Move(c, d)
    BY <2>1
  <2> HIDE DEF pc
  <2>5. d \in Call /\ SameCall(c, d) /\ d.pc = pc /\ d.new = c.new
        /\ d.shown = c.shown /\ d.held = c.held
    BY <1>1, <2>2, <2>3 DEF Call, CallPc, SameCall
  <2> HIDE DEF d
  <2> QED
    BY <1>1, <1>2, <1>3, <2>3, <2>4, <2>5 DEF CallReadStatus, Reads
<1>4. CASE CallRehydrate(c)
  <2> DEFINE seeded == Rehydrate(live, c.persisted)
  <2>1. seeded \in Record
    BY <1>1, RehydrateType
  <2>2. live.status # NoStatus => seeded = live
    BY DEF Rehydrate
  <2>3. CASE c.ev.status \in Terminal
    <3> DEFINE d == [c EXCEPT !.pc = "read_stop"]
    <3>1. Move(c, d) /\ rec' = [rec EXCEPT ![c.on][c.sid] = seeded]
      BY <1>4, <2>3 DEF CallRehydrate
    <3>2. d \in Call /\ SameCall(c, d) /\ d.pc = "read_stop" /\ d.new = c.new
          /\ d.shown = c.shown /\ d.held = c.held
      BY <1>1 DEF Call, CallPc, SameCall
    <3> HIDE DEF d, seeded
    <3> QED
      BY <1>4, <2>1, <2>2, <3>1, <3>2 DEF CallRehydrate, Reads
  <2>4. CASE c.ev.status \notin Terminal
    <3>1. Apply(c, seeded) /\ c.pc = "rehydrate" /\ UNCHANGED announced
      BY <1>4, <2>4 DEF CallRehydrate
    <3> HIDE DEF seeded
    <3>2. rec[c.on][c.sid].status # NoStatus => seeded.status = rec[c.on][c.sid].status
      BY <2>2
    <3> QED
      BY <2>1, <2>4, <3>1, <3>2, ApplyMeets
  <2> QED
    BY <2>3, <2>4
<1>5. CASE CallReadStop(c)
  <2>1. PICK intent \in {StopBySession(c.sid), FALSE} :
          /\ IF intent = StopBySession(c.sid) THEN UNCHANGED faults ELSE Fail("db")
          /\ Move(c, [c EXCEPT !.intent = intent, !.pc = "apply"])
    BY <1>5 DEF CallReadStop
  <2>2. intent \in BOOLEAN
    BY <1>1, <2>1, StatusReadType
  <2> DEFINE d == [c EXCEPT !.intent = intent, !.pc = "apply"]
  <2>3. d \in Call /\ SameCall(c, d) /\ d.pc = "apply" /\ d.new = c.new
        /\ d.shown = c.shown /\ d.held = c.held /\ d.intent = intent
    BY <1>1, <2>2 DEF Call, CallPc, SameCall
  <2>4. Move(c, d) /\ (d.intent = StopBySession(c.sid) \/ Fail("db"))
    BY <2>1, <2>3
  <2> HIDE DEF d
  <2> QED
    BY <1>1, <1>2, <1>5, <2>3, <2>4 DEF CallReadStop, Reads
<1>6. CASE CallApply(c)
  <2> DEFINE before == [live EXCEPT !.stop = @ \/ c.intent]
  <2>1. (live.stop \/ c.intent) \in BOOLEAN
    OBVIOUS
  <2>2. before \in Record /\ before.status = live.status
    BY <1>1, <2>1 DEF Record
  <2>3. c.intent => before.stop
    BY <1>1 DEF Record
  <2>4. Apply(c, before) /\ c.pc = "apply" /\ UNCHANGED announced
    BY <1>6 DEF CallApply
  <2> HIDE DEF before
  <2> QED
    BY <2>2, <2>3, <2>4, ApplyMeets
<1>7. CASE CallPersist(c)
  <2> DEFINE seen == IF ~Known(c.sid) THEN "nothing"
                     ELSE IF row.withdrawn THEN "withdrawn" ELSE "row"
             d == [c EXCEPT !.pc = "settle", !.shown = seen]
  <2>1. Move(c, d)
    BY <1>7 DEF CallPersist
  <2>2. seen \in {"nothing", "row", "withdrawn"} /\ (seen = "withdrawn" => row.withdrawn)
    OBVIOUS
  <2> HIDE DEF seen
  <2>3. d \in Call /\ SameCall(c, d) /\ d.pc = "settle" /\ d.new = c.new
        /\ d.held = c.held /\ d.shown = seen
    BY <1>1, <2>2 DEF Call, CallPc, SameCall
  <2> HIDE DEF d
  <2> QED
    BY <1>7, <2>1, <2>2, <2>3 DEF CallPersist, Writes
<1>8. CASE CallPersistFails(c)
  <2> DEFINE d == [c EXCEPT !.pc = "settle"]
  <2>1. Move(c, d)
    BY <1>8 DEF CallPersistFails
  <2>2. d \in Call /\ SameCall(c, d) /\ d.pc = "settle" /\ d.new = c.new
        /\ d.held = c.held /\ d.shown = c.shown
    BY <1>1 DEF Call, CallPc, SameCall
  <2> HIDE DEF d
  <2> QED
    BY <1>8, <2>1, <2>2 DEF CallPersistFails, Writes
<1> QED
  BY <1>3, <1>4, <1>5, <1>6, <1>7, <1>8 DEF CallStep

\* Any other step adds calls that have just come in, and leaves the rest alone
\* unless it is a restart, which drops them all.
Arrives(c) ==
  /\ c \in Call /\ c.pc \in {"read_status", "apply"}
  /\ c.pc = "apply" => c.ev.status \notin Terminal /\ rec[c.on][c.sid].status # NoStatus
  /\ c.asked = StopBySession(c.sid) /\ c.shown = "nothing"
  /\ c.persisted = NoStatus /\ ~c.intent /\ c.new = NewRecord
  /\ UNCHANGED <<row, sessions, rec, announced>>

LEMMA ReceivedArrives ==
  ASSUME Shape, UNCHANGED <<row, sessions, rec, announced>>,
         NEW src \in {"bot", "runtime", "sweep", "presumed"}, NEW from \in Sid0,
         NEW attempt \in Nat, NEW s \in Sids, NEW ev \in Event, NEW r \in Replicas
  PROVE  Arrives(Received(src, from, attempt, s, ev, r))
<1>1. Received(src, from, attempt, s, ev, r) \in Call
  BY ReceivedType DEF Shape
<1> QED
  BY <1>1 DEF Received, Arrives

LEMMA RuntimeEventType ==
  ASSUME Shape
  PROVE  RuntimeEvent \in Event
<1>1. row.stop \in BOOLEAN
  BY DEF Shape, TypeOK, Row
<1>2. CASE row.status \in Booting
  <2>1. RuntimeEvent = [status |-> "failed", stop |-> row.stop]
    BY <1>2 DEF RuntimeEvent
  <2> QED
    BY <1>1, <2>1 DEF Event, BotStatus
<1>3. CASE row.status \notin Booting
  <2> DEFINE stopped == row.status = "stopping"
  <2>1. stopped \in BOOLEAN
    OBVIOUS
  <2>2. RuntimeEvent = [status |-> "completed", stop |-> stopped]
    BY <1>3 DEF RuntimeEvent
  <2> HIDE DEF stopped
  <2> QED
    BY <2>1, <2>2 DEF Event, BotStatus
<1> QED
  BY <1>2, <1>3

LEMMA OtherCalls ==
  ASSUME Shape, Next, \A c \in calls : ~CallStep(c), NEW d \in calls'
  PROVE  d \in calls \/ Arrives(d)
<1>1. TypeOK
  BY DEF Shape
<1>2. ASSUME NEW s \in Sids, NEW r \in Replicas, BotPost(s, r), BotStep(s)
      PROVE  d \in calls \/ Arrives(d)
  <2> DEFINE ev == [status |-> bot[s].out, stop |-> FALSE]
  <2>1. ev \in Event /\ bot[s].attempt + 1 \in Nat
    BY <1>1, <1>2 DEF BotPost, TypeOK, Bot, Event
  <2>2. d \in calls \/ d = Received("bot", s, bot[s].attempt + 1, s, ev, r)
    BY <1>2 DEF BotPost
  <2> HIDE DEF ev
  <2>3. UNCHANGED <<row, sessions, rec, announced>>
    BY <1>2 DEF BotStep, durable
  <2> QED
    BY <2>1, <2>2, <2>3, ReceivedArrives DEF Sid0
<1>3. ASSUME NEW s \in Sids, NEW r \in Replicas, RuntimeCallback(s, r), KernelStep
      PROVE  d \in calls \/ Arrives(d)
  <2>1. \/ d \in calls
        \/ sessions # <<>> /\ d = Received("runtime", s, 0, LastSession, RuntimeEvent, r)
    BY <1>3 DEF RuntimeCallback
  <2>2. UNCHANGED <<row, sessions, rec, announced>>
    BY <1>3 DEF KernelStep, durable, history
  <2>3. sessions # <<>> => LastSession \in Sids
    BY <1>1, SessionsAreSids DEF TypeOK
  <2> QED
    BY <2>1, <2>2, <2>3, RuntimeEventType, ReceivedArrives DEF Sid0
<1>4. ASSUME NEW r \in Replicas, SweepPost(r), SweepStep
      PROVE  d \in calls \/ Arrives(d)
  <2> DEFINE src == IF sweep.presumed THEN "presumed" ELSE "sweep"
  <2>1. d \in calls \/ d = Received(src, sweep.container, 0, sweep.sid, SweepEvent, r)
    BY <1>4 DEF SweepPost
  <2>2. UNCHANGED <<row, sessions, rec, announced>>
    BY <1>4 DEF SweepStep, durable, history
  <2>3. sweep.sid \in Sids /\ sweep.container \in Sid0 /\ sweep.stop \in BOOLEAN
    BY <1>1, <1>4 DEF Shape, SweepHasSession, SweepPost, TypeOK, Sweep
  <2>4. SweepEvent \in Event
    BY <2>3 DEF SweepEvent, Event, BotStatus
  <2>5. src \in {"bot", "runtime", "sweep", "presumed"}
    OBVIOUS
  <2> HIDE DEF src
  <2> QED
    BY <2>1, <2>2, <2>3, <2>4, <2>5, ReceivedArrives
<1>5. CASE calls' \subseteq calls
  BY <1>5
<1> QED
  BY <1>2, <1>3, <1>4, <1>5
  DEF Next, SpawnStep, BotStep, BotReport, BotPostLost, BotGiveUp, BotExit,
      StopStep, KernelStep, KernelReap, RuntimeCallbackLost, KernelRestart,
      SweepStep, SweepList, SweepPass, SweepProbe, SweepTeardown, Restart, memory

\* The counts of what went wrong only grow.
LEMMA FaultsGrow ==
  ASSUME Shape, Next, NEW kind \in FaultKind
  PROVE  /\ faults[kind] \in Nat /\ faults'[kind] \in Nat
         /\ faults[kind] <= faults'[kind]
         /\ Fail(kind) => faults'[kind] = faults[kind] + 1
<1>1. faults \in [FaultKind -> Nat]
  BY DEF Shape, TypeOK
<1>2. Shape'
  BY NextShape
<1>3. faults' \in [FaultKind -> Nat]
  BY <1>2 DEF Shape, TypeOK
<1>4. ASSUME NEW k \in FaultKind, Fail(k)
      PROVE  /\ faults[kind] <= faults'[kind]
             /\ k = kind => faults'[kind] = faults[kind] + 1
  BY <1>1, <1>4 DEF Fail
<1>5. UNCHANGED faults \/ \E k \in FaultKind : Fail(k)
  <2>1. ASSUME NEW s \in Sids, SpawnStep(s)
        PROVE  UNCHANGED faults \/ Fail("runtime") \/ Fail("db")
    BY <2>1
    DEF SpawnStep, SpawnInsert, SpawnContinue, SpawnReopen, SpawnCreate,
        SpawnRefused, SpawnReject, SpawnTransportError, SpawnCreateSession,
        SpawnSetContainer, SpawnDbFault, SpawnTeardown, SpawnRaceCheck,
        BestEffortDelete
  <2>2. ASSUME NEW d \in Stops, StopStep(d)
        PROVE  UNCHANGED faults \/ Fail("runtime") \/ Fail("db") \/ Fail("withdraw")
    BY <2>2
    DEF StopStep, StopFind, StopListSessions, StopUpdate, StopFault,
        StopPublish, StopKill, Withdraw, BestEffortDelete
  <2>3. ASSUME NEW c \in calls, CallStep(c)
        PROVE  UNCHANGED faults \/ Fail("db")
    BY <2>3
    DEF CallStep, CallReadStatus, CallRehydrate, CallReadStop, CallApply,
        CallPersist, CallPersistFails, CallSettle
  <2>4. CASE KernelStep
    BY <2>4
    DEF KernelStep, KernelReap, RuntimeCallback, RuntimeCallbackLost,
        KernelRestart, FaultKind
  <2>5. CASE SweepStep
    BY <2>5
    DEF SweepStep, SweepList, SweepPass, SweepProbe, SweepTeardown, SweepPost,
        FaultKind
  <2> QED
    BY <2>1, <2>2, <2>3, <2>4, <2>5 DEF Next, BotStep, Restart, FaultKind
<1> QED
  BY <1>1, <1>3, <1>4, <1>5

\* A session, once inserted, stays known.
LEMMA KnownStays ==
  ASSUME Shape, Next, NEW s \in Sids, Known(s)
  PROVE  Known(s)'
<1>1. sessions \in Seq(Sids)
  BY DEF Shape, TypeOK
<1>2. ASSUME NEW t \in Sids, SpawnCreateSession(t)
      PROVE  Known(s)'
  <2>1. PICK i \in 1..Len(sessions) : sessions[i] = s
    BY DEF Known
  <2>2. sessions' = Append(sessions, t)
    BY <1>2 DEF SpawnCreateSession
  <2>3. i \in 1..Len(sessions') /\ sessions'[i] = s
    BY <1>1, <2>1, <2>2
  <2> QED
    BY <2>3 DEF Known
<1>3. CASE sessions' = sessions
  BY <1>3 DEF Known
<1> QED
  BY <1>2, <1>3
  DEF Next, SpawnStep, SpawnInsert, SpawnContinue, SpawnReopen, SpawnCreate,
      SpawnRefused, SpawnReject, SpawnTransportError, SpawnSetContainer,
      SpawnDbFault, SpawnTeardown, SpawnRaceCheck, BotStep, StopStep, CallStep,
      KernelStep, SweepStep, Restart, durable

\* The stop intent stays on the row.
LEMMA StopStays ==
  ASSUME Shape, Next, row.stop
  PROVE  row'.stop
<1>1. row \in Row
  BY DEF Shape, TypeOK
<1>2. ASSUME NEW s \in Sids, SpawnStep(s)
      PROVE  row'.stop
  BY <1>1, <1>2, SpawnRows DEF SpawnRow, Row
<1>3. ASSUME NEW s, NEW status, NEW stop, NEW stage, UpdatedBy(s, status, stop, stage)
      PROVE  row'.stop
  BY <1>1, <1>3 DEF UpdatedBy, UpdateMeetingStatus, Row
<1>4. CASE row' = [row EXCEPT !.withdrawn = TRUE, !.stop = TRUE,
                      !.status = IF @ \in Terminal THEN @ ELSE "stopping"]
  BY <1>1, <1>4 DEF Row
<1> QED
  BY <1>2, <1>3, <1>4, OthersWriteRow

-----------------------------------------------------------------------------
(* A stop that was on the row when the event came in is what the run's end is *)
(* classified by: the intent is read again, and it cannot have gone.          *)

AskedFor ==
  \A c \in calls :
    c.asked => /\ Known(c.sid) /\ row.stop
               /\ faults.db = 0 /\ c.pc = "apply" /\ c.ev.status \in Terminal
                    => c.intent

Asking == Shape /\ AskedFor /\ StopIsNotAFailure

LEMMA AskedArrives ==
  ASSUME Shape, NEW d, Arrives(d), d.asked
  PROVE  /\ Known(d.sid) /\ row.stop
         /\ ~(d.pc = "apply" /\ d.ev.status \in Terminal)
  BY DEF Arrives, StopBySession

\* An advance of a run whose stop was asked for fails it only while active.
LEMMA StoppedAdvance ==
  ASSUME NEW old \in Record, NEW ev \in Event, NEW force \in BOOLEAN,
         ev.status \in Terminal => old.stop,
         Outcome(old, ev, force) = "advanced",
         ApplyChange(old, ev, force).status = "failed"
  PROVE  ApplyChange(old, ev, force).stage = "active"
<1> DEFINE to    == TargetStatus(old, ev)
           noted == NoteStop(old, ev)
           ends  == \/ to = "failed"
                    \/ to = "completed" /\ noted.stop /\ old.status # "active"
<1>1. noted \in Record
  BY DEF NoteStop, Record, Event
<1>2. ApplyChange(old, ev, force)
        = [noted EXCEPT !.status = to,
                        !.stage = IF ends THEN StageReached(old.status) ELSE old.stage]
  BY DEF ApplyChange
<1>3. to = "failed"
  BY <1>1, <1>2 DEF Record
<1>4. ev.status = "failed"
  BY <1>3 DEF TargetStatus
<1>5. old.status \in {"active", "failed"}
  BY <1>3, <1>4 DEF TargetStatus, Terminal
<1>6. old.status = "active"
  BY <1>3, <1>5 DEF Outcome
<1>7. ApplyChange(old, ev, force).stage = StageReached(old.status)
  BY <1>1, <1>2, <1>3 DEF Record
<1> QED
  BY <1>6, <1>7 DEF StageReached, NoStatus

LEMMA CallStepAsking ==
  ASSUME Asking, Next, NEW c \in calls, CallStep(c), NEW d \in calls', d.asked
  PROVE  /\ Known(d.sid) /\ row.stop
         /\ faults'.db = 0 /\ d.pc = "apply" /\ d.ev.status \in Terminal => d.intent
         /\ faults'.db = 0 /\ d.pc = "persist" /\ d.new.status = "failed"
              => d.new.stage = "active"
<1> DEFINE Goal(e) ==
      /\ Known(e.sid) /\ row.stop
      /\ faults'.db = 0 /\ e.pc = "apply" /\ e.ev.status \in Terminal => e.intent
      /\ faults'.db = 0 /\ e.pc = "persist" /\ e.new.status = "failed"
           => e.new.stage = "active"
<1>1. Shape /\ calls \subseteq Call /\ rec \in [Replicas -> [Sids -> Record]]
  BY DEF Asking, Shape, TypeOK
<1>2. faults'.db = 0 => faults.db = 0 /\ ~Fail("db")
  BY <1>1, FaultsGrow DEF FaultKind
<1>3. ASSUME NEW e \in calls, e.asked
      PROVE  Goal(e)
  BY <1>2, <1>3 DEF Asking, AskedFor, StopIsNotAFailure
<1>4. CASE d \in calls
  BY <1>3, <1>4
<1>5. CASE Reads(c) /\ d \notin calls
  <2>1. SameCall(c, d) /\ d.pc \in {"rehydrate", "read_stop", "apply"}
        /\ (d.pc = "apply" => d.intent = StopBySession(c.sid) \/ Fail("db"))
    BY <1>5 DEF Reads, Move
  <2>2. Known(d.sid) /\ row.stop
    BY <1>3, <2>1 DEF SameCall
  <2> QED
    BY <1>2, <2>1, <2>2 DEF SameCall, StopBySession
<1>6. ASSUME NEW before \in Record, NEW force \in BOOLEAN, Meets(c, before, force),
             d \notin calls
      PROVE  Goal(d)
  <2>1. /\ SameCall(c, d) /\ d.pc = "persist"
        /\ d.new = ApplyChange(before, c.ev, force)
        /\ Outcome(before, c.ev, force) = "advanced"
    BY <1>6 DEF Meets, Move
  <2>2. Goal(c) /\ c.asked
    BY <1>3, <2>1 DEF SameCall
  <2>3. c.ev \in Event
    BY <1>1 DEF Call
  <2>4. faults'.db = 0 /\ c.ev.status \in Terminal => before.stop
    BY <1>6, <2>2 DEF Meets
  <2>5. faults'.db = 0 /\ d.new.status = "failed" => d.new.stage = "active"
    BY <2>1, <2>3, <2>4, StoppedAdvance
  <2> QED
    BY <2>1, <2>2, <2>5 DEF SameCall
<1>7. CASE Writes(c) /\ d \notin calls
  <2>1. SameCall(c, d) /\ d.pc = "settle"
    BY <1>7 DEF Writes, Move
  <2> QED
    BY <1>3, <2>1 DEF SameCall
<1>8. CASE CallSettle(c) /\ d \notin calls
  <2>1. calls' = Detach(c)
    BY <1>8 DEF CallSettle
  <2>2. PICK e \in calls : d = [e EXCEPT !.held = rec[c.on][c.sid].status]
    BY <1>8, <2>1 DEF Detach
  <2>3. /\ d.asked = e.asked /\ d.sid = e.sid /\ d.pc = e.pc /\ d.ev = e.ev
        /\ d.intent = e.intent /\ d.new = e.new
    BY <1>1, <2>2 DEF Call
  <2>4. Goal(e)
    BY <1>3, <2>3
  <2> QED
    BY <2>3, <2>4
<1> QED
  BY <1>1, <1>4, <1>5, <1>6, <1>7, <1>8, CallOutcome

LEMMA NextAsking ==
  ASSUME Asking, Next
  PROVE  AskedFor' /\ StopIsNotAFailure'
<1>1. Shape /\ calls \subseteq Call
  BY DEF Asking, Shape, TypeOK
<1>2. Shape' /\ calls' \subseteq Call
  BY <1>1, NextShape DEF Shape, TypeOK
<1>3. faults'.db = 0 => faults.db = 0
  BY <1>1, FaultsGrow DEF FaultKind
<1>4. ASSUME NEW d \in calls', d.asked
      PROVE  /\ Known(d.sid) /\ row.stop
             /\ faults'.db = 0 /\ d.pc = "apply" /\ d.ev.status \in Terminal
                  => d.intent
             /\ faults'.db = 0 /\ d.pc = "persist" /\ d.new.status = "failed"
                  => d.new.stage = "active"
  <2>1. CASE \E c \in calls : CallStep(c)
    BY <1>4, <2>1, CallStepAsking
  <2>2. CASE d \in calls
    BY <1>3, <1>4, <2>2 DEF Asking, AskedFor, StopIsNotAFailure
  <2>3. CASE Arrives(d)
    <3>1. d.pc # "persist"
      BY <2>3 DEF Arrives
    <3> QED
      BY <1>1, <1>4, <2>3, <3>1, AskedArrives
  <2> QED
    BY <1>1, <2>1, <2>2, <2>3, OtherCalls
<1>5. ASSUME NEW d \in calls', d.asked
      PROVE  Known(d.sid)' /\ row'.stop
  <2>1. d.sid \in Sids
    BY <1>2 DEF Call
  <2> QED
    BY <1>1, <1>4, <1>5, <2>1, KnownStays, StopStays
<1> QED
  BY <1>4, <1>5 DEF AskedFor, StopIsNotAFailure

\* A run whose user had asked for the stop before the event of its end came in is
\* not classified `failed` unless it fails while active, whoever reports the end,
\* in whatever order, and after whatever restarts and withdrawals: it takes rows
\* that can be read.
THEOREM StopIsHonoured == Spec => []StopIsNotAFailure
<1>1. Init => Asking
  <2> SUFFICES ASSUME Init PROVE Asking
    OBVIOUS
  <2>1. Shape
    BY InitShape
  <2> QED
    BY <2>1 DEF Init, Asking, AskedFor, StopIsNotAFailure
<1>2. Asking /\ [Next]_vars => Asking'
  <2> SUFFICES ASSUME Asking, [Next]_vars PROVE Asking'
    OBVIOUS
  <2>1. Shape'
    BY NextShape DEF Asking
  <2>2. CASE Next
    BY <2>1, <2>2, NextAsking DEF Asking
  <2>3. CASE UNCHANGED vars
    BY <2>1, <2>3 DEF vars, durable, memory, Asking, AskedFor, StopIsNotAFailure, Known
  <2> QED
    BY <2>2, <2>3
<1>3. Asking => StopIsNotAFailure
  BY DEF Asking
<1> QED
  BY <1>1, <1>2, <1>3, PTL DEF Spec

-----------------------------------------------------------------------------
(* The end of a run is announced once, by the call that moved the record to   *)
(* it: a record that has ended lets no other call get that far.               *)

Ending(c) == c.pc \in {"persist", "settle"} /\ c.new.status \in Terminal

\* Whoever is about to announce the end of a run, or has, has left its record ended.
EndedByOne ==
  /\ \A c \in calls : Ending(c) => /\ rec[c.on][c.sid].status \in Terminal
                                   /\ announced[c.sid] = 0
  /\ \A c, d \in calls : Ending(c) /\ Ending(d) /\ c.sid = d.sid => c = d
  /\ \A r \in Replicas, s \in Sids :
       announced[s] > 0 => rec[r][s].status \in Terminal
  /\ \A s \in Sids : announced[s] <= 1

Announcing == Untaken /\ (faults.restart = 0 => EndedByOne)

OneReplica == \A q, r \in Replicas : q = r

LEMMA AdvanceStarts ==
  ASSUME NEW old \in Record, NEW ev \in Event, NEW force \in BOOLEAN,
         Outcome(old, ev, force) = "advanced"
  PROVE  old.status \notin Terminal
  BY DEF Outcome

LEMMA CallStepAnnounces ==
  ASSUME Untaken, EndedByOne, OneReplica, NEW c \in calls, CallStep(c),
         \A r \in Replicas, s \in Sids :
           rec[r][s].status \in Terminal => rec'[r][s].status = rec[r][s].status
  PROVE  EndedByOne'
<1>1. /\ Shape /\ TypeOK /\ NoWithdrawal /\ calls \subseteq Call
      /\ rec \in [Replicas -> [Sids -> Record]] /\ announced \in [Sids -> 0..2]
      /\ c \in Call /\ c.on \in Replicas /\ c.sid \in Sids /\ c.ev \in Event
  BY DEF Untaken, Shape, TypeOK, Call
<1>2. ASSUME NEW e \in calls, Ending(e)
      PROVE  /\ e.on = c.on /\ e.on \in Replicas /\ e.sid \in Sids
             /\ announced[e.sid] = 0 /\ rec[e.on][e.sid].status \in Terminal
             /\ rec'[e.on][e.sid].status \in Terminal
  <2>1. e.on \in Replicas /\ e.sid \in Sids
    BY <1>1, <1>2 DEF Call
  <2> QED
    BY <1>1, <1>2, <2>1 DEF EndedByOne, OneReplica
<1>3. CASE Reads(c)
  <2>1. PICK d : calls' = (calls \ {c}) \cup {d} /\ d.pc \notin {"persist", "settle"}
    BY <1>3 DEF Reads, Move
  <2>2. UNCHANGED announced /\ ~Ending(d)
    BY <1>3, <2>1 DEF Reads, Ending
  <2> QED
    BY <1>2, <2>1, <2>2 DEF EndedByOne, Ending
<1>4. ASSUME NEW before \in Record, NEW force \in BOOLEAN, Meets(c, before, force)
      PROVE  EndedByOne'
  <2>1. UNCHANGED announced /\ rec' = [rec EXCEPT ![c.on][c.sid] = ApplyChange(before, c.ev, force)]
    BY <1>4 DEF Meets
  <2>2. CASE calls' = calls \ {c}
    BY <1>2, <2>1, <2>2 DEF EndedByOne, Ending
  <2>3. CASE calls' # calls \ {c}
    <3>1. Outcome(before, c.ev, force) = "advanced"
      BY <1>4, <2>3 DEF Meets
    <3>2. PICK d \in Call : /\ calls' = (calls \ {c}) \cup {d}
                            /\ d.on = c.on /\ d.sid = c.sid
                            /\ d.new = ApplyChange(before, c.ev, force)
      BY <1>4, <2>3 DEF Meets, Move, SameCall
    <3>3. rec[c.on][c.sid].status \notin Terminal
      <4>1. before.status \notin Terminal
        BY <1>1, <3>1, AdvanceStarts
      <4> QED
        BY <1>4, <4>1 DEF Meets, NoStatus, Terminal
    <3>4. \A e \in calls : Ending(e) => e.sid # c.sid
      BY <1>2, <3>3
    <3>5. announced[c.sid] = 0
      BY <1>1, <3>3 DEF EndedByOne
    <3>6. rec'[c.on][c.sid] = d.new
      BY <1>1, <2>1, <3>2
    <3>7. Ending(d) => rec'[d.on][d.sid].status \in Terminal
      BY <3>2, <3>6 DEF Ending
    <3> HIDE DEF Ending
    <3>8. \A e \in calls' : Ending(e) =>
            rec'[e.on][e.sid].status \in Terminal /\ announced'[e.sid] = 0
      BY <1>2, <2>1, <3>2, <3>5, <3>7
    <3>9. \A e, f \in calls' : Ending(e) /\ Ending(f) /\ e.sid = f.sid => e = f
      BY <3>2, <3>4 DEF EndedByOne
    <3>10. \A r \in Replicas, s \in Sids :
             announced'[s] > 0 => rec'[r][s].status \in Terminal
      BY <2>1 DEF EndedByOne
    <3> QED
      BY <2>1, <3>8, <3>9, <3>10 DEF EndedByOne, Ending
  <2> QED
    BY <2>2, <2>3
<1>5. CASE Writes(c)
  <2>1. PICK d \in Call : /\ calls' = (calls \ {c}) \cup {d} /\ d.pc = "settle"
                          /\ d.on = c.on /\ d.sid = c.sid /\ d.new = c.new
    BY <1>5 DEF Writes, Move, SameCall
  <2>2. UNCHANGED <<rec, announced>> /\ (Ending(d) <=> Ending(c))
    BY <1>5, <2>1 DEF Writes, Ending
  <2>3. \A e \in calls' : Ending(e) =>
          rec'[e.on][e.sid].status \in Terminal /\ announced'[e.sid] = 0
    BY <1>2, <2>1, <2>2
  <2>4. \A e, f \in calls' : Ending(e) /\ Ending(f) /\ e.sid = f.sid => e = f
    BY <2>1, <2>2 DEF EndedByOne
  <2> QED
    BY <2>2, <2>3, <2>4 DEF EndedByOne, Ending
<1>6. CASE CallSettle(c)
  <2>1. /\ calls' = calls \ {c} /\ c.pc = "settle" /\ UNCHANGED rec
        /\ announced' = IF /\ c.shown # "nothing" /\ c.new.status \in Terminal
                           /\ announced[c.sid] < 2
                        THEN [announced EXCEPT ![c.sid] = @ + 1] ELSE announced
    BY <1>1, <1>6 DEF CallSettle, Suppresses, NoWithdrawal
  <2>2. CASE announced' = announced
    BY <1>2, <2>1, <2>2 DEF EndedByOne, Ending
  <2>3. CASE announced' # announced
    <3>1. Ending(c) /\ announced' = [announced EXCEPT ![c.sid] = announced[c.sid] + 1]
      BY <2>1, <2>3 DEF Ending
    <3>2. announced[c.sid] = 0 /\ rec[c.on][c.sid].status \in Terminal
      BY <1>2, <3>1
    <3>3. /\ announced'[c.sid] = 1
          /\ \A s \in Sids \ {c.sid} : announced'[s] = announced[s]
      BY <1>1, <3>1, <3>2
    <3>4. \A e \in calls' : Ending(e) => e.sid # c.sid /\ e.sid \in Sids
      BY <1>2, <2>1, <3>1 DEF EndedByOne
    <3>5. \A e \in calls' : Ending(e) =>
            rec'[e.on][e.sid].status \in Terminal /\ announced'[e.sid] = 0
      BY <1>2, <2>1, <3>3, <3>4
    <3>6. \A r \in Replicas, s \in Sids :
            announced'[s] > 0 => rec'[r][s].status \in Terminal
      BY <1>1, <2>1, <3>2, <3>3 DEF EndedByOne, OneReplica
    <3>7. \A s \in Sids : announced'[s] <= 1
      BY <3>3 DEF EndedByOne
    <3> QED
      BY <2>1, <3>5, <3>6, <3>7 DEF EndedByOne, Ending
  <2> QED
    BY <2>2, <2>3
<1> QED
  BY <1>1, <1>3, <1>4, <1>5, <1>6, CallOutcome

\* A step outside the calls leaves what they and the records say as it is.
LEMMA OthersAnnounceNothing ==
  ASSUME Shape, Next, \A c \in calls : ~CallStep(c)
  PROVE  UNCHANGED <<rec, announced>> \/ Restart
  BY DEF Next, SpawnStep, BotStep, StopStep, KernelStep, SweepStep, memory, history

LEMMA NextAnnouncing ==
  ASSUME Announcing, OneReplica, MaxWithdrawals = 0, Next
  PROVE  Announcing'
<1>1. Shape /\ NoWithdrawal
  BY DEF Announcing, Untaken
<1>2. Untaken'
  BY <1>1, NextShape, NextNoWithdrawal DEF Untaken
<1>3. ASSUME faults'.restart = 0
      PROVE  EndedByOne'
  <2>1. faults.restart = 0 /\ ~Restart
    BY <1>1, <1>3, FaultsGrow DEF FaultKind, Restart
  <2>2. EndedByOne
    BY <2>1 DEF Announcing
  <2>3. \A r \in Replicas, s \in Sids :
          rec[r][s].status \in Terminal => rec'[r][s].status = rec[r][s].status
    BY <1>1, <1>3, <2>1, NextTerminalUntaken
  <2>4. CASE \E c \in calls : CallStep(c)
    BY <2>2, <2>3, <2>4, CallStepAnnounces DEF Announcing
  <2>5. CASE \A c \in calls : ~CallStep(c)
    <3>1. UNCHANGED <<rec, announced>>
      BY <1>1, <2>1, <2>5, OthersAnnounceNothing
    <3>2. \A d \in calls' : Ending(d) => d \in calls
      BY <1>1, <2>5, OtherCalls DEF Arrives, Ending
    <3> QED
      BY <2>2, <3>1, <3>2 DEF EndedByOne, Ending
  <2> QED
    BY <2>4, <2>5
<1> QED
  BY <1>2, <1>3 DEF Announcing

\* However often the terminal events of a run are delivered, retried or raced by
\* the runtime and the sweeps, its end is announced at most once.  It takes one
\* meeting-api process that keeps its records, and no withdrawal, which may put an
\* older record back in the place of the one that ended.
THEOREM EndIsAnnouncedOnce ==
  ASSUME OneReplica, MaxWithdrawals = 0
  PROVE  Spec => []AnnouncedOnce
<1>1. Init => Announcing
  <2> SUFFICES ASSUME Init PROVE Announcing
    OBVIOUS
  <2>1. Untaken
    BY InitShape DEF Init, Untaken, NoWithdrawal, FaultKind
  <2>2. EndedByOne
    BY DEF Init, EndedByOne
  <2> QED
    BY <2>1, <2>2 DEF Announcing
<1>2. Announcing /\ [Next]_vars => Announcing'
  <2> SUFFICES ASSUME Announcing, [Next]_vars PROVE Announcing'
    OBVIOUS
  <2>1. CASE Next
    BY <2>1, NextAnnouncing
  <2>2. CASE UNCHANGED vars
    <3>1. Untaken'
      BY <2>2, NextShape DEF Announcing, Untaken, NoWithdrawal, vars, durable, memory
    <3> QED
      BY <2>2, <3>1 DEF Announcing, EndedByOne, Ending, vars, memory, history
  <2> QED
    BY <2>1, <2>2
<1>3. Announcing => AnnouncedOnce
  BY DEF Announcing, EndedByOne, AnnouncedOnce
<1> QED
  BY <1>1, <1>2, <1>3, PTL DEF Spec

-----------------------------------------------------------------------------
(* Where evidence about a workload comes from. *)

LEMMA CallsKeep ==
  ASSUME Shape, NEW c \in calls, CallStep(c), NEW d \in calls'
  PROVE  \E e \in calls : SameCall(e, d)
<1>1. calls \subseteq Call
  BY DEF Shape, TypeOK
<1>2. CASE d \in calls
  BY <1>2 DEF SameCall
<1>3. CASE Reads(c) \/ Writes(c)
  BY <1>2, <1>3 DEF Reads, Writes, Move
<1>4. CASE \E before \in Record, force \in BOOLEAN : Meets(c, before, force)
  BY <1>2, <1>4 DEF Meets, Move
<1>5. CASE CallSettle(c) /\ d \notin calls
  <2>1. d \in Detach(c)
    BY <1>5 DEF CallSettle
  <2>2. PICK e \in calls : d = [e EXCEPT !.held = rec[c.on][c.sid].status]
    BY <1>5, <2>1 DEF Detach
  <2>3. SameCall(e, d)
    BY <1>1, <2>2 DEF Call, SameCall
  <2> QED
    BY <2>3
<1> QED
  BY <1>2, <1>3, <1>4, <1>5, CallOutcome

BotSays(d) ==
  /\ d.src = "bot" /\ d.from \in Sids /\ d.sid = d.from
  /\ wl[d.from].alive /\ d.ev.status = bot[d.from].out /\ d.ev.status # NoStatus
  /\ ~d.ev.stop
RuntimeSays(d) ==
  /\ d.src = "runtime" /\ d.from \in Sids /\ cb[d.from] /\ row.container = d.from
  /\ row.status \in NonTerminal /\ sessions # <<>> /\ d.sid = LastSession
  /\ d.ev = RuntimeEvent
SweepSays(d) ==
  /\ d.src = (IF sweep.presumed THEN "presumed" ELSE "sweep")
  /\ sweep.pc = "post" /\ d.from = sweep.container /\ d.sid = sweep.sid
  /\ d.ev = SweepEvent

LEMMA CallsArriveFrom ==
  ASSUME Shape, Next, \A c \in calls : ~CallStep(c), NEW d \in calls', d \notin calls
  PROVE  /\ Arrives(d)
         /\ BotSays(d) \/ RuntimeSays(d) \/ SweepSays(d)
         /\ UNCHANGED spawn
<1>1. Arrives(d)
  BY OtherCalls
<1>2. ASSUME NEW s \in Sids, NEW r \in Replicas, BotPost(s, r), BotStep(s)
      PROVE  BotSays(d) /\ UNCHANGED spawn
  BY <1>2 DEF BotPost, Received, BotSays, BotStep, requests
<1>3. ASSUME NEW s \in Sids, NEW r \in Replicas, RuntimeCallback(s, r), KernelStep
      PROVE  RuntimeSays(d) /\ UNCHANGED spawn
  BY <1>3 DEF RuntimeCallback, Received, RuntimeSays, KernelStep, requests
<1>4. ASSUME NEW r \in Replicas, SweepPost(r), SweepStep
      PROVE  SweepSays(d) /\ UNCHANGED spawn
  <2>1. d = Received(IF sweep.presumed THEN "presumed" ELSE "sweep",
                     sweep.container, 0, sweep.sid, SweepEvent, r)
    BY <1>4 DEF SweepPost
  <2> QED
    BY <1>4, <2>1 DEF SweepPost, Received, SweepSays, SweepStep, requests
<1> QED
  BY <1>1, <1>2, <1>3, <1>4
  DEF Next, SpawnStep, BotStep, BotReport, BotPostLost, BotGiveUp, BotExit,
      StopStep, KernelStep, KernelReap, RuntimeCallbackLost, KernelRestart,
      SweepStep, SweepList, SweepPass, SweepProbe, SweepTeardown, Restart, memory

\* The sweep lists a row, holds on to what it listed, or is done with it.
Lists ==
  /\ Stale /\ UNCHANGED <<durable, requests>>
  /\ sweep'.pc = (IF row.status \in PreActive \cup {"active"} /\ row.container # NoSid
                  THEN "probe" ELSE "teardown")
  /\ sweep'.sid = LastSession /\ sweep'.container = row.container
  /\ sweep'.status = row.status /\ sweep'.stop = row.stop /\ ~sweep'.presumed
  /\ sweep'.kind = "stopping" => row.status = "stopping"

HoldsOn ==
  /\ sweep.pc \in {"probe", "teardown"} /\ sweep'.pc \in {"teardown", "post"}
  /\ sweep'.sid = sweep.sid /\ sweep'.container = sweep.container
  /\ sweep'.status = sweep.status /\ sweep'.kind = sweep.kind /\ sweep'.stop = sweep.stop
  /\ UNCHANGED <<durable, requests>>
  /\ sweep.pc = "probe" /\ sweep'.pc = "post" => sweep'.presumed
  /\ sweep'.presumed => sweep'.pc = "post" \/ sweep.presumed
  /\ sweep'.presumed /\ ~sweep.presumed =>
       /\ ~IsKnown(sweep.container)
       /\ sweep.pc = "teardown" => sweep.container # NoSid
  /\ sweep.pc = "teardown" /\ ~sweep'.presumed =>
       sweep.container = NoSid \/ Destroy(sweep.container)

LEMMA SweepMoves ==
  ASSUME Shape, Next
  PROVE  sweep' = sweep \/ sweep'.pc \in {"idle", "wait"} \/ Lists \/ HoldsOn
<1>1. sweep \in Sweep
  BY DEF Shape, TypeOK
<1>2. ASSUME NEW c \in calls, CallStep(c)
      PROVE  sweep' = sweep \/ sweep' = IdleSweep
  BY <1>2
  DEF CallStep, CallReadStatus, CallRehydrate, CallReadStop, CallApply,
      CallPersist, CallPersistFails, CallSettle, Apply, Finish, Answer, reconcile
<1>3. CASE sweep' = IdleSweep
  BY <1>3 DEF IdleSweep
<1>4. CASE SweepStep
  <2>1. UNCHANGED <<durable, requests>>
    BY <1>4 DEF SweepStep
  <2>2. ASSUME NEW kind, SweepList(kind)
        PROVE  Lists
    BY <2>1, <2>2 DEF SweepList, Lists
  <2>3. ASSUME sweep.pc \in {"probe", "teardown"}, Untracked,
               sweep.pc = "teardown" => sweep.container # NoSid
        PROVE  sweep' = IdleSweep \/ HoldsOn
    <3>1. CASE sweep' = [sweep EXCEPT !.pc = "post", !.presumed = TRUE]
      <4>1. [sweep EXCEPT !.pc = "post"] \in Sweep
        BY <1>1 DEF Sweep
      <4>2. /\ sweep'.pc = "post" /\ sweep'.sid = sweep.sid /\ sweep'.presumed
            /\ sweep'.container = sweep.container /\ sweep'.status = sweep.status
            /\ sweep'.kind = sweep.kind /\ sweep'.stop = sweep.stop
        BY <1>1, <3>1, <4>1 DEF Sweep
      <4> QED
        BY <2>1, <2>3, <4>2 DEF HoldsOn, Untracked
    <3> QED
      BY <2>3, <3>1 DEF Untracked
  <2>4. CASE SweepProbe
    <3>1. CASE sweep' = [sweep EXCEPT !.pc = "teardown"]
      <4>1. /\ sweep'.pc = "teardown" /\ sweep'.sid = sweep.sid
            /\ sweep'.presumed = sweep.presumed
            /\ sweep'.container = sweep.container /\ sweep'.status = sweep.status
            /\ sweep'.kind = sweep.kind /\ sweep'.stop = sweep.stop
        BY <1>1, <3>1 DEF Sweep
      <4> QED
        BY <2>1, <2>4, <4>1 DEF HoldsOn, SweepProbe
    <3> QED
      BY <1>3, <2>3, <2>4, <3>1 DEF SweepProbe
  <2>5. CASE SweepTeardown
    <3>1. CASE /\ sweep' = [sweep EXCEPT !.pc = "post"]
               /\ sweep.container = NoSid \/ Destroy(sweep.container)
      <4>1. /\ sweep'.pc = "post" /\ sweep'.sid = sweep.sid
            /\ sweep'.presumed = sweep.presumed
            /\ sweep'.container = sweep.container /\ sweep'.status = sweep.status
            /\ sweep'.kind = sweep.kind /\ sweep'.stop = sweep.stop
        BY <1>1, <3>1 DEF Sweep
      <4> QED
        BY <2>1, <2>5, <3>1, <4>1 DEF HoldsOn, SweepTeardown
    <3> QED
      BY <1>3, <2>3, <2>5, <3>1 DEF SweepTeardown
  <2>6. ASSUME NEW r \in Replicas, SweepPost(r)
        PROVE  sweep'.pc = "wait"
    BY <2>6 DEF SweepPost, IdleSweep
  <2> QED
    BY <1>3, <1>4, <2>2, <2>4, <2>5, <2>6 DEF SweepStep, SweepPass
<1> QED
  BY <1>2, <1>3, <1>4
  DEF Next, SpawnStep, BotStep, StopStep, KernelStep, Restart, reconcile

-----------------------------------------------------------------------------
(* Spawns one at a time: a row that names a workload names its last session. *)

OneSpawn == \A s, t \in Sids : ~Settled(s) /\ ~Settled(t) => s = t

RowNamesLast ==
  /\ row.container # NoSid => sessions # <<>> /\ LastSession = row.container
  /\ \A s \in Sids :
       /\ spawn[s] \in {"create", "reject", "session", "container"}
            => row.container = NoSid
       /\ spawn[s] = "container" => sessions # <<>> /\ LastSession = s

SweepNamesRun ==
  sweep.pc \in {"probe", "teardown", "post"} /\ sweep.container # NoSid
    => sweep.sid = sweep.container

Sequential == Shape /\ OneSpawn /\ RowNamesLast /\ SweepNamesRun /\ EvidenceNamesItsRun

LEMMA NextOneSpawn ==
  ASSUME Shape, OneSpawn, Next, OneSpawnAtATime
  PROVE  OneSpawn'
<1>1. ASSUME NEW s \in Sids, SpawnStep(s), NEW t \in Sids, ~Settled(t)'
      PROVE  t = s \/ (spawn'[t] = spawn[t] /\ ~Settled(t))
  <2>1. t # s => spawn'[t] = spawn[t]
    BY <1>1, SpawnMoves
  <2> QED
    BY <1>1, <2>1 DEF Settled
<1>2. ASSUME NEW s \in Sids, SpawnStep(s), NEW t \in Sids, ~Settled(t)', t # s,
             ~Settled(s)'
      PROVE  FALSE
  <2>1. ~Settled(t)
    BY <1>1, <1>2
  <2>2. spawn[s] = "idle" => spawn'[s] # "idle"
    BY <1>2, SpawnMoves DEF SpawnEdge
  <2>3. spawn[s] # "idle"
    BY <1>2, <2>1, <2>2 DEF OneSpawnAtATime
  <2>4. spawn[s] # "done"
    BY <1>2, SpawnMoves DEF SpawnEdge
  <2> QED
    BY <1>2, <2>1, <2>3, <2>4 DEF OneSpawn, Settled
<1>3. ASSUME NEW s \in Sids, SpawnStep(s)
      PROVE  OneSpawn'
  BY <1>1, <1>2, <1>3 DEF OneSpawn
<1>4. CASE Restart
  BY <1>4 DEF Restart, OneSpawn, Settled
<1>5. CASE UNCHANGED spawn
  BY <1>5 DEF OneSpawn, Settled
<1> QED
  BY <1>3, <1>4, <1>5
  DEF Next, BotStep, StopStep, CallStep, KernelStep, SweepStep, requests

\* Only a POST /bots names another workload, or inserts a session.
LEMMA OthersKeepContainer ==
  ASSUME Shape, Next, \A s \in Sids : ~SpawnStep(s)
  PROVE  /\ row'.container = row.container /\ UNCHANGED sessions
         /\ \A s \in Sids : spawn'[s] \in {spawn[s], "done"}
<1>1. row \in Row /\ spawn \in [Sids -> SpawnPc]
  BY DEF Shape, TypeOK
<1>2. row'.container = row.container
  <2>1. ASSUME NEW s, NEW status, NEW stop, NEW stage, UpdatedBy(s, status, stop, stage)
        PROVE  row'.container = row.container
    BY <1>1, <2>1 DEF UpdatedBy, UpdateMeetingStatus, Row
  <2>2. CASE row' = [row EXCEPT !.withdrawn = TRUE, !.stop = TRUE,
                        !.status = IF @ \in Terminal THEN @ ELSE "stopping"]
    BY <1>1, <2>2 DEF Row
  <2> QED
    BY <2>1, <2>2, OthersWriteRow
<1>3. UNCHANGED sessions
  BY DEF Next, BotStep, StopStep, CallStep, KernelStep, SweepStep, Restart, durable
<1>4. \A s \in Sids : spawn'[s] \in {spawn[s], "done"}
  <2>1. CASE Restart
    BY <2>1 DEF Restart
  <2>2. CASE UNCHANGED spawn
    BY <2>2
  <2> QED
    BY <2>1, <2>2 DEF Next, BotStep, StopStep, CallStep, KernelStep, SweepStep, requests
<1> QED
  BY <1>2, <1>3, <1>4

LEMMA NextRowNamesLast ==
  ASSUME Sequential, Next, OneSpawnAtATime
  PROVE  RowNamesLast'
<1>1. /\ Shape /\ OneSpawn /\ RowNamesLast /\ RowFirst /\ row \in Row
      /\ sessions \in Seq(Sids)
  BY DEF Sequential, Shape, TypeOK
<1>2. ASSUME NEW s \in Sids, SpawnStep(s)
      PROVE  RowNamesLast'
  <2>1. SpawnEdge(spawn[s], spawn'[s]) /\ \A t \in Sids \ {s} : spawn'[t] = spawn[t]
    BY <1>1, <1>2, SpawnMoves
  <2>2. \A t \in Sids \ {s} : Settled(t)
    BY <1>1, <1>2, <2>1 DEF OneSpawn, OneSpawnAtATime, Settled, SpawnEdge
  <2>3. ASSUME NEW t \in Sids, ~Settled(t)'
        PROVE  t = s
    BY <2>1, <2>2, <2>3 DEF Settled
  <2>4. CASE SpawnCreateSession(s)
    <3>1. sessions' = Append(sessions, s) /\ row' = row /\ spawn[s] = "session"
      BY <2>4 DEF SpawnCreateSession
    <3>2. sessions' # <<>> /\ LastSession' = s
      BY <1>1, <3>1 DEF LastSession
    <3>3. row.container = NoSid
      BY <1>1, <3>1 DEF RowNamesLast
    <3> QED
      BY <2>3, <3>1, <3>2, <3>3 DEF RowNamesLast, Settled
  <2>5. CASE ~SpawnCreateSession(s)
    <3>1. sessions' = sessions /\ LastSession' = LastSession
      BY <1>2, <2>5
      DEF SpawnStep, SpawnInsert, SpawnContinue, SpawnReopen, SpawnCreate,
          SpawnRefused, SpawnReject, SpawnTransportError, SpawnSetContainer,
          SpawnDbFault, SpawnTeardown, SpawnRaceCheck, durable, LastSession
    <3>2. spawn'[s] = "container" => spawn[s] = "container"
      <4>1. spawn[s] = "session" => SpawnDbFault(s)
        BY <1>2, <2>5
        DEF SpawnStep, SpawnInsert, SpawnContinue, SpawnReopen, SpawnCreate,
            SpawnRefused, SpawnReject, SpawnTransportError, SpawnSetContainer,
            SpawnTeardown, SpawnRaceCheck
      <4>2. spawn[s] = "session" => spawn'[s] = "compensate"
        BY <1>1, <4>1 DEF SpawnDbFault, Shape, TypeOK
      <4> QED
        BY <2>1, <4>2 DEF SpawnEdge
    <3>3. CASE row' = row
      <4>1. spawn'[s] \in {"create", "reject", "session", "container"}
              => row.container = NoSid
        <5>1. CASE spawn[s] = "reopen"
          <6>1. SpawnReopen(s)
            BY <1>2, <5>1
            DEF SpawnStep, SpawnInsert, SpawnContinue, SpawnCreate,
                SpawnRefused, SpawnReject, SpawnTransportError, SpawnSetContainer,
                SpawnDbFault, SpawnTeardown, SpawnRaceCheck, SpawnCreateSession
          <6> QED
            BY <1>1, <3>3, <6>1 DEF SpawnReopen, Row
        <5>2. CASE spawn[s] = "idle"
          <6>1. SpawnInsert(s) \/ SpawnContinue(s)
            BY <1>2, <5>2
            DEF SpawnStep, SpawnReopen, SpawnCreate,
                SpawnRefused, SpawnReject, SpawnTransportError, SpawnSetContainer,
                SpawnDbFault, SpawnTeardown, SpawnRaceCheck, SpawnCreateSession
          <6> QED
            BY <1>1, <3>3, <5>2, <6>1
            DEF SpawnInsert, SpawnContinue, Row, Shape, TypeOK
        <5>3. CASE spawn[s] \notin {"idle", "reopen"}
          BY <1>1, <2>1, <5>3 DEF SpawnEdge, RowNamesLast
        <5> QED
          BY <5>1, <5>2, <5>3
      <4> QED
        BY <1>1, <2>3, <3>1, <3>2, <3>3, <4>1 DEF RowNamesLast, Settled
    <3>4. CASE row.status = "absent" /\ row' = [row EXCEPT !.status = "requested"]
      <4>1. row'.container = NoSid
        BY <1>1, <3>4 DEF RowFirst, RowNamesLast, Row
      <4> QED
        BY <1>1, <2>3, <3>1, <3>2, <4>1 DEF RowNamesLast, Settled
    <3>5. CASE row' = [row EXCEPT !.status = "requested", !.container = NoSid,
                          !.stage = NoStage]
      <4>1. row'.container = NoSid
        BY <1>1, <3>5 DEF Row
      <4> QED
        BY <1>1, <2>3, <3>1, <3>2, <4>1 DEF RowNamesLast, Settled
    <3>6. CASE /\ spawn[s] = "reject" /\ spawn'[s] = "done"
               /\ row' = [row EXCEPT !.status = "failed", !.stage = "runtime_spawn"]
      <4>1. row'.container = row.container
        BY <1>1, <3>6 DEF Row
      <4> QED
        BY <1>1, <2>3, <3>1, <3>6, <4>1 DEF RowNamesLast, Settled
    <3>7. CASE /\ spawn[s] = "container" /\ spawn'[s] = "race"
               /\ row' = [row EXCEPT !.container = s]
      <4>1. row'.container = s
        BY <1>1, <3>7 DEF Row
      <4> QED
        BY <1>1, <2>3, <3>1, <3>7, <4>1 DEF RowNamesLast, Settled
    <3> QED
      BY <1>1, <1>2, <3>3, <3>4, <3>5, <3>6, <3>7, SpawnRows DEF SpawnRow
  <2> QED
    BY <2>4, <2>5
<1>3. CASE \A s \in Sids : ~SpawnStep(s)
  BY <1>1, <1>3, OthersKeepContainer DEF RowNamesLast, LastSession
<1> QED
  BY <1>2, <1>3

LEMMA NextSweepNamesRun ==
  ASSUME Sequential, Next
  PROVE  SweepNamesRun'
<1>1. CASE Lists
  BY <1>1 DEF Sequential, Lists, SweepNamesRun, RowNamesLast
<1>2. CASE HoldsOn
  BY <1>2 DEF Sequential, HoldsOn, SweepNamesRun
<1>3. CASE sweep' = sweep \/ sweep'.pc \in {"idle", "wait"}
  BY <1>3 DEF Sequential, SweepNamesRun
<1> QED
  BY <1>1, <1>2, <1>3, SweepMoves DEF Sequential

LEMMA NextEvidenceNames ==
  ASSUME Sequential, Next
  PROVE  EvidenceNamesItsRun'
<1>1. Shape /\ RowNamesLast /\ SweepNamesRun /\ EvidenceNamesItsRun
  BY DEF Sequential
<1> SUFFICES ASSUME NEW d \in calls', d.from # NoSid
             PROVE  d.sid = d.from
  BY DEF EvidenceNamesItsRun
<1>2. CASE \E c \in calls : CallStep(c)
  BY <1>1, <1>2, CallsKeep DEF SameCall, EvidenceNamesItsRun
<1>3. CASE d \in calls
  BY <1>1, <1>3 DEF EvidenceNamesItsRun
<1>4. CASE (\A c \in calls : ~CallStep(c)) /\ d \notin calls
  <2>1. BotSays(d) \/ RuntimeSays(d) \/ SweepSays(d)
    BY <1>1, <1>4, CallsArriveFrom
  <2> QED
    BY <1>1, <2>1, SidsAssumption
    DEF BotSays, RuntimeSays, SweepSays, RowNamesLast, SweepNamesRun
<1> QED
  BY <1>2, <1>3, <1>4

\* Where a meeting is continued only after the POST /bots before is through,
\* what the runtime or a sweep has seen of a workload is applied to the run of
\* that workload and no other, through restarts, failures and reopened rows.
THEOREM EvidenceIsItsRuns == SequentialSpec => []EvidenceNamesItsRun
<1>1. Init => Sequential
  <2> SUFFICES ASSUME Init PROVE Sequential
    OBVIOUS
  <2>1. Shape
    BY InitShape
  <2> QED
    BY <2>1
    DEF Init, Sequential, OneSpawn, Settled, RowNamesLast, SweepNamesRun, IdleSweep,
        EvidenceNamesItsRun
<1>2. Sequential /\ [Next /\ OneSpawnAtATime]_vars => Sequential'
  <2> SUFFICES ASSUME Sequential, [Next /\ OneSpawnAtATime]_vars
               PROVE  Sequential'
    OBVIOUS
  <2>1. CASE Next /\ OneSpawnAtATime
    BY <2>1, NextShape, NextOneSpawn, NextRowNamesLast, NextSweepNamesRun,
       NextEvidenceNames DEF Sequential
  <2>2. CASE UNCHANGED vars
    <3>1. Shape'
      BY <2>2, NextShape DEF Sequential
    <3> QED
      BY <2>2, <3>1
      DEF vars, durable, memory, requests, reconcile, Sequential, OneSpawn, Settled,
          RowNamesLast, LastSession, SweepNamesRun, EvidenceNamesItsRun
  <2> QED
    BY <2>1, <2>2
<1>3. Sequential => EvidenceNamesItsRun
  BY DEF Sequential
<1> QED
  BY <1>1, <1>2, <1>3, PTL DEF SequentialSpec

-----------------------------------------------------------------------------
(* What a step does to a workload and its bot. *)

Starts(t) ==
  /\ spawn[t] = "create" /\ SpawnStep(t) /\ spawn'[t] \in {"session", "done"}
  /\ wl'[t].alive /\ wl'[t].known = "tracked"
  /\ bot'[t].at = "joining" /\ bot'[t].out = "joining"
  /\ UNCHANGED durable

Dies(t) == ~wl'[t].alive /\ wl'[t].known = wl[t].known /\ bot'[t] = NoBot

Lives(t) == wl'[t].alive = wl[t].alive /\ wl'[t].known = wl[t].known

LEMMA DestroyMoves ==
  ASSUME Shape, NEW s \in Sid0, NEW t \in Sids,
         \/ Destroy(s) \/ BestEffortDelete(s)
  PROVE  Dies(t) \/ (Lives(t) /\ bot'[t] = bot[t])
<1>1. wl \in [Sids -> Workload] /\ bot \in [Sids -> Bot]
  BY DEF Shape, TypeOK
<1>2. CASE Destroy(s)
  <2>1. CASE s = t
    BY <1>1, <1>2, <2>1 DEF Destroy, Kill, Dies, Workload
  <2>2. CASE s # t
    BY <1>1, <1>2, <2>2 DEF Destroy, Kill, Lives, Workload
  <2> QED
    BY <2>1, <2>2
<1>3. CASE UNCHANGED substrate
  BY <1>3 DEF substrate, Lives
<1> QED
  BY <1>2, <1>3 DEF BestEffortDelete, substrate

LEMMA ObserveMoves ==
  ASSUME Shape, NEW s \in Sid0, NEW t \in Sids, ObserveExit(s)
  PROVE  Lives(t)
<1>1. wl \in [Sids -> Workload]
  BY DEF Shape, TypeOK
<1> QED
  BY <1>1 DEF ObserveExit, Lives, Workload

LEMMA SpawnStarts ==
  ASSUME Shape, NEW s \in Sids, SpawnStep(s), NEW t \in Sids
  PROVE  Starts(t) \/ Dies(t) \/ (Lives(t) /\ bot'[t] = bot[t])
<1>1. /\ wl \in [Sids -> Workload] /\ bot \in [Sids -> Bot]
      /\ spawn \in [Sids -> SpawnPc]
  BY DEF Shape, TypeOK
<1>2. CASE SpawnCreate(s) \/ (SpawnTransportError(s) /\ StartWorkload(s))
  <2>1. /\ StartWorkload(s) /\ spawn[s] = "create" /\ spawn'[s] \in {"session", "done"}
        /\ UNCHANGED durable
    BY <1>1, <1>2 DEF SpawnCreate, SpawnTransportError
  <2>2. CASE s = t
    BY <1>1, <2>1, <2>2 DEF StartWorkload, Starts, NoBot
  <2>3. CASE s # t
    BY <1>1, <2>1, <2>3 DEF StartWorkload, Lives
  <2> QED
    BY <2>2, <2>3
<1>3. CASE SpawnTeardown(s)
  <2>1. BestEffortDelete(s)
    BY <1>3 DEF SpawnTeardown
  <2> QED
    BY <2>1, DestroyMoves DEF Sid0
<1>4. CASE UNCHANGED <<wl, bot>>
  BY <1>4 DEF Lives
<1> QED
  BY <1>2, <1>3, <1>4
  DEF SpawnStep, SpawnInsert, SpawnContinue, SpawnReopen, SpawnCreate,
      SpawnRefused, SpawnReject, SpawnTransportError, SpawnCreateSession,
      SpawnSetContainer, SpawnDbFault, SpawnRaceCheck, substrate

\* A bot moves along the machine, and reports where it is.
Reaches(t) ==
  /\ <<bot[t].at, bot'[t].at>> \in LegalTransitions /\ bot'[t].out = bot'[t].at
  /\ bot'[t].at \in Stages \cup Terminal
  /\ bot'[t].at = "active" => t \in seated'
Says(t) == bot'[t].at = bot[t].at /\ bot'[t].out \in {bot[t].out, NoStatus}

LEMMA BotMoves ==
  ASSUME Shape, NEW s \in Sids, BotStep(s), NEW t \in Sids
  PROVE  Dies(t) \/ (Lives(t) /\ (Reaches(t) \/ Says(t)))
<1>1. wl \in [Sids -> Workload] /\ bot \in [Sids -> Bot]
  BY DEF Shape, TypeOK
<1>2. ASSUME NEW to \in BotStatus, BotReport(s, to)
      PROVE  Lives(t) /\ (Reaches(t) \/ Says(t))
  <2>1. CASE s = t
    BY <1>1, <1>2, <2>1 DEF BotReport, Lives, Reaches, Bot
  <2>2. CASE s # t
    BY <1>1, <1>2, <2>2 DEF BotReport, Lives, Says
  <2> QED
    BY <2>1, <2>2
<1>3. CASE BotPostLost(s) \/ BotGiveUp(s) \/ \E r \in Replicas : BotPost(s, r)
  BY <1>1, <1>3 DEF BotPostLost, BotGiveUp, BotPost, Lives, Says, Bot
<1>4. CASE BotExit(s)
  <2>1. CASE s = t
    BY <1>1, <1>4, <2>1 DEF BotExit, Kill, Dies, Workload
  <2>2. CASE s # t
    BY <1>1, <1>4, <2>2 DEF BotExit, Kill, Lives, Says
  <2> QED
    BY <2>1, <2>2
<1> QED
  BY <1>2, <1>3, <1>4 DEF BotStep

\* A restart of the runtime: a workload it had created is adopted or forgotten.
Relisted(t) ==
  /\ Fail("forget") /\ wl'[t].alive = wl[t].alive
  /\ \/ wl[t].known = "none" /\ wl'[t].known = "none"
     \/ wl[t].known # "none" /\ wl'[t].known \in {"adopted", "forgotten"}

LEMMA KernelMoves ==
  ASSUME Shape, KernelStep, NEW t \in Sids
  PROVE  (Lives(t) \/ Relisted(t)) /\ UNCHANGED bot
<1>1. wl \in [Sids -> Workload]
  BY DEF Shape, TypeOK
<1>2. ASSUME NEW s \in Sids, KernelReap(s)
      PROVE  Lives(t)
  BY <1>2, ObserveMoves DEF KernelReap, Sid0
<1>3. CASE KernelRestart
  <2>1. PICK adopted \in SUBSET {s \in Sids : wl[s].known # "none"} :
          wl' = [s \in Sids |->
                   [wl[s] EXCEPT !.known = IF s \in adopted THEN "adopted"
                                           ELSE IF @ = "none" THEN @
                                           ELSE "forgotten",
                                 !.over  = s \in adopted /\ ~wl[s].alive]]
    BY <1>3 DEF KernelRestart
  <2> DEFINE k    == IF t \in adopted THEN "adopted"
                     ELSE IF wl[t].known = "none" THEN "none"
                     ELSE "forgotten"
             over == t \in adopted /\ ~wl[t].alive
  <2>2. wl'[t] = [wl[t] EXCEPT !.known = k, !.over = over]
    BY <1>1, <2>1 DEF Workload
  <2>3. /\ wl[t].known = "none" => k = "none"
        /\ wl[t].known # "none" => k \in {"adopted", "forgotten"}
    BY <2>1
  <2> HIDE DEF k, over
  <2>4. wl'[t].alive = wl[t].alive /\ wl'[t].known = k
    BY <1>1, <2>2 DEF Workload
  <2> QED
    BY <1>3, <2>3, <2>4 DEF KernelRestart, Relisted, KernelStep
<1> QED
  BY <1>2, <1>3
  DEF KernelStep, RuntimeCallback, RuntimeCallbackLost, Lives

LEMMA WorkloadMoves ==
  ASSUME Shape, Next, NEW t \in Sids
  PROVE  \/ Starts(t)
         \/ Dies(t)
         \/ Lives(t) /\ (Reaches(t) \/ Says(t))
         \/ Relisted(t) /\ UNCHANGED bot
<1>1. /\ wl \in [Sids -> Workload] /\ bot \in [Sids -> Bot] /\ sweep \in Sweep
      /\ stops \in [Stops -> Stop] /\ calls \subseteq Call
  BY DEF Shape, TypeOK
<1>2. bot'[t] = bot[t] => Says(t)
  BY DEF Says
<1>3. ASSUME NEW d \in Stops, StopStep(d)
      PROVE  Dies(t) \/ (Lives(t) /\ Says(t))
  <2>1. CASE StopKill(d)
    <3>1. BestEffortDelete(stops[d].container) /\ stops[d].container \in Sid0
      BY <1>1, <2>1 DEF StopKill, Stop
    <3> QED
      BY <1>2, <3>1, DestroyMoves
  <2>2. CASE StopPublish(d)
    <3>1. PICK heard : bot' = [s \in Sids |-> [bot[s] EXCEPT !.leave = @ \/ s \in heard]]
      BY <2>2 DEF StopPublish
    <3>2. bot'[t].at = bot[t].at /\ bot'[t].out = bot[t].out
      BY <1>1, <3>1 DEF Bot
    <3> QED
      BY <2>2, <3>2 DEF StopPublish, Lives, Says
  <2> QED
    BY <1>2, <1>3, <2>1, <2>2
    DEF StopStep, StopFind, StopListSessions, StopUpdate, StopFault, Withdraw,
        substrate, Lives
<1>4. ASSUME NEW c \in calls, CallStep(c)
      PROVE  Lives(t) /\ Says(t)
  <2>1. Lives(t)
    BY <1>4 DEF CallStep, Lives
  <2>2. bot' = bot \/ bot' = [bot EXCEPT ![c.from].out = NoStatus, ![c.from].attempt = 0]
    BY <1>4
    DEF CallStep, CallReadStatus, CallRehydrate, CallReadStop, CallApply,
        CallPersist, CallPersistFails, CallSettle, Apply, Finish, Answer
  <2>3. bot'[t].at = bot[t].at /\ bot'[t].out \in {bot[t].out, NoStatus}
    BY <1>1, <2>2 DEF Bot
  <2> QED
    BY <2>1, <2>3 DEF Says
<1>5. CASE SweepStep
  <2>1. sweep.container \in Sid0
    BY <1>1 DEF Sweep
  <2>2. CASE Destroy(sweep.container)
    BY <1>2, <2>1, <2>2, DestroyMoves
  <2>3. CASE ObserveExit(sweep.container) /\ bot' = bot
    BY <1>2, <2>1, <2>3, ObserveMoves
  <2>4. CASE UNCHANGED <<wl, bot>>
    BY <1>2, <2>4 DEF Lives
  <2> QED
    BY <1>5, <2>2, <2>3, <2>4
    DEF SweepStep, SweepList, SweepPass, SweepProbe, SweepTeardown, SweepPost, substrate
<1>6. CASE Restart
  BY <1>2, <1>6 DEF Restart, substrate, Lives
<1> QED
  BY <1>2, <1>3, <1>4, <1>5, <1>6, SpawnStarts, BotMoves, KernelMoves DEF Next

-----------------------------------------------------------------------------
(* Where the parts of one run are: its POST /bots, its session, its workload, *)
(* its bot, the calls and the sweep that speak of it.                         *)

\* A session is inserted by the POST /bots that owns it.
SessionsInserted ==
  \A s \in Sids : Known(s) =>
    spawn[s] \in {"container", "race", "compensate", "kill", "done"}

\* A workload is started by the POST /bots that owns it, and is known from then on.
StartedByItsSpawn ==
  \A s \in Sids :
    /\ spawn[s] \in {"idle", "reopen", "create", "reject"}
         => wl[s].known = "none" /\ ~wl[s].alive
    /\ wl[s].alive => wl[s].known # "none"
    /\ faults.forget = 0 => wl[s].known \in {"none", "tracked"}

CallsAreOfRuns == \A c \in calls : Created(c.sid)

SweepListed ==
  /\ sweep.pc \in {"probe", "teardown", "post"} => Known(sweep.sid)
  /\ sweep.pc \in {"probe", "teardown"} => ~sweep.presumed
  /\ sweep.pc = "probe" => sweep.container # NoSid

BotsReportWhereTheyAre ==
  \A s \in Sids : bot[s].out \in {NoStatus, bot[s].at}

CompensationHasCause ==
  \A s \in Sids : spawn[s] = "compensate" => faults.db > 0

CallbacksAreOfTheGone == \A s \in Sids : cb[s] => Gone(s)

\* The end of a run is written because somebody reported one.
EndWasReported ==
  \A c \in calls : Ending(c) => c.ev.status \in Terminal

Facts ==
  /\ SessionsInserted /\ StartedByItsSpawn /\ CallsAreOfRuns /\ SweepListed
  /\ BotsReportWhereTheyAre /\ CompensationHasCause /\ CallbacksAreOfTheGone
  /\ EndWasReported

LEMMA LastIsKnown ==
  ASSUME Shape, sessions # <<>>
  PROVE  LastSession \in Sids /\ Known(LastSession)
<1>1. sessions \in Seq(Sids)
  BY DEF Shape, TypeOK
<1>2. Len(sessions) \in 1..Len(sessions) /\ LastSession = sessions[Len(sessions)]
  BY <1>1 DEF LastSession
<1> QED
  BY <1>1, <1>2 DEF Known

\* A session becomes known by the step that inserts it.
LEMMA KnownMoves ==
  ASSUME Shape, Next, NEW s \in Sids, Known(s)', ~Known(s)
  PROVE  /\ SpawnStep(s) /\ spawn[s] = "session" /\ spawn'[s] = "container"
         /\ UNCHANGED row /\ sessions' = Append(sessions, s)
<1>1. sessions \in Seq(Sids) /\ spawn \in [Sids -> SpawnPc]
  BY DEF Shape, TypeOK
<1>2. sessions' # sessions
  BY DEF Known
<1>3. PICK t \in Sids : SpawnStep(t) /\ SpawnCreateSession(t)
  BY <1>2
  DEF Next, SpawnStep, SpawnInsert, SpawnContinue, SpawnReopen, SpawnCreate,
      SpawnRefused, SpawnReject, SpawnTransportError, SpawnSetContainer,
      SpawnDbFault, SpawnTeardown, SpawnRaceCheck, BotStep, StopStep, CallStep,
      KernelStep, SweepStep, Restart, durable
<1>4. sessions' = Append(sessions, t)
  BY <1>3 DEF SpawnCreateSession
<1>5. PICK i \in 1..Len(sessions') : sessions'[i] = s
  BY DEF Known
<1>6. t = s
  <2>1. CASE i \in 1..Len(sessions)
    BY <1>1, <1>4, <1>5, <2>1 DEF Known
  <2>2. CASE i \notin 1..Len(sessions)
    BY <1>1, <1>4, <1>5, <2>2
  <2> QED
    BY <2>1, <2>2
<1> QED
  BY <1>1, <1>3, <1>4, <1>6 DEF SpawnCreateSession

\* What a POST /bots may have become after a step.
LEMMA SpawnAfter ==
  ASSUME Shape, Next, NEW s \in Sids
  PROVE  \/ spawn'[s] = spawn[s]
         \/ SpawnStep(s) /\ SpawnEdge(spawn[s], spawn'[s])
         \/ Restart /\ spawn[s] # "idle" /\ spawn'[s] = "done"
<1>1. ASSUME NEW t \in Sids, SpawnStep(t)
      PROVE  \/ spawn'[s] = spawn[s]
             \/ SpawnStep(s) /\ SpawnEdge(spawn[s], spawn'[s])
  BY <1>1, SpawnMoves
<1>2. CASE Restart
  BY <1>2 DEF Restart
<1>3. CASE UNCHANGED spawn
  BY <1>3
<1> QED
  BY <1>1, <1>2, <1>3
  DEF Next, BotStep, StopStep, CallStep, KernelStep, SweepStep, requests

LEMMA NextSessionsInserted ==
  ASSUME Shape, Facts, Next
  PROVE  SessionsInserted'
<1> SUFFICES ASSUME NEW s \in Sids, Known(s)'
             PROVE  spawn'[s] \in {"container", "race", "compensate", "kill", "done"}
  BY DEF SessionsInserted
<1>1. CASE Known(s)
  BY <1>1, SpawnAfter DEF Facts, SessionsInserted, SpawnEdge
<1>2. CASE ~Known(s)
  BY <1>2, KnownMoves
<1> QED
  BY <1>1, <1>2

LEMMA NextStartedByItsSpawn ==
  ASSUME Shape, Facts, Next
  PROVE  StartedByItsSpawn'
<1> SUFFICES ASSUME NEW s \in Sids
             PROVE  /\ spawn'[s] \in {"idle", "reopen", "create", "reject"}
                         => wl'[s].known = "none" /\ ~wl'[s].alive
                    /\ wl'[s].alive => wl'[s].known # "none"
                    /\ faults'.forget = 0 => wl'[s].known \in {"none", "tracked"}
  BY DEF StartedByItsSpawn
<1>1. spawn'[s] \in {"idle", "reopen", "create", "reject"}
        => spawn[s] \in {"idle", "reopen", "create", "reject"}
  BY SpawnAfter DEF SpawnEdge
<1>2. /\ spawn[s] \in {"idle", "reopen", "create", "reject"}
           => wl[s].known = "none" /\ ~wl[s].alive
      /\ wl[s].alive => wl[s].known # "none"
      /\ faults.forget = 0 => wl[s].known \in {"none", "tracked"}
  BY DEF Facts, StartedByItsSpawn
<1>3. faults'.forget = 0 => faults.forget = 0 /\ ~Fail("forget")
  BY FaultsGrow DEF FaultKind
<1>4. CASE Starts(s)
  BY <1>4 DEF Starts
<1>5. CASE Dies(s) \/ Lives(s)
  <2>1. (wl'[s].alive => wl[s].alive) /\ wl'[s].known = wl[s].known
    BY <1>5 DEF Dies, Lives
  <2> QED
    BY <1>1, <1>2, <1>3, <2>1
<1>6. CASE Relisted(s)
  <2>1. /\ wl'[s].alive <=> wl[s].alive
        /\ wl'[s].known = "none" <=> wl[s].known = "none"
        /\ faults'.forget # 0
    BY <1>3, <1>6 DEF Relisted
  <2> QED
    BY <1>1, <1>2, <2>1
<1> QED
  BY <1>4, <1>5, <1>6, WorkloadMoves

LEMMA NextCallsAreOfRuns ==
  ASSUME Shape, RowNamesLast, Facts, Next
  PROVE  CallsAreOfRuns'
<1>1. calls \subseteq Call
  BY DEF Shape, TypeOK
<1> SUFFICES ASSUME NEW d \in calls' PROVE Created(d.sid)'
  BY DEF CallsAreOfRuns
<1>2. CASE \E e \in calls : d.sid = e.sid
  <2>1. PICK e \in calls : d.sid = e.sid
    BY <1>2
  <2>2. e.sid \in Sids /\ Created(e.sid)
    BY <1>1 DEF Call, Facts, CallsAreOfRuns
  <2> QED
    BY <2>1, <2>2, CreatedStays
<1>3. CASE (\A c \in calls : ~CallStep(c)) /\ d \notin calls
  <2>1. BotSays(d) \/ RuntimeSays(d) \/ SweepSays(d)
    BY <1>3, CallsArriveFrom
  <2>2. BotSays(d) => d.sid \in Sids /\ Created(d.sid)
    BY DEF BotSays, Facts, StartedByItsSpawn, Created
  <2>3. RuntimeSays(d) => d.sid \in Sids /\ Known(d.sid)
    BY LastIsKnown DEF RuntimeSays
  <2>4. SweepSays(d) => d.sid \in Sids /\ Known(d.sid)
    BY DEF SweepSays, Facts, SweepListed, Shape, SweepHasSession
  <2>5. d.sid \in Sids /\ Created(d.sid)
    BY <2>1, <2>2, <2>3, <2>4 DEF Facts, SessionsInserted, Created
  <2> QED
    BY <2>5, CreatedStays
<1> QED
  BY <1>2, <1>3, CallsKeep DEF SameCall

LEMMA NextSweepListed ==
  ASSUME Shape, Facts, Next
  PROVE  SweepListed'
<1> DEFINE Stay(s) == \E i \in 1..Len(sessions') : sessions'[i] = s
<1>1. \A s \in Sids : Known(s) => Stay(s)
  BY KnownStays DEF Known
<1>2. sweep.pc \in {"probe", "teardown", "post"} => Stay(sweep.sid)
  BY <1>1 DEF Facts, SweepListed, Shape, SweepHasSession
<1>3. SweepListed' <=> /\ sweep'.pc \in {"probe", "teardown", "post"} => Stay(sweep'.sid)
                       /\ sweep'.pc \in {"probe", "teardown"} => ~sweep'.presumed
                       /\ sweep'.pc = "probe" => sweep'.container # NoSid
  BY DEF SweepListed, Known
<1>4. CASE Lists
  <2>1. LastSession \in Sids /\ Known(LastSession)
    BY <1>4, LastIsKnown DEF Lists, Stale
  <2>2. Stay(LastSession)
    BY <1>1, <2>1
  <2> HIDE DEF Stay
  <2>3. Stay(sweep'.sid)
    BY <1>4, <2>2 DEF Lists
  <2> QED
    BY <1>3, <1>4, <2>3 DEF Lists
<1>5. CASE HoldsOn
  <2>1. ~sweep.presumed
    BY <1>5 DEF HoldsOn, Facts, SweepListed
  <2>2. Stay(sweep.sid)
    BY <1>2, <1>5 DEF HoldsOn
  <2> HIDE DEF Stay
  <2>3. Stay(sweep'.sid)
    BY <1>5, <2>2 DEF HoldsOn
  <2> QED
    BY <1>3, <1>5, <2>1, <2>3 DEF HoldsOn
<1> HIDE DEF Stay
<1>6. CASE sweep' = sweep
  <2>1. /\ sweep.pc \in {"probe", "teardown"} => ~sweep.presumed
        /\ sweep.pc = "probe" => sweep.container # NoSid
    BY DEF SweepListed, Facts
  <2> QED
    BY <1>2, <1>3, <1>6, <2>1
<1>7. CASE sweep'.pc \in {"idle", "wait"}
  BY <1>3, <1>7
<1> QED
  BY <1>4, <1>5, <1>6, <1>7, SweepMoves

LEMMA NextBotsReport ==
  ASSUME Shape, Facts, Next
  PROVE  BotsReportWhereTheyAre'
<1> SUFFICES ASSUME NEW s \in Sids
             PROVE  bot'[s].out \in {NoStatus, bot'[s].at}
  BY DEF BotsReportWhereTheyAre
<1>1. bot[s].out \in {NoStatus, bot[s].at}
  BY DEF Facts, BotsReportWhereTheyAre
<1>2. CASE Starts(s) \/ Reaches(s)
  BY <1>2 DEF Starts, Reaches
<1>3. CASE Dies(s)
  BY <1>3 DEF Dies, NoBot
<1>4. CASE Says(s) \/ UNCHANGED bot
  BY <1>1, <1>4 DEF Says
<1> QED
  BY <1>2, <1>3, <1>4, WorkloadMoves

LEMMA NextCompensationHasCause ==
  ASSUME Shape, Facts, Next
  PROVE  CompensationHasCause'
<1> SUFFICES ASSUME NEW s \in Sids, spawn'[s] = "compensate"
             PROVE  faults'.db > 0
  BY DEF CompensationHasCause
<1>1. CASE spawn[s] = "compensate"
  BY <1>1, FaultsGrow DEF Facts, CompensationHasCause, FaultKind
<1>2. CASE spawn[s] # "compensate"
  <2>1. SpawnStep(s) /\ spawn[s] \in {"session", "container"}
    BY <1>2, SpawnAfter DEF SpawnEdge
  <2>2. Fail("db")
    BY <2>1
    DEF SpawnStep, SpawnInsert, SpawnContinue, SpawnReopen, SpawnCreate,
        SpawnRefused, SpawnReject, SpawnTransportError, SpawnCreateSession,
        SpawnSetContainer, SpawnDbFault, SpawnTeardown, SpawnRaceCheck, Shape, TypeOK
  <2> QED
    BY <2>2, FaultsGrow DEF FaultKind
<1> QED
  BY <1>1, <1>2

\* A callback is owed for a workload that the kernel found or made dead.
LEMMA CallbacksComeFrom ==
  ASSUME Shape, Next, NEW s \in Sids, cb'[s], ~cb[s]
  PROVE  wl[s].known = "tracked" /\ ~wl'[s].alive /\ UNCHANGED sessions
<1>1. /\ wl \in [Sids -> Workload] /\ cb \in [Sids -> BOOLEAN] /\ sweep \in Sweep
      /\ stops \in [Stops -> Stop]
  BY DEF Shape, TypeOK
<1>2. ASSUME NEW t \in Sid0, Destroy(t)
      PROVE  wl[s].known = "tracked" /\ ~wl'[s].alive
  <2>1. t = s
    BY <1>1, <1>2 DEF Destroy
  <2> QED
    BY <1>1, <1>2, <2>1 DEF Destroy, Workload
<1>3. ASSUME NEW t \in Sid0, ObserveExit(t), ~wl[t].alive
      PROVE  wl[s].known = "tracked" /\ ~wl'[s].alive
  <2>1. t = s
    BY <1>1, <1>3 DEF ObserveExit
  <2> QED
    BY <1>1, <1>3, <2>1 DEF ObserveExit, Workload
<1>4. ASSUME NEW t \in Sids, SpawnStep(t)
      PROVE  wl[s].known = "tracked" /\ ~wl'[s].alive /\ UNCHANGED sessions
  <2>1. SpawnTeardown(t)
    BY <1>4
    DEF SpawnStep, SpawnInsert, SpawnContinue, SpawnReopen, SpawnCreate,
        SpawnRefused, SpawnReject, SpawnTransportError, SpawnCreateSession,
        SpawnSetContainer, SpawnDbFault, SpawnRaceCheck, substrate
  <2>2. Destroy(t) /\ UNCHANGED sessions
    BY <2>1 DEF SpawnTeardown, BestEffortDelete, substrate, durable
  <2> QED
    BY <1>2, <2>2 DEF Sid0
<1>5. ASSUME NEW d \in Stops, StopStep(d)
      PROVE  wl[s].known = "tracked" /\ ~wl'[s].alive /\ UNCHANGED sessions
  <2>1. StopKill(d) /\ UNCHANGED sessions
    BY <1>5
    DEF StopStep, StopFind, StopListSessions, StopUpdate, StopFault, StopPublish,
        Withdraw, substrate
  <2>2. Destroy(stops[d].container) /\ stops[d].container \in Sid0
    BY <1>1, <2>1 DEF StopKill, BestEffortDelete, substrate, Stop
  <2> QED
    BY <1>2, <2>1, <2>2
<1>6. CASE KernelStep
  <2>1. PICK t \in Sids : KernelReap(t)
    BY <1>1, <1>6 DEF KernelStep, RuntimeCallback, RuntimeCallbackLost, KernelRestart
  <2> QED
    BY <1>3, <1>6, <2>1 DEF KernelReap, Sid0, KernelStep, durable
<1>7. CASE SweepStep
  <2>1. sweep.container \in Sid0 /\ UNCHANGED sessions
    BY <1>1, <1>7 DEF Sweep, SweepStep, durable
  <2>2. \/ Destroy(sweep.container)
        \/ ObserveExit(sweep.container) /\ ~wl[sweep.container].alive
    BY <1>7
    DEF SweepStep, SweepList, SweepPass, SweepProbe, SweepTeardown, SweepPost, substrate
  <2> QED
    BY <1>2, <1>3, <2>1, <2>2
<1> QED
  BY <1>4, <1>5, <1>6, <1>7 DEF Next, BotStep, CallStep, Restart, substrate

LEMMA NextCallbacksAreOfTheGone ==
  ASSUME Shape, Facts, Next
  PROVE  CallbacksAreOfTheGone'
<1> SUFFICES ASSUME NEW s \in Sids, cb'[s] PROVE Gone(s)'
  BY DEF CallbacksAreOfTheGone
<1>1. CASE cb[s]
  BY <1>1, GoneStays DEF Facts, CallbacksAreOfTheGone
<1>2. CASE ~cb[s]
  <2>1. wl[s].known = "tracked" /\ ~wl'[s].alive
    BY <1>2, CallbacksComeFrom
  <2>2. Created(s)
    BY <2>1 DEF Facts, StartedByItsSpawn, Created
  <2> QED
    BY <2>1, <2>2, CreatedStays DEF Gone
<1> QED
  BY <1>1, <1>2

LEMMA AdvanceNamesTarget ==
  ASSUME NEW old \in Record, NEW ev \in Event, NEW force \in BOOLEAN,
         Outcome(old, ev, force) = "advanced",
         ApplyChange(old, ev, force).status \in Terminal
  PROVE  ev.status \in Terminal
<1> DEFINE to    == TargetStatus(old, ev)
           noted == NoteStop(old, ev)
           ends  == \/ to = "failed"
                    \/ to = "completed" /\ noted.stop /\ old.status # "active"
<1>1. noted \in Record
  BY DEF NoteStop, Record, Event
<1>2. ApplyChange(old, ev, force)
        = [noted EXCEPT !.status = to,
                        !.stage = IF ends THEN StageReached(old.status) ELSE old.stage]
  BY DEF ApplyChange
<1>3. to \in Terminal
  BY <1>1, <1>2 DEF Record
<1> QED
  BY <1>3 DEF TargetStatus, Terminal

LEMMA NextEndWasReported ==
  ASSUME Shape, Facts, Next
  PROVE  EndWasReported'
<1>1. calls \subseteq Call
  BY DEF Shape, TypeOK
<1> SUFFICES ASSUME NEW d \in calls', Ending(d) PROVE d.ev.status \in Terminal
  BY DEF EndWasReported, Ending
<1>2. CASE d \in calls
  BY <1>2 DEF Facts, EndWasReported
<1>3. CASE (\A c \in calls : ~CallStep(c)) /\ d \notin calls
  BY <1>3, OtherCalls DEF Arrives, Ending
<1>4. ASSUME NEW c \in calls, CallStep(c), d \notin calls
      PROVE  d.ev.status \in Terminal
  <2>1. CASE Reads(c)
    BY <1>4, <2>1 DEF Reads, Move, Ending
  <2>2. ASSUME NEW before \in Record, NEW force \in BOOLEAN, Meets(c, before, force)
        PROVE  d.ev.status \in Terminal
    <3>1. /\ d.ev = c.ev /\ d.new = ApplyChange(before, c.ev, force)
          /\ Outcome(before, c.ev, force) = "advanced"
      BY <1>4, <2>2 DEF Meets, Move, SameCall
    <3>2. c.ev \in Event
      BY <1>1 DEF Call
    <3> QED
      BY <3>1, <3>2, AdvanceNamesTarget DEF Ending
  <2>3. CASE Writes(c)
    <3>1. d.ev = c.ev /\ d.new = c.new /\ c.pc = "persist"
      BY <1>4, <2>3 DEF Writes, Move, SameCall
    <3> QED
      BY <3>1 DEF Facts, EndWasReported, Ending
  <2>4. CASE CallSettle(c)
    <3>1. d \in Detach(c)
      BY <1>4, <2>4 DEF CallSettle
    <3>2. PICK e \in calls : d = [e EXCEPT !.held = rec[c.on][c.sid].status]
      BY <1>4, <3>1 DEF Detach
    <3>3. d.ev = e.ev /\ d.new = e.new /\ d.pc = e.pc
      BY <1>1, <3>2 DEF Call
    <3> QED
      BY <3>3 DEF Facts, EndWasReported, Ending
  <2> QED
    BY <1>4, <2>1, <2>2, <2>3, <2>4, CallOutcome
<1> QED
  BY <1>2, <1>3, <1>4

LEMMA NextFacts ==
  ASSUME Sequential, Facts, Next
  PROVE  Facts'
<1>1. Shape /\ RowNamesLast
  BY DEF Sequential
<1> QED
  BY <1>1, NextSessionsInserted, NextStartedByItsSpawn, NextCallsAreOfRuns,
     NextSweepListed, NextBotsReport, NextCompensationHasCause,
     NextCallbacksAreOfTheGone, NextEndWasReported DEF Facts

-----------------------------------------------------------------------------
(* One run at a time.  What keeps the bots of two runs apart is the row: it   *)
(* is continued once it has ended, and it ends by a reported end whose record *)
(* has ended too, so that no call of an earlier run can end it again.         *)

\* What the runs assume of the environment: meeting-api lived through them, the
\* runtime was restarted once at most, and a teardown works where a write failed.
Healthy ==
  faults.restart = 0 /\ faults.forget <= 1 /\ 0 \in {faults.db, faults.runtime}

\* A bot is running that the runtime knows of.
Tracked(s) == wl[s].alive /\ bot[s].at \notin Terminal /\ IsKnown(s)

Busy(s) == ~Settled(s) \/ Tracked(s)

\* The records of a run have ended, and its end is no longer to be written.
Concluded(u) ==
  /\ \A r \in Replicas : rec[r][u].status \in Terminal
  /\ \A c \in calls : c.sid = u /\ c.pc = "persist" => c.new.status \notin Terminal

OneBusy == \A s, t \in Sids : Busy(s) /\ Tracked(t) => s = t

OthersConcluded ==
  \A t, u \in Sids : Busy(t) /\ Known(u) /\ u # t => Concluded(u)

EarlierConcluded == \A u \in Sids : Known(u) /\ u # LastSession => Concluded(u)

EndConcludes ==
  row.status \in Terminal => \A u \in Sids : Known(u) => Concluded(u)

FreshRow ==
  \A s \in Sids : spawn[s] \in {"create", "session"} => row.status \notin Terminal

\* A live bot is about to be torn down, where the row, an event or the sweep says
\* that it has ended, and where the row does not name it.
EndLeavesNobody ==
  row.status \in Terminal => \A s \in Sids : Tracked(s) => spawn[s] = "compensate"

EventsAreOfTheEnded ==
  \A c \in calls : c.ev.status \in Terminal /\ Tracked(c.sid) => spawn[c.sid] = "compensate"

SweepIsSure ==
  (sweep.pc = "post" \/ (sweep.pc = "teardown" /\ sweep.container = NoSid))
    => (Tracked(sweep.sid) => spawn[sweep.sid] = "compensate")

UnnamedIsNew ==
  \A u \in Sids : Tracked(u) /\ Known(u) /\ row.container # u
                    => spawn[u] \in {"container", "compensate"}

Apart ==
  /\ OneBusy /\ OthersConcluded /\ EarlierConcluded /\ EndConcludes /\ FreshRow
  /\ EndLeavesNobody /\ EventsAreOfTheEnded /\ SweepIsSure /\ UnnamedIsNew

Runs ==
  /\ Sequential /\ Announcing /\ Facts
  /\ Healthy => Apart

\* A step between two healthy states.
Step == Runs /\ Apart /\ Next /\ OneSpawnAtATime /\ Healthy /\ Healthy'

LEMMA HealthyBefore ==
  ASSUME Shape, Next, Healthy'
  PROVE  /\ Healthy /\ ~Restart
         /\ faults.db > 0 => ~Fail("runtime")
         /\ Fail("forget") => faults.forget = 0
<1>1. \A k \in FaultKind :
        /\ faults[k] \in Nat /\ faults'[k] \in Nat /\ faults[k] <= faults'[k]
        /\ Fail(k) => faults'[k] = faults[k] + 1
  BY FaultsGrow
<1>2. {"restart", "forget", "db", "runtime"} \subseteq FaultKind
  BY DEF FaultKind
<1> QED
  BY <1>1, <1>2 DEF Healthy, Restart

LEMMA TrackedBefore ==
  ASSUME Step, NEW t \in Sids, Tracked(t)'
  PROVE  Starts(t) \/ Tracked(t)
<1>1. Shape /\ Next /\ Facts /\ bot \in [Sids -> Bot]
  BY DEF Step, Runs, Sequential, Shape, TypeOK
<1>2. /\ wl'[t].alive /\ bot'[t].at \notin Terminal
      /\ wl'[t].known \in {"tracked", "adopted"}
  BY DEF Tracked, IsKnown
<1>3. CASE Dies(t)
  BY <1>2, <1>3 DEF Dies
<1>4. CASE Lives(t) /\ Reaches(t)
  <2>1. bot[t].at \notin Terminal
    BY <1>4 DEF Reaches, LegalTransitions, NoStatus, Terminal
  <2> QED
    BY <1>2, <1>4, <2>1 DEF Lives, Tracked, IsKnown
<1>5. CASE Lives(t) /\ Says(t)
  BY <1>2, <1>5 DEF Lives, Says, Tracked, IsKnown
<1>6. CASE Relisted(t) /\ UNCHANGED bot
  <2>1. faults.forget = 0
    BY <1>1, <1>6, HealthyBefore DEF Relisted, Step
  <2>2. wl[t].known \in {"none", "tracked"}
    BY <1>1, <2>1 DEF Facts, StartedByItsSpawn
  <2> QED
    BY <1>2, <1>6, <2>2 DEF Relisted, Tracked, IsKnown
<1> QED
  BY <1>1, <1>3, <1>4, <1>5, <1>6, WorkloadMoves

LEMMA BusyBefore ==
  ASSUME Step, NEW t \in Sids, Busy(t)'
  PROVE  Busy(t) \/ (spawn[t] = "idle" /\ SpawnStep(t))
<1>1. Shape /\ Next
  BY DEF Step, Runs, Sequential
<1>2. CASE Tracked(t)'
  BY <1>2, TrackedBefore DEF Starts, Busy, Settled
<1>3. CASE ~Settled(t)'
  <2>1. spawn'[t] \notin {"idle", "done"}
    BY <1>3 DEF Settled
  <2> QED
    BY <1>1, <2>1, SpawnAfter DEF SpawnEdge, Busy, Settled
<1> QED
  BY <1>2, <1>3 DEF Busy

\* A bot whose spawn could not be recorded is torn down by it.
LEMMA CompensateStays ==
  ASSUME Step, NEW t \in Sids, Tracked(t)', spawn[t] = "compensate"
  PROVE  spawn'[t] = "compensate"
<1>1. Shape /\ Next /\ Facts /\ wl \in [Sids -> Workload] /\ ~Restart
  BY HealthyBefore DEF Step, Runs, Sequential, Shape, TypeOK
<1>2. wl'[t].alive /\ IsKnown(t)'
  BY DEF Tracked
<1>3. CASE SpawnStep(t)
  <2>1. SpawnTeardown(t)
    BY <1>3
    DEF SpawnStep, SpawnInsert, SpawnContinue, SpawnReopen, SpawnCreate,
        SpawnRefused, SpawnReject, SpawnTransportError, SpawnCreateSession,
        SpawnSetContainer, SpawnDbFault, SpawnRaceCheck
  <2>2. ~Fail("runtime")
    BY <1>1, HealthyBefore DEF Facts, CompensationHasCause, Step
  <2>3. ~Destroy(t)
    BY <1>1, <1>2 DEF Destroy, Workload
  <2>4. ~IsKnown(t) /\ UNCHANGED wl
    BY <2>1, <2>2, <2>3 DEF SpawnTeardown, BestEffortDelete, substrate
  <2> QED
    BY <1>2, <2>4 DEF IsKnown
<1> QED
  BY <1>1, <1>3, SpawnAfter

LEMMA ConcludedStays ==
  ASSUME Step, OneReplica, NEW u \in Sids, Concluded(u)
  PROVE  Concluded(u)'
<1>1. /\ Shape /\ NoWithdrawal /\ Next /\ calls \subseteq Call
      /\ rec \in [Replicas -> [Sids -> Record]]
      /\ faults.restart = 0 /\ faults'.restart = 0
  BY DEF Step, Runs, Sequential, Announcing, Untaken, Shape, TypeOK, Healthy
<1>2. \A r \in Replicas : rec'[r][u].status \in Terminal
  BY <1>1, NextTerminalUntaken DEF Concluded
<1>3. ASSUME NEW d \in calls', d.sid = u, d.pc = "persist", d.new.status \in Terminal
      PROVE  FALSE
  <2>1. d \notin calls
    BY <1>3 DEF Concluded
  <2>2. PICK c \in calls : CallStep(c)
    BY <1>1, <1>3, <2>1, OtherCalls DEF Arrives
  <2>3. c \in Call /\ c.on \in Replicas /\ c.ev \in Event
    BY <1>1, <2>2 DEF Call
  <2>4. ~Reads(c) /\ ~Writes(c)
    BY <1>3, <2>1 DEF Reads, Writes, Move
  <2>5. CASE CallSettle(c)
    BY <1>1, <2>1, <2>5 DEF CallSettle, Suppresses, NoWithdrawal
  <2>6. ASSUME NEW before \in Record, NEW force \in BOOLEAN, Meets(c, before, force)
        PROVE  FALSE
    <3>1. c.sid = u /\ Outcome(before, c.ev, force) = "advanced"
      BY <1>3, <2>1, <2>6 DEF Meets, Move, SameCall
    <3>2. rec[c.on][c.sid].status \in Terminal
      BY <2>3, <3>1 DEF Concluded
    <3>3. before.status \in Terminal
      BY <2>6, <3>2 DEF Meets, Terminal, NoStatus
    <3> QED
      BY <2>3, <3>1, <3>3, AdvanceStarts
  <2> QED
    BY <1>1, <2>2, <2>4, <2>5, <2>6, CallOutcome
<1> QED
  BY <1>2, <1>3 DEF Concluded

\* A row ends by a refused spawn or by the reported end of a run.
LEMMA RowEnds ==
  ASSUME Shape, Facts, Next, row'.status \in Terminal, row.status \notin Terminal
  PROVE  \/ \E s \in Sids : spawn[s] = "reject" /\ SpawnStep(s) /\ UNCHANGED sessions
         \/ \E c \in calls : /\ CallPersist(c) /\ CallStep(c) /\ Known(c.sid)
                             /\ c.new.status \in Terminal
<1>1. row \in Row /\ stops \in [Stops -> Stop] /\ calls \subseteq Call
  BY DEF Shape, TypeOK
<1>2. ASSUME NEW s \in Sids, SpawnStep(s)
      PROVE  spawn[s] = "reject" /\ UNCHANGED sessions
  <2>1. spawn[s] = "reject"
    BY <1>1, <1>2, SpawnRows DEF SpawnRow, Row, Terminal
  <2> QED
    BY <1>2, <2>1
    DEF SpawnStep, SpawnInsert, SpawnContinue, SpawnReopen, SpawnCreate,
        SpawnRefused, SpawnReject, SpawnTransportError, SpawnCreateSession,
        SpawnSetContainer, SpawnDbFault, SpawnTeardown, SpawnRaceCheck, durable
<1>3. ASSUME NEW s, NEW status, NEW stop, NEW stage,
             UpdateMeetingStatus(s, status, stop, stage)
      PROVE  Known(s) /\ status \in Terminal
  BY <1>1, <1>3 DEF UpdateMeetingStatus, Row, StatusKept, Suppressed, Terminal
<1>4. ASSUME NEW d \in Stops, StopStep(d)
      PROVE  FALSE
  <2>1. CASE StopUpdate(d)
    <3> DEFINE v == IF stops[d].status \in Booting THEN stops[d].status ELSE "stopping"
    <3>1. UpdateMeetingStatus(stops[d].last, v, TRUE, NoStage)
      BY <2>1 DEF StopUpdate
    <3>2. v \notin Terminal
      BY DEF Booting, Terminal
    <3> HIDE DEF v
    <3> QED
      BY <1>3, <3>1, <3>2
  <2>2. CASE Withdraw(d)
    BY <1>1, <2>2 DEF Withdraw, Row, Terminal
  <2> QED
    BY <1>4, <2>1, <2>2
    DEF StopStep, StopFind, StopListSessions, StopFault, StopPublish, StopKill
<1>5. ASSUME NEW c \in calls, CallStep(c)
      PROVE  CallPersist(c) /\ Known(c.sid) /\ c.new.status \in Terminal
  <2>1. CallPersist(c)
    BY <1>5
    DEF CallStep, CallReadStatus, CallRehydrate, CallReadStop, CallApply,
        CallPersistFails, CallSettle
  <2> QED
    BY <1>3, <2>1 DEF CallPersist
<1> QED
  BY <1>2, <1>4, <1>5 DEF Next, BotStep, KernelStep, SweepStep, Restart, durable

\* A POST /bots begins where nobody is running, and every run before has ended.
LEMMA SpawnBegins ==
  ASSUME Step, NEW s \in Sids, spawn[s] = "idle", SpawnStep(s)
  PROVE  /\ \A t \in Sids : Settled(t) /\ ~Tracked(t)
         /\ \A u \in Sids : Known(u) => Concluded(u)
         /\ UNCHANGED sessions
<1>1. /\ Shape /\ RowFirst /\ Facts /\ spawn'[s] # "idle"
      /\ EndLeavesNobody /\ EndConcludes
  BY SpawnMoves DEF Step, Runs, Sequential, Shape, SpawnEdge, Apart
<1>2. \A t \in Sids : Settled(t)
  BY <1>1 DEF Step, OneSpawnAtATime
<1>3. SpawnInsert(s) \/ SpawnContinue(s)
  BY DEF SpawnStep, SpawnReopen, SpawnCreate, SpawnRefused, SpawnReject,
         SpawnTransportError, SpawnCreateSession, SpawnSetContainer, SpawnDbFault,
         SpawnTeardown, SpawnRaceCheck
<1>4. CASE SpawnInsert(s)
  <2>1. sessions = <<>> /\ \A t \in Sids : spawn[t] = "idle"
    BY <1>1, <1>4 DEF SpawnInsert, RowFirst
  <2>2. \A t \in Sids : ~Tracked(t)
    BY <1>1, <2>1 DEF Facts, StartedByItsSpawn, Tracked
  <2>3. \A u \in Sids : ~Known(u)
    BY <2>1 DEF Known
  <2> QED
    BY <1>2, <1>4, <2>2, <2>3 DEF SpawnInsert
<1>5. CASE SpawnContinue(s)
  <2>1. row.status \in Terminal /\ UNCHANGED sessions
    BY <1>5 DEF SpawnContinue, durable
  <2>2. \A t \in Sids : ~Tracked(t)
    BY <1>1, <1>2, <2>1 DEF EndLeavesNobody, Settled
  <2> QED
    BY <1>1, <1>2, <2>1, <2>2 DEF EndConcludes
<1> QED
  BY <1>3, <1>4, <1>5

LEMMA NextOneBusy ==
  ASSUME Step
  PROVE  OneBusy'
<1> SUFFICES ASSUME NEW s \in Sids, NEW t \in Sids, Busy(s)', Tracked(t)'
             PROVE  s = t
  BY DEF OneBusy
<1>1. OneBusy /\ OneSpawn
  BY DEF Step, Runs, Sequential, Apart
<1>2. ~Settled(t) \/ Tracked(t)
  BY TrackedBefore DEF Starts, Settled
<1>3. CASE Busy(s)
  BY <1>1, <1>2, <1>3 DEF OneBusy, OneSpawn, Busy
<1>4. CASE spawn[s] = "idle" /\ SpawnStep(s)
  BY <1>2, <1>4, SpawnBegins
<1> QED
  BY <1>3, <1>4, BusyBefore

LEMMA NextOthersConcluded ==
  ASSUME Step, OneReplica
  PROVE  OthersConcluded'
<1> SUFFICES ASSUME NEW t \in Sids, NEW u \in Sids, Busy(t)', Known(u)', u # t
             PROVE  Concluded(u)'
  BY DEF OthersConcluded
<1>1. Shape /\ Next /\ OneBusy /\ OneSpawn /\ OthersConcluded
  BY DEF Step, Runs, Sequential, Apart
<1>2. CASE spawn[t] = "idle" /\ SpawnStep(t)
  <2>1. Known(u)
    BY <1>2, SpawnBegins DEF Known
  <2> QED
    BY <1>2, <2>1, SpawnBegins, ConcludedStays
<1>3. CASE Busy(t) /\ Known(u)
  BY <1>1, <1>3, ConcludedStays DEF OthersConcluded
<1>4. CASE Busy(t) /\ ~Known(u)
  <2>1. spawn[u] = "session"
    BY <1>1, <1>4, KnownMoves
  <2>2. ~Settled(u) /\ Busy(u)
    BY <2>1 DEF Settled, Busy
  <2> QED
    BY <1>1, <1>4, <2>2 DEF OneBusy, OneSpawn, Busy
<1> QED
  BY <1>2, <1>3, <1>4, BusyBefore

LEMMA SessionsMove ==
  ASSUME Shape, Next
  PROVE  \/ UNCHANGED sessions
         \/ \E v \in Sids : /\ spawn[v] = "session" /\ SpawnStep(v) /\ UNCHANGED row
                            /\ sessions' = Append(sessions, v)
<1>1. ASSUME NEW v \in Sids, SpawnCreateSession(v), SpawnStep(v)
      PROVE  /\ spawn[v] = "session" /\ UNCHANGED row
             /\ sessions' = Append(sessions, v)
  BY <1>1 DEF SpawnCreateSession
<1> QED
  BY <1>1
  DEF Next, SpawnStep, SpawnInsert, SpawnContinue, SpawnReopen, SpawnCreate,
      SpawnRefused, SpawnReject, SpawnTransportError, SpawnSetContainer,
      SpawnDbFault, SpawnTeardown, SpawnRaceCheck, BotStep, StopStep, CallStep,
      KernelStep, SweepStep, Restart, durable

LEMMA LastAppended ==
  ASSUME Shape, NEW v \in Sids, sessions' = Append(sessions, v)
  PROVE  LastSession' = v
<1>1. sessions \in Seq(Sids)
  BY DEF Shape, TypeOK
<1> QED
  BY <1>1 DEF LastSession

LEMMA NextEarlierConcluded ==
  ASSUME Step, OneReplica
  PROVE  EarlierConcluded'
<1> SUFFICES ASSUME NEW u \in Sids, Known(u)', u # LastSession'
             PROVE  Concluded(u)'
  BY DEF EarlierConcluded
<1>1. Shape /\ Next /\ OthersConcluded /\ EarlierConcluded
  BY DEF Step, Runs, Sequential, Apart
<1>2. CASE UNCHANGED sessions
  <2>1. Known(u) /\ u # LastSession
    BY <1>2 DEF Known, LastSession
  <2> QED
    BY <1>1, <2>1, ConcludedStays DEF EarlierConcluded
<1>3. ASSUME NEW v \in Sids, spawn[v] = "session", sessions' = Append(sessions, v)
      PROVE  Concluded(u)'
  <2>1. u # v /\ Busy(v)
    BY <1>1, <1>3, LastAppended DEF Busy, Settled
  <2>2. Known(u)
    BY <1>1, KnownMoves, LastAppended
  <2> QED
    BY <1>1, <2>1, <2>2, ConcludedStays DEF OthersConcluded
<1> QED
  BY <1>1, <1>2, <1>3, SessionsMove

\* A row ends by a refused spawn, or by the end of its last run.
LEMMA LastRunEnds ==
  ASSUME Step, row'.status \in Terminal, row.status \notin Terminal
  PROVE  \/ \E s \in Sids : spawn[s] = "reject" /\ ~Known(s) /\ UNCHANGED sessions
         \/ \E c \in calls : /\ CallPersist(c) /\ Ending(c) /\ Known(c.sid)
                             /\ ~Concluded(c.sid) /\ c.sid = LastSession
                             /\ c.sid \in Sids /\ c.on \in Replicas
<1>1. /\ Shape /\ Facts /\ Next /\ EarlierConcluded /\ calls \subseteq Call
  BY DEF Step, Runs, Sequential, Shape, TypeOK, Apart
<1>2. ASSUME NEW s \in Sids, spawn[s] = "reject"
      PROVE  ~Known(s)
  BY <1>1, <1>2 DEF Facts, SessionsInserted
<1>3. ASSUME NEW c \in calls, CallPersist(c), Known(c.sid), c.new.status \in Terminal
      PROVE  /\ Ending(c) /\ ~Concluded(c.sid) /\ c.sid = LastSession
             /\ c.sid \in Sids /\ c.on \in Replicas
  <2>1. c.pc = "persist" /\ c.sid \in Sids /\ c.on \in Replicas
    BY <1>1, <1>3 DEF CallPersist, Call
  <2>2. Ending(c) /\ ~Concluded(c.sid)
    BY <1>3, <2>1 DEF Ending, Concluded
  <2> QED
    BY <1>1, <1>3, <2>1, <2>2 DEF EarlierConcluded
<1> QED
  BY <1>1, <1>2, <1>3, RowEnds

LEMMA NextFreshRow ==
  ASSUME Step
  PROVE  FreshRow'
<1> SUFFICES ASSUME NEW s \in Sids, spawn'[s] \in {"create", "session"},
                    row'.status \in Terminal
             PROVE  FALSE
  BY DEF FreshRow
<1>1. /\ Shape /\ Next /\ Facts /\ OneSpawn /\ FreshRow /\ OthersConcluded
      /\ row \in Row
  BY DEF Step, Runs, Sequential, Shape, TypeOK, Apart
<1>2. CASE spawn[s] \in {"create", "session"}
  <2>1. row.status \notin Terminal /\ ~Settled(s) /\ ~Known(s)
    BY <1>1, <1>2 DEF FreshRow, Settled, Facts, SessionsInserted
  <2>2. ASSUME NEW t \in Sids, spawn[t] = "reject"
        PROVE  FALSE
    BY <1>1, <1>2, <2>1, <2>2 DEF OneSpawn, Settled
  <2>3. ASSUME NEW c \in calls, Known(c.sid), ~Concluded(c.sid), c.sid \in Sids
        PROVE  FALSE
    BY <1>1, <2>1, <2>3 DEF OthersConcluded, Busy
  <2> QED
    BY <2>1, <2>2, <2>3, LastRunEnds
<1>3. CASE spawn[s] \notin {"create", "session"}
  <2>1. SpawnStep(s) /\ spawn[s] \in {"idle", "reopen"} /\ spawn'[s] = "create"
    BY <1>1, <1>3, SpawnAfter DEF SpawnEdge
  <2>2. SpawnInsert(s) \/ SpawnReopen(s)
    BY <1>1, <2>1
    DEF SpawnStep, SpawnContinue, SpawnCreate, SpawnRefused, SpawnReject,
        SpawnTransportError, SpawnCreateSession, SpawnSetContainer, SpawnDbFault,
        SpawnTeardown, SpawnRaceCheck, Shape, TypeOK
  <2>3. row'.status = "requested"
    BY <1>1, <2>2 DEF SpawnInsert, SpawnReopen, Row
  <2> QED
    BY <2>3 DEF Terminal
<1> QED
  BY <1>2, <1>3

LEMMA NextEndConcludes ==
  ASSUME Step, OneReplica
  PROVE  EndConcludes'
<1> SUFFICES ASSUME row'.status \in Terminal, NEW u \in Sids, Known(u)'
             PROVE  Concluded(u)'
  BY DEF EndConcludes
<1>1. /\ Shape /\ Next /\ Facts /\ EndedByOne /\ calls \subseteq Call
      /\ EndConcludes /\ OthersConcluded /\ EarlierConcluded /\ FreshRow
  BY DEF Step, Runs, Sequential, Shape, TypeOK, Apart, Announcing, Healthy
<1>2. CASE ~Known(u)
  BY <1>1, <1>2, KnownMoves DEF FreshRow
<1>3. CASE Known(u) /\ row.status \in Terminal
  BY <1>1, <1>3, ConcludedStays DEF EndConcludes
<1>4. CASE Known(u) /\ row.status \notin Terminal
  <2>1. ASSUME NEW s \in Sids, spawn[s] = "reject", ~Known(s)
        PROVE  Concluded(u)'
    <3>1. Busy(s) /\ u # s
      BY <1>4, <2>1 DEF Busy, Settled
    <3> QED
      BY <1>1, <1>4, <3>1, ConcludedStays DEF OthersConcluded
  <2>2. ASSUME NEW c \in calls, CallPersist(c), Ending(c), c.sid = LastSession,
               c.on \in Replicas
        PROVE  Concluded(u)'
    <3>1. CASE u # LastSession
      BY <1>1, <1>4, <3>1, ConcludedStays DEF EarlierConcluded
    <3>2. CASE u = c.sid
      <4>1. \A r \in Replicas : rec[r][u].status \in Terminal
        BY <1>1, <2>2, <3>2 DEF EndedByOne, OneReplica
      <4>2. PICK d : calls' = (calls \ {c}) \cup {d} /\ d.pc = "settle" /\ UNCHANGED rec
        <5> DEFINE shown == IF ~Known(c.sid) THEN "nothing"
                            ELSE IF row.withdrawn THEN "withdrawn" ELSE "row"
                   d == [c EXCEPT !.pc = "settle", !.shown = shown]
        <5>1. calls' = (calls \ {c}) \cup {d} /\ UNCHANGED rec
          BY <2>2 DEF CallPersist, Move
        <5> HIDE DEF shown
        <5>2. d.pc = "settle"
          BY <1>1 DEF Call
        <5> HIDE DEF d
        <5> QED
          BY <5>1, <5>2
      <4>3. ASSUME NEW e \in calls', e.sid = u, e.pc = "persist", e.new.status \in Terminal
            PROVE  FALSE
        <5>1. e \in calls /\ e # c /\ Ending(e)
          BY <4>2, <4>3 DEF Ending
        <5> QED
          BY <1>1, <2>2, <3>2, <4>3, <5>1 DEF EndedByOne
      <4> QED
        BY <4>1, <4>2, <4>3 DEF Concluded
    <3> QED
      BY <2>2, <3>1, <3>2
  <2> QED
    BY <1>4, <2>1, <2>2, LastRunEnds
<1> QED
  BY <1>2, <1>3, <1>4

LEMMA NextEndLeavesNobody ==
  ASSUME Step
  PROVE  EndLeavesNobody'
<1> SUFFICES ASSUME row'.status \in Terminal, NEW s \in Sids, Tracked(s)'
             PROVE  spawn'[s] = "compensate"
  BY DEF EndLeavesNobody
<1>1. /\ Shape /\ Next /\ Facts /\ OneBusy /\ FreshRow /\ OthersConcluded
      /\ EndLeavesNobody /\ EventsAreOfTheEnded
  BY DEF Step, Runs, Sequential, Apart
<1>2. CASE Starts(s)
  BY <1>1, <1>2 DEF Starts, durable, FreshRow
<1>3. CASE Tracked(s) /\ row.status \in Terminal
  BY <1>1, <1>3, CompensateStays DEF EndLeavesNobody
<1>4. CASE Tracked(s) /\ row.status \notin Terminal
  <2>1. ASSUME NEW t \in Sids, spawn[t] = "reject"
        PROVE  FALSE
    <3>1. s = t
      BY <1>1, <1>4, <2>1 DEF OneBusy, Busy, Settled
    <3> QED
      BY <1>1, <1>4, <2>1, <3>1 DEF Facts, StartedByItsSpawn, Tracked
  <2>2. ASSUME NEW c \in calls, Ending(c), Known(c.sid), ~Concluded(c.sid), c.sid \in Sids
        PROVE  spawn[s] = "compensate"
    <3>1. c.sid = s
      BY <1>1, <1>4, <2>2 DEF OthersConcluded, Busy
    <3>2. c.ev.status \in Terminal
      BY <1>1, <2>2 DEF Facts, EndWasReported
    <3> QED
      BY <1>1, <1>4, <3>1, <3>2 DEF EventsAreOfTheEnded
  <2> QED
    BY <1>4, <2>1, <2>2, LastRunEnds, CompensateStays
<1> QED
  BY <1>2, <1>3, <1>4, TrackedBefore

LEMMA NextEventsAreOfTheEnded ==
  ASSUME Step
  PROVE  EventsAreOfTheEnded'
<1> SUFFICES ASSUME NEW d \in calls', d.ev.status \in Terminal, Tracked(d.sid)'
             PROVE  spawn'[d.sid] = "compensate"
  BY DEF EventsAreOfTheEnded
<1>1. /\ Shape /\ Next /\ Facts /\ RowNamesLast /\ calls \subseteq Call
      /\ EventsAreOfTheEnded /\ SweepIsSure
  BY DEF Step, Runs, Sequential, Shape, TypeOK, Apart
<1>2. calls' \subseteq Call
  BY <1>1, NextShape DEF Shape, TypeOK
<1>3. PICK s \in Sids : s = d.sid
  BY <1>2 DEF Call
<1>4. Starts(s) \/ Tracked(s)
  BY <1>3, TrackedBefore
<1>5. ASSUME NEW e \in calls, SameCall(e, d)
      PROVE  spawn'[s] = "compensate"
  <2>1. e.sid = s /\ e.ev = d.ev
    BY <1>3, <1>5 DEF SameCall
  <2>2. ~Starts(s)
    BY <1>1, <2>1 DEF Facts, CallsAreOfRuns, Created, Starts
  <2>3. spawn[s] = "compensate"
    BY <1>1, <1>4, <2>1, <2>2 DEF EventsAreOfTheEnded
  <2> QED
    BY <1>3, <2>3, CompensateStays
<1>6. CASE (\A c \in calls : ~CallStep(c)) /\ d \notin calls
  <2>1. UNCHANGED spawn /\ (BotSays(d) \/ RuntimeSays(d) \/ SweepSays(d))
    BY <1>1, <1>6, CallsArriveFrom
  <2>2. Tracked(s)
    BY <1>4, <2>1 DEF Starts
  <2>3. ~BotSays(d)
    <3>1. bot[s].out \in {NoStatus, bot[s].at} /\ bot[s].at \notin Terminal
      BY <1>1, <2>2 DEF Facts, BotsReportWhereTheyAre, Tracked
    <3> QED
      BY <1>3, <3>1 DEF BotSays, NoStatus, Terminal
  <2>4. ~RuntimeSays(d)
    <3>1. RuntimeSays(d) => d.from = s /\ cb[s]
      BY <1>1, <1>3, SidsAssumption DEF RuntimeSays, RowNamesLast
    <3> QED
      BY <1>1, <2>2, <3>1 DEF Facts, CallbacksAreOfTheGone, Gone, Tracked
  <2>5. SweepSays(d) => spawn[s] = "compensate"
    <3>1. SweepSays(d) => sweep.pc = "post" /\ sweep.sid = s
      BY <1>3 DEF SweepSays
    <3> QED
      BY <1>1, <2>2, <3>1 DEF SweepIsSure
  <2> QED
    BY <1>3, <2>1, <2>3, <2>4, <2>5
<1>7. d \in calls => SameCall(d, d)
  BY DEF SameCall
<1> QED
  BY <1>1, <1>3, <1>5, <1>6, <1>7, CallsKeep

LEMMA NextSweepIsSure ==
  ASSUME Step
  PROVE  SweepIsSure'
<1> DEFINE Sure == sweep'.pc = "post" \/ (sweep'.pc = "teardown" /\ sweep'.container = NoSid)
<1>1. /\ Shape /\ Next /\ Facts /\ SweepNamesRun /\ SweepIsSure /\ UnnamedIsNew
      /\ wl \in [Sids -> Workload]
  BY DEF Step, Runs, Sequential, Shape, TypeOK, Apart
<1>2. ASSUME NEW s \in Sids, sweep'.sid = s, Sure, Tracked(s)'
      PROVE  spawn'[s] = "compensate"
  <2>1. Starts(s) \/ Tracked(s)
    BY <1>2, TrackedBefore
  <2>2. spawn' = spawn => Tracked(s)
    BY <2>1 DEF Starts
  <2>3. CASE Lists
    <3>1. /\ Stale /\ UNCHANGED spawn /\ s = LastSession /\ Known(s)
          /\ row.container = NoSid /\ sessions # <<>>
      BY <1>1, <1>2, <2>3, LastIsKnown DEF Lists, Stale, requests
    <3>2. spawn[s] \in {"container", "compensate"}
      BY <1>1, <1>2, <2>2, <3>1, SidsAssumption DEF UnnamedIsNew
    <3> QED
      BY <1>2, <3>1, <3>2 DEF Stale, Settled
  <2>4. CASE HoldsOn
    <3>1. /\ UNCHANGED spawn /\ sweep.sid = s /\ Tracked(s) /\ ~sweep.presumed
          /\ sweep.pc \in {"probe", "teardown"} /\ sweep'.container = sweep.container
          /\ sweep.pc = "probe" => sweep.container # NoSid
      BY <1>1, <1>2, <2>2, <2>4 DEF HoldsOn, Facts, SweepListed, requests
    <3>2. sweep.container # NoSid => sweep.container = s
      BY <1>1, <3>1 DEF SweepNamesRun
    <3>3. CASE sweep'.presumed
      BY <2>4, <3>1, <3>2, <3>3 DEF HoldsOn, Tracked
    <3>4. CASE ~sweep'.presumed
      <4>1. sweep.pc = "teardown"
        BY <1>2, <2>4, <3>1, <3>4 DEF HoldsOn
      <4>2. CASE sweep.container = NoSid
        BY <1>1, <3>1, <4>1, <4>2 DEF SweepIsSure
      <4>3. CASE Destroy(s)
        BY <1>1, <1>2, <4>3 DEF Destroy, Workload, Tracked
      <4> QED
        BY <2>4, <3>2, <3>4, <4>1, <4>2, <4>3 DEF HoldsOn
    <3> QED
      BY <3>3, <3>4
  <2>5. CASE sweep' = sweep
    <3>1. Known(s) /\ (Tracked(s) => spawn[s] = "compensate")
      BY <1>1, <1>2, <2>5 DEF Facts, SweepListed, SweepIsSure
    <3>2. ~Starts(s)
      BY <1>1, <3>1 DEF Facts, SessionsInserted, Starts
    <3> QED
      BY <1>2, <2>1, <3>1, <3>2, CompensateStays
  <2> QED
    BY <1>1, <1>2, <2>3, <2>4, <2>5, SweepMoves
<1>3. Sure => sweep'.sid \in Sids
  BY <1>1, NextShape DEF Shape, SweepHasSession
<1>4. Tracked(sweep.sid)' => \A s \in Sids : sweep'.sid = s => Tracked(s)'
  BY DEF Tracked, IsKnown
<1>5. SweepIsSure' <=> (Sure => (Tracked(sweep.sid)' => spawn'[sweep'.sid] = "compensate"))
  BY DEF SweepIsSure
<1> HIDE DEF Sure
<1> QED
  BY <1>2, <1>3, <1>4, <1>5

LEMMA NextUnnamedIsNew ==
  ASSUME Step
  PROVE  UnnamedIsNew'
<1> SUFFICES ASSUME NEW u \in Sids, Tracked(u)', Known(u)', row'.container # u
             PROVE  spawn'[u] \in {"container", "compensate"}
  BY DEF UnnamedIsNew
<1>1. /\ Shape /\ Next /\ Facts /\ OneBusy /\ UnnamedIsNew /\ ~Restart
      /\ row \in Row /\ spawn \in [Sids -> SpawnPc]
  BY HealthyBefore DEF Step, Runs, Sequential, Shape, TypeOK, Apart
<1>2. CASE Starts(u)
  <2>1. Known(u)
    BY <1>2 DEF Starts, durable, Known
  <2> QED
    BY <1>1, <1>2, <2>1 DEF Starts, Facts, SessionsInserted
<1>3. CASE ~Known(u)
  BY <1>1, <1>3, KnownMoves
<1>4. CASE Tracked(u) /\ Known(u) /\ row.container # u
  <2>1. spawn[u] = "container" \/ spawn[u] = "compensate"
    BY <1>1, <1>4 DEF UnnamedIsNew
  <2>2. ASSUME spawn[u] = "container", spawn'[u] = "race", SpawnStep(u)
        PROVE  FALSE
    <3>1. SpawnSetContainer(u)
      BY <1>1, <2>2
      DEF SpawnStep, SpawnInsert, SpawnContinue, SpawnReopen, SpawnCreate,
          SpawnRefused, SpawnReject, SpawnTransportError, SpawnCreateSession,
          SpawnDbFault, SpawnTeardown, SpawnRaceCheck
    <3> QED
      BY <1>1, <3>1 DEF SpawnSetContainer, Row
  <2>3. CASE spawn[u] = "container"
    BY <1>1, <2>2, <2>3, SpawnAfter DEF SpawnEdge
  <2>4. CASE spawn[u] = "compensate"
    BY <2>4, CompensateStays
  <2> QED
    BY <2>1, <2>3, <2>4
<1>5. CASE Tracked(u) /\ row.container = u
  <2>1. PICK s \in Sids : SpawnStep(s)
    BY <1>1, <1>5, OthersKeepContainer
  <2>2. spawn[s] \in {"reopen", "container"}
    <3>1. CASE row' = [row EXCEPT !.status = "requested"]
      BY <1>1, <1>5, <3>1 DEF Row
    <3>2. CASE row' = [row EXCEPT !.status = "failed", !.stage = "runtime_spawn"]
      BY <1>1, <1>5, <3>2 DEF Row
    <3> QED
      BY <1>1, <1>5, <2>1, <3>1, <3>2, SpawnRows DEF SpawnRow
  <2>3. s = u
    BY <1>1, <1>5, <2>2 DEF OneBusy, Busy, Settled
  <2>4. spawn[u] = "container"
    BY <1>1, <1>5, <2>2, <2>3 DEF Facts, StartedByItsSpawn, Tracked
  <2> QED
    BY <1>1, <1>5, <2>1, <2>3, <2>4, SpawnRows DEF SpawnRow, Row
<1> QED
  BY <1>2, <1>3, <1>4, <1>5, TrackedBefore

LEMMA NextRuns ==
  ASSUME Runs, Next, OneSpawnAtATime, OneReplica, MaxWithdrawals = 0
  PROVE  Runs'
<1>1. Shape /\ OneSpawn
  BY DEF Runs, Sequential
<1>2. Sequential'
  BY <1>1, NextShape, NextOneSpawn, NextRowNamesLast, NextSweepNamesRun,
     NextEvidenceNames DEF Runs, Sequential
<1>3. Announcing' /\ Facts'
  BY NextAnnouncing, NextFacts DEF Runs
<1>4. ASSUME Healthy'
      PROVE  Apart'
  <2>1. Step
    BY <1>1, <1>4, HealthyBefore DEF Runs, Step
  <2> QED
    BY <2>1, NextOneBusy, NextOthersConcluded, NextEarlierConcluded,
       NextEndConcludes, NextFreshRow, NextEndLeavesNobody,
       NextEventsAreOfTheEnded, NextSweepIsSure, NextUnnamedIsNew DEF Apart
<1> QED
  BY <1>2, <1>3, <1>4 DEF Runs

LEMMA InitRuns == Init => Runs
<1> SUFFICES ASSUME Init PROVE Runs
  OBVIOUS
<1>1. Shape
  BY InitShape
<1>2. Sequential
  BY <1>1
  DEF Init, Sequential, OneSpawn, Settled, RowNamesLast, SweepNamesRun, IdleSweep,
      EvidenceNamesItsRun
<1>3. Announcing
  BY <1>1 DEF Init, Announcing, Untaken, NoWithdrawal, FaultKind, EndedByOne
<1>4. \A s \in Sids : ~Known(s) /\ ~Tracked(s) /\ Settled(s)
  BY DEF Init, Known, Tracked, Settled
<1>5. Facts
  BY <1>4
  DEF Init, Facts, SessionsInserted, StartedByItsSpawn, CallsAreOfRuns, SweepListed,
      IdleSweep, BotsReportWhereTheyAre, NoBot, CompensationHasCause,
      CallbacksAreOfTheGone, EndWasReported
<1>6. Apart
  BY <1>4
  DEF Init, Apart, OneBusy, OthersConcluded, EarlierConcluded, EndConcludes,
      FreshRow, Settled, EndLeavesNobody, EventsAreOfTheEnded, SweepIsSure,
      IdleSweep, UnnamedIsNew, Terminal
<1> QED
  BY <1>2, <1>3, <1>5, <1>6 DEF Runs

LEMMA RunsSpec ==
  ASSUME OneReplica, MaxWithdrawals = 0
  PROVE  SequentialSpec => []Runs
<1>1. Runs /\ [Next /\ OneSpawnAtATime]_vars => Runs'
  <2> SUFFICES ASSUME Runs, [Next /\ OneSpawnAtATime]_vars PROVE Runs'
    OBVIOUS
  <2>1. CASE Next /\ OneSpawnAtATime
    BY <2>1, NextRuns
  <2>2. CASE UNCHANGED vars
    <3>1. Shape'
      BY <2>2, NextShape DEF Runs, Sequential
    <3>2. Sequential'
      BY <2>2, <3>1
      DEF vars, durable, memory, requests, reconcile, Runs, Sequential, OneSpawn,
          Settled, RowNamesLast, LastSession, SweepNamesRun, EvidenceNamesItsRun
    <3>3. Announcing'
      BY <2>2, <3>1
      DEF Runs, Announcing, Untaken, NoWithdrawal, EndedByOne, Ending, vars, durable,
          memory, history
    <3>4. Facts'
      BY <2>2
      DEF vars, durable, memory, substrate, requests, reconcile, Runs, Facts,
          SessionsInserted, Known, StartedByItsSpawn, CallsAreOfRuns, Created,
          SweepListed, BotsReportWhereTheyAre, CompensationHasCause,
          CallbacksAreOfTheGone, Gone, EndWasReported, Ending
    <3>5. (Healthy => Apart)'
      BY <2>2
      DEF vars, durable, memory, substrate, requests, reconcile, Runs, Healthy, Apart,
          OneBusy, OthersConcluded, EarlierConcluded, EndConcludes, FreshRow,
          EndLeavesNobody, EventsAreOfTheEnded, SweepIsSure, UnnamedIsNew, Busy,
          Settled, Tracked, IsKnown, Known, LastSession, Concluded
    <3> QED
      BY <3>2, <3>3, <3>4, <3>5 DEF Runs
  <2> QED
    BY <2>1, <2>2
<1> QED
  BY <1>1, InitRuns, PTL DEF SequentialSpec

\* Where a meeting is continued only when no other POST /bots is under way, its end
\* leaves no live bot behind that the runtime knows of, whatever calls, stops,
\* sweeps, callbacks and earlier runs race over the row: the row ends by the reported end of its last run, a report of that end is the
\* bot's own or is made once its workload is confirmed dead, and the run before
\* has ended by then.
THEOREM EndLeavesNoLiveBot ==
  ASSUME OneReplica, MaxWithdrawals = 0
  PROVE  SequentialSpec => []NoLiveBotBehindEnd
<1>1. Runs => NoLiveBotBehindEnd
  <2> SUFFICES ASSUME Runs, row.status \in Terminal,
                      faults.restart + faults.db = 0, faults.forget <= 1,
                      NEW s \in Sids, wl[s].alive, spawn[s] = "done",
                      bot[s].at \notin Terminal, IsKnown(s)
               PROVE  FALSE
    BY DEF NoLiveBotBehindEnd
  <2>1. faults.restart \in Nat /\ faults.db \in Nat
    BY DEF Runs, Sequential, Shape, TypeOK, FaultKind
  <2>2. Healthy
    BY <2>1 DEF Healthy
  <2> QED
    BY <2>2 DEF Runs, Apart, EndLeavesNobody, Tracked
<1> QED
  BY <1>1, RunsSpec, PTL

\* A meeting that is continued only when no other POST /bots is under way has one
\* bot at a time, however often that happens: the row is continued once it has
\* ended, and it ends where nobody is left.  Of two continuations at once, which
\* SequentialSpec leaves out, it says nothing: they run two bots.
THEOREM OneBotAtATime ==
  ASSUME OneReplica, MaxWithdrawals = 0
  PROVE  SequentialSpec => []OneBotPerMeeting
<1>1. Runs => OneBotPerMeeting
  <2> DEFINE here == {s \in Sids : wl[s].alive /\ bot[s].at \notin Terminal}
  <2> SUFFICES ASSUME Runs, faults.restart + faults.forget = 0,
                      0 \in {faults.db, faults.runtime}
               PROVE  Cardinality(here) <= 1
    BY DEF OneBotPerMeeting
  <2>1. faults.restart \in Nat /\ faults.forget \in Nat
    BY DEF Runs, Sequential, Shape, TypeOK, FaultKind
  <2>2. Healthy /\ faults.forget = 0
    BY <2>1 DEF Healthy
  <2>3. \A s \in here : Tracked(s)
    BY <2>2 DEF Runs, Facts, StartedByItsSpawn, Tracked, IsKnown
  <2>4. \A s, t \in here : s = t
    BY <2>2, <2>3 DEF Runs, Apart, OneBusy, Busy
  <2> HIDE DEF here
  <2>5. ASSUME NEW s \in here
        PROVE  here = {s}
    BY <2>4
  <2> QED
    <3>1. CASE here = {}
      BY <3>1, FS_EmptySet
    <3>2. ASSUME NEW s \in here
          PROVE  Cardinality(here) <= 1
      <4>1. Cardinality({s}) = 1
        BY FS_Singleton
      <4>2. Cardinality(here) = 1
        BY <2>5, <4>1
      <4> QED
        BY <4>2
    <3> QED
      BY <3>1, <3>2
<1> QED
  BY <1>1, RunsSpec, PTL

-----------------------------------------------------------------------------
(* The promise, kept for a meeting of one run.  Whatever says that the run    *)
(* ended clean says so of a bot that was admitted, and whatever takes a stop  *)
(* into account was told of one that is on the row.                           *)

OneRun == \A s, t \in Sids : s = t

Seated == seated # {}

\* A status that only a run with an admitted bot may be given.
Admitted(status) ==
  /\ status # "needs_help"
  /\ status \in {"active", "stopping", "completed"} => Seated

\* The run was stopped and is over; the record says so until a restart.
Over == row.stop /\ \A r \in Replicas, s \in Sids : rec[r][s].status \in Terminal

\* What a read of the row may show.
Shows(status) == Admitted(status) \/ (status = "completed" /\ Over)

Sound(record) ==
  /\ record.stop => row.stop
  /\ record.status \notin Terminal => record.stage = NoStage
  /\ record.status = "active" => Seated
  /\ record.status = "completed" => IF record.stage = NoStage THEN Seated ELSE row.stop

BotsAdmitted == \A s \in Sids : Admitted(bot[s].at) /\ Admitted(bot[s].out)

StopsAsked == row.stop => \E d \in Stops : stops[d].pc # "idle"

StopsAdmitted ==
  \A d \in Stops : stops[d].pc \in {"list", "update"} => stops[d].status \in Booting \/ Seated

SweepAdmitted ==
  sweep.pc \in {"probe", "teardown", "post"} =>
    /\ sweep.kind = "stopping" \/ sweep.status \notin PreActive => Seated
    /\ sweep.stop => row.stop

RowAdmitted == Shows(row.status) /\ (row.status = "stopping" => row.stop)

SoundCall(c) ==
  /\ Admitted(c.ev.status)
  /\ c.ev.stop \/ c.intent => row.stop
  /\ Shows(c.persisted)
  /\ Sound(c.new) /\ c.new.status # "needs_help"
  /\ Ending(c) => rec[c.on][c.sid].status \in Terminal

CallsSound == \A c \in calls : SoundCall(c)
RecsSound == \A r \in Replicas, s \in Sids : Sound(rec[r][s])

Truthful ==
  /\ Untaken /\ BotsAdmitted /\ StopsAsked /\ StopsAdmitted /\ SweepAdmitted
  /\ RowAdmitted /\ CallsSound /\ RecsSound

LEMMA AskedStays ==
  ASSUME Shape, Next, NEW d \in Stops, stops[d].pc # "idle"
  PROVE  stops'[d].pc # "idle"
<1>1. stops \in [Stops -> Stop]
  BY DEF Shape, TypeOK
<1>2. ASSUME NEW e \in Stops, StopStep(e)
      PROVE  stops'[d].pc # "idle"
  <2>1. stops'[e].pc # "idle" /\ \A f \in Stops \ {e} : stops'[f] = stops[f]
    <3>1. CASE StopFind(e)
      BY <1>1, <3>1 DEF StopFind
    <3>2. CASE StopListSessions(e)
      BY <1>1, <3>2 DEF StopListSessions, Stop
    <3>3. CASE StopUpdate(e)
      BY <1>1, <3>3 DEF StopUpdate, Stop
    <3>4. CASE StopFault(e)
      BY <1>1, <3>4 DEF StopFault, StopDone, IdleStop
    <3>5. CASE StopPublish(e)
      <4>1. \/ stops' = [stops EXCEPT ![e] = [@ EXCEPT !.pc = "kill"]]
            \/ stops' = [stops EXCEPT ![e] = StopDone]
        BY <3>5 DEF StopPublish
      <4> QED
        BY <1>1, <4>1 DEF StopDone, IdleStop, Stop
    <3>6. CASE StopKill(e)
      BY <1>1, <3>6 DEF StopKill, StopDone, IdleStop
    <3>7. CASE Withdraw(e)
      <4>1. \/ stops' = [stops EXCEPT ![e] = StopDone]
            \/ stops' = [stops EXCEPT ![e] = [pc |-> "publish", status |-> row.status,
                           container |-> row.container, last |-> NoSid]]
        BY <3>7 DEF Withdraw
      <4> QED
        BY <1>1, <4>1 DEF StopDone, IdleStop
    <3> QED
      BY <1>2, <3>1, <3>2, <3>3, <3>4, <3>5, <3>6, <3>7 DEF StopStep
  <2> QED
    BY <2>1
<1>3. CASE Restart
  BY <1>1, <1>3 DEF Restart, StopDone, IdleStop
<1>4. CASE UNCHANGED stops
  BY <1>4
<1> QED
  BY <1>2, <1>3, <1>4 DEF Next, SpawnStep, BotStep, CallStep, KernelStep, SweepStep, requests

LEMMA SeatedStays ==
  ASSUME Next, Seated
  PROVE  Seated'
  BY DEF Next, SpawnStep, BotStep, BotReport, BotPost, BotPostLost, BotGiveUp, BotExit,
     StopStep, CallStep, KernelStep, SweepStep, Restart, history, Seated

\* A run that was stopped is not forgotten: a restart and a stop do not meet.
LEMMA OverStays ==
  ASSUME Untaken, StopsAsked, Next, StopOrFailure, Over
  PROVE  Over'
<1>1. Shape /\ NoWithdrawal
  BY DEF Untaken
<1>2. row'.stop
  BY <1>1, StopStays DEF Over
<1>3. PICK d \in Stops : stops[d].pc # "idle"
  BY DEF StopsAsked, Over
<1>4. faults'.restart = 0
  BY <1>1, <1>3, AskedStays DEF StopOrFailure, FaultKind
<1>5. faults.restart = 0
  BY <1>1, <1>4, FaultsGrow DEF FaultKind
<1>6. ASSUME NEW r \in Replicas, NEW s \in Sids
      PROVE  rec'[r][s].status \in Terminal
  <2>1. rec[r][s].status \in Terminal
    BY DEF Over
  <2> QED
    BY <1>1, <1>4, <1>5, <2>1, NextTerminalUntaken
<1> QED
  BY <1>2, <1>6 DEF Over

-----------------------------------------------------------------------------
LEMMA ApplySound ==
  ASSUME NEW before \in Record, NEW ev \in Event, NEW force \in BOOLEAN,
         Sound(before), Admitted(ev.status), ev.stop => row.stop
  PROVE  /\ Sound(ApplyChange(before, ev, force))
         /\ Outcome(before, ev, force) = "advanced"
              => ApplyChange(before, ev, force).status # "needs_help"
<1> DEFINE to    == TargetStatus(before, ev)
           noted == NoteStop(before, ev)
           ends  == \/ to = "failed"
                    \/ to = "completed" /\ noted.stop /\ before.status # "active"
           after == ApplyChange(before, ev, force)
<1>1. noted \in Record /\ noted.status = before.status /\ noted.stage = before.stage
      /\ noted.stop = (before.stop \/ ev.stop)
  BY DEF NoteStop, Record, Event
<1>2. CASE Outcome(before, ev, force) # "advanced"
  <2>1. after = noted
    BY <1>2 DEF ApplyChange
  <2> QED
    BY <1>1, <1>2, <2>1 DEF Sound
<1>3. CASE Outcome(before, ev, force) = "advanced"
  <2>1. after = [noted EXCEPT !.status = to,
                              !.stage = IF ends THEN StageReached(before.status) ELSE before.stage]
    BY <1>3 DEF ApplyChange
  <2>2. before.status \notin Terminal /\ before.stage = NoStage
    BY <1>3, AdvanceStarts DEF Sound
  <2>3. StageReached(before.status) # NoStage
    BY DEF StageReached, NoStage
  <2>4. /\ after.status = to /\ after.stop = (before.stop \/ ev.stop)
        /\ after.stage = IF ends THEN StageReached(before.status) ELSE NoStage
    BY <1>1, <2>1, <2>2 DEF Record
  <2>5. \/ to = ev.status
        \/ to = "completed" /\ (before.stop \/ ev.stop) /\ before.status # "active"
    BY DEF TargetStatus
  <2>6. to # "needs_help" /\ (to = "active" => Seated)
    BY <2>5 DEF Admitted
  <2>7. to = "completed" => IF ends THEN row.stop ELSE Seated
    BY <1>1, <2>5 DEF Admitted, Sound
  <2>8. to \notin Terminal => ~ends
    BY DEF Terminal
  <2> HIDE DEF to, noted, after, ends
  <2> QED
    BY <2>3, <2>4, <2>6, <2>7, <2>8 DEF Sound, after
<1> QED
  BY <1>2, <1>3

\* A record that has no status yet may be seeded from what the row shows.
LEMMA SeedSound ==
  ASSUME Shape, NEW r \in Replicas, NEW s \in Sids, NEW persisted,
         Sound(rec[r][s]), Shows(persisted)
  PROVE  Sound(Rehydrate(rec[r][s], persisted))
<1> DEFINE live == rec[r][s]
<1>1. live \in Record
  BY DEF Shape, TypeOK
<1>2. CASE live.status # NoStatus
  BY <1>2 DEF Rehydrate
<1>3. CASE live.status = NoStatus
  <2> DEFINE seeded == BotStatusFromPersisted(persisted)
  <2>1. Rehydrate(live, persisted) = [live EXCEPT !.status = seeded]
    BY <1>3 DEF Rehydrate
  <2>2. ~Over
    BY <1>3 DEF Over, Terminal, NoStatus
  <2>3. seeded \in {"active", "completed"} => Seated
    BY <2>2 DEF BotStatusFromPersisted, Shows, Admitted, NoStatus
  <2>4. live.stage = NoStage
    BY <1>3 DEF Sound, Terminal, NoStatus
  <2> HIDE DEF seeded
  <2>5. [live EXCEPT !.status = seeded].status = seeded
        /\ [live EXCEPT !.status = seeded].stage = live.stage
        /\ [live EXCEPT !.status = seeded].stop = live.stop
    BY <1>1 DEF Record
  <2> QED
    BY <2>1, <2>3, <2>4, <2>5 DEF Sound
<1> QED
  BY <1>2, <1>3

\* What a step of a call leaves behind: the record x, and a call that knows no more
\* than the row.
Effect(c, x) ==
  /\ rec' = [rec EXCEPT ![c.on][c.sid] = x] /\ Sound(x)
  /\ rec[c.on][c.sid].status \in Terminal =>
       x.status = rec[c.on][c.sid].status /\ x.stage = rec[c.on][c.sid].stage
  /\ \A d \in calls' : d \in calls \/
       /\ d.ev = c.ev /\ d.on = c.on /\ d.sid = c.sid
       /\ d.intent => row.stop
       /\ Shows(d.persisted)
       /\ Sound(d.new) /\ d.new.status # "needs_help"
       /\ Ending(d) => x.status \in Terminal
  /\ announced' # announced =>
       /\ x = rec[c.on][c.sid] /\ x.status \in Terminal
       /\ announced' = [announced EXCEPT ![c.sid] = announced[c.sid] + 1]

LEMMA ApplyEffect ==
  ASSUME Truthful, NEW c \in calls, NEW before \in Record, Apply(c, before),
         UNCHANGED announced, Sound(before),
         rec[c.on][c.sid].status # NoStatus =>
           before.status = rec[c.on][c.sid].status /\ before.stage = rec[c.on][c.sid].stage
  PROVE  \E x \in Record : Effect(c, x)
<1> DEFINE force == c.src # "bot" \/ before.stop \/ c.persisted = "stopping"
           after == ApplyChange(before, c.ev, force)
           live  == rec[c.on][c.sid]
<1>1. /\ c \in Call /\ c.ev \in Event /\ c.on \in Replicas /\ c.sid \in Sids
      /\ Admitted(c.ev.status) /\ (c.ev.stop => row.stop)
  BY DEF Truthful, Untaken, Shape, TypeOK, Call, CallsSound, SoundCall
<1>2. force \in BOOLEAN
  OBVIOUS
<1>3. rec' = [rec EXCEPT ![c.on][c.sid] = after]
  BY DEF Apply
<1>4. \/ calls' = calls \ {c}
      \/ /\ Outcome(before, c.ev, force) = "advanced"
         /\ \E old : calls' = (calls \ {c}) \cup
              {[c EXCEPT !.pc = "persist", !.persisted = NoStatus, !.intent = FALSE,
                         !.new = after, !.old = old]}
  BY DEF Apply, Finish, Move
<1> HIDE DEF force
<1>5. after \in Record /\ Sound(after)
      /\ (Outcome(before, c.ev, force) = "advanced" => after.status # "needs_help")
  BY <1>1, <1>2, ApplyChangeType, ApplySound
<1>6. live.status \in Terminal => after.status = live.status /\ after.stage = live.stage
  <2> SUFFICES ASSUME live.status \in Terminal
               PROVE  after.status = live.status /\ after.stage = live.stage
    OBVIOUS
  <2>1. before.status = live.status /\ before.stage = live.stage
    BY DEF Terminal, NoStatus
  <2>2. Outcome(before, c.ev, force) # "advanced"
    BY <1>1, <1>2, <2>1, TerminalStays
  <2>3. after = NoteStop(before, c.ev)
    BY <2>2 DEF ApplyChange
  <2> QED
    BY <2>1, <2>3 DEF NoteStop, Record
<1> HIDE DEF after
<1>7. ASSUME NEW d \in calls', d \notin calls
      PROVE  /\ d.ev = c.ev /\ d.on = c.on /\ d.sid = c.sid
             /\ d.intent = FALSE /\ d.persisted = NoStatus
             /\ d.new = after /\ after.status # "needs_help"
  <2>1. PICK old : d = [c EXCEPT !.pc = "persist", !.persisted = NoStatus, !.intent = FALSE,
                                 !.new = after, !.old = old]
    BY <1>4, <1>7
  <2>2. after.status # "needs_help"
    BY <1>4, <1>5, <1>7
  <2> QED
    BY <1>1, <2>1, <2>2 DEF Call
<1>8. Shows(NoStatus)
  BY DEF Shows, Admitted, NoStatus
<1> QED
  BY <1>3, <1>5, <1>6, <1>7, <1>8 DEF Effect, Ending

LEMMA CallEffect ==
  ASSUME Truthful, OneRun, OneReplica, NEW c \in calls, CallStep(c)
  PROVE  \E x \in Record : Effect(c, x)
<1> DEFINE live == rec[c.on][c.sid]
<1>1. /\ c \in Call /\ c.on \in Replicas /\ c.sid \in Sids /\ live \in Record
      /\ rec \in [Replicas -> [Sids -> Record]] /\ calls \subseteq Call
      /\ announced \in [Sids -> 0..2]
  BY DEF Truthful, Untaken, Shape, TypeOK, Call
<1>2. SoundCall(c) /\ Sound(live) /\ Shows(row.status)
  BY <1>1 DEF Truthful, CallsSound, RecsSound, RowAdmitted
<1>3. rec = [rec EXCEPT ![c.on][c.sid] = live]
  BY <1>1
<1>4. Shows(NoStatus)
  BY DEF Shows, Admitted, NoStatus
<1>5. ASSUME UNCHANGED rec, UNCHANGED announced,
             \E seen, pc, intent, shown :
               /\ calls' = (calls \ {c}) \cup
                    {[c EXCEPT !.persisted = seen, !.pc = pc, !.intent = intent, !.shown = shown]}
               /\ Shows(seen) /\ (intent => row.stop)
               /\ pc \in {"persist", "settle"} => c.pc \in {"persist", "settle"}
      PROVE  \E x \in Record : Effect(c, x)
  <2>1. ASSUME NEW d \in calls', d \notin calls
        PROVE  /\ d.ev = c.ev /\ d.on = c.on /\ d.sid = c.sid /\ d.new = c.new
               /\ d.intent => row.stop
               /\ Shows(d.persisted)
               /\ Ending(d) => Ending(c)
    <3>1. PICK seen, pc, intent, shown :
               /\ d = [c EXCEPT !.persisted = seen, !.pc = pc, !.intent = intent, !.shown = shown]
               /\ Shows(seen) /\ (intent => row.stop)
               /\ pc \in {"persist", "settle"} => c.pc \in {"persist", "settle"}
      BY <1>5, <2>1
    <3>2. /\ d.ev = c.ev /\ d.on = c.on /\ d.sid = c.sid /\ d.new = c.new
          /\ d.intent = intent /\ d.persisted = seen /\ d.pc = pc
      BY <1>1, <3>1 DEF Call
    <3> QED
      BY <3>1, <3>2 DEF Ending
  <2> QED
    BY <1>1, <1>2, <1>3, <1>5, <2>1 DEF Effect, SoundCall
<1>6. CASE CallReadStatus(c)
  <2>1. PICK seen \in {StatusBySession(c.sid), NoStatus} :
          Move(c, [c EXCEPT !.persisted = seen,
                     !.pc = IF live.status = NoStatus THEN "rehydrate" ELSE "read_stop"])
    BY <1>6 DEF CallReadStatus
  <2>2. Shows(seen)
    BY <1>2, <1>4 DEF StatusBySession
  <2> DEFINE pc == IF live.status = NoStatus THEN "rehydrate" ELSE "read_stop"
  <2>3. [c EXCEPT !.persisted = seen, !.pc = pc]
          = [c EXCEPT !.persisted = seen, !.pc = pc, !.intent = c.intent, !.shown = c.shown]
    BY <1>1 DEF Call
  <2>4. pc \notin {"persist", "settle"} /\ (c.intent => row.stop)
    BY <1>2 DEF SoundCall
  <2>5. calls' = (calls \ {c}) \cup {[c EXCEPT !.persisted = seen, !.pc = pc]}
    BY <2>1 DEF Move
  <2> HIDE DEF pc
  <2>6. UNCHANGED rec /\ UNCHANGED announced
    BY <1>6 DEF CallReadStatus
  <2> QED
    BY <1>5, <2>2, <2>3, <2>4, <2>5, <2>6
<1>7. CASE CallRehydrate(c)
  <2> DEFINE seeded == Rehydrate(live, c.persisted)
  <2>1. seeded \in Record /\ Sound(seeded)
    <3>1. Shape /\ Shows(c.persisted)
      BY <1>2 DEF SoundCall, Truthful, Untaken
    <3> QED
      BY <1>1, <1>2, <3>1, RehydrateType, SeedSound
  <2>2. live.status # NoStatus => seeded = live
    BY DEF Rehydrate
  <2>3. UNCHANGED announced
    BY <1>7 DEF CallRehydrate
  <2>4. CASE c.ev.status \notin Terminal
    <3>1. Apply(c, seeded)
      BY <1>7, <2>4 DEF CallRehydrate
    <3> HIDE DEF seeded
    <3> QED
      BY <2>1, <2>2, <2>3, <3>1, ApplyEffect
  <2>5. CASE c.ev.status \in Terminal
    <3> DEFINE moved == [c EXCEPT !.pc = "read_stop"]
    <3>1. rec' = [rec EXCEPT ![c.on][c.sid] = seeded] /\ calls' = (calls \ {c}) \cup {moved}
      BY <1>7, <2>5 DEF CallRehydrate, Move
    <3>2. /\ moved.ev = c.ev /\ moved.on = c.on /\ moved.sid = c.sid /\ moved.new = c.new
          /\ moved.intent = c.intent /\ moved.persisted = c.persisted /\ ~Ending(moved)
      BY <1>1 DEF Call, Ending
    <3>3. live.status \in Terminal => seeded = live
      BY <2>2 DEF Terminal, NoStatus
    <3> HIDE DEF seeded, moved
    <3> QED
      BY <1>2, <2>1, <2>3, <3>1, <3>2, <3>3 DEF Effect, SoundCall
  <2> QED
    BY <2>4, <2>5
<1>8. CASE CallReadStop(c)
  <2>1. PICK intent \in {StopBySession(c.sid), FALSE} :
          Move(c, [c EXCEPT !.intent = intent, !.pc = "apply"])
    BY <1>8 DEF CallReadStop
  <2>2. [c EXCEPT !.intent = intent, !.pc = "apply"]
          = [c EXCEPT !.persisted = c.persisted, !.pc = "apply", !.intent = intent, !.shown = c.shown]
    BY <1>1 DEF Call
  <2>3. Shows(c.persisted) /\ (intent => row.stop)
    BY <1>2 DEF SoundCall, StopBySession
  <2>4. calls' = (calls \ {c}) \cup {[c EXCEPT !.intent = intent, !.pc = "apply"]}
    BY <2>1 DEF Move
  <2>5. UNCHANGED rec /\ UNCHANGED announced
    BY <1>8 DEF CallReadStop
  <2>6. "apply" \notin {"persist", "settle"}
    OBVIOUS
  <2> QED
    BY <1>5, <2>2, <2>3, <2>4, <2>5, <2>6
<1>9. CASE CallApply(c)
  <2> DEFINE stop   == live.stop \/ c.intent
             before == [live EXCEPT !.stop = stop]
  <2>1. Apply(c, before) /\ UNCHANGED announced
    BY <1>9 DEF CallApply
  <2>2. stop \in BOOLEAN /\ (stop => row.stop)
    BY <1>1, <1>2 DEF Record, Call, Sound, SoundCall
  <2> HIDE DEF stop
  <2>3. /\ before \in Record /\ before.status = live.status /\ before.stage = live.stage
        /\ before.stop = stop
    BY <1>1, <2>2 DEF Record
  <2> HIDE DEF before
  <2>4. Sound(before)
    BY <1>2, <2>2, <2>3 DEF Sound
  <2> QED
    BY <2>1, <2>3, <2>4, ApplyEffect
<1>10. CASE CallPersist(c) \/ CallPersistFails(c)
  <2>1. \E shown : Move(c, [c EXCEPT !.pc = "settle", !.shown = shown])
    <3>1. CASE CallPersist(c)
      BY <3>1 DEF CallPersist
    <3>2. CASE CallPersistFails(c)
      <4>1. [c EXCEPT !.pc = "settle"] = [c EXCEPT !.pc = "settle", !.shown = c.shown]
        BY <1>1 DEF Call
      <4> QED
        BY <3>2, <4>1 DEF CallPersistFails
    <3> QED
      BY <1>10, <3>1, <3>2
  <2>2. PICK shown : calls' = (calls \ {c}) \cup {[c EXCEPT !.pc = "settle", !.shown = shown]}
    BY <2>1 DEF Move
  <2>3. [c EXCEPT !.pc = "settle", !.shown = shown]
          = [c EXCEPT !.persisted = c.persisted, !.pc = "settle", !.intent = c.intent, !.shown = shown]
    BY <1>1 DEF Call
  <2>4. Shows(c.persisted) /\ (c.intent => row.stop) /\ c.pc \in {"persist", "settle"}
    BY <1>2, <1>10 DEF SoundCall, CallPersist, CallPersistFails
  <2>5. UNCHANGED rec /\ UNCHANGED announced
    BY <1>10 DEF CallPersist, CallPersistFails
  <2>6. \E seen, pc, intent, to :
          /\ calls' = (calls \ {c}) \cup
               {[c EXCEPT !.persisted = seen, !.pc = pc, !.intent = intent, !.shown = to]}
          /\ Shows(seen) /\ (intent => row.stop)
          /\ pc \in {"persist", "settle"} => c.pc \in {"persist", "settle"}
    <3> WITNESS c.persisted, "settle", c.intent, shown
    <3> QED
      BY <2>2, <2>3, <2>4
  <2> QED
    BY <1>5, <2>5, <2>6
<1>11. CASE CallSettle(c)
  <2>1. /\ calls' = calls \ {c} /\ c.pc = "settle" /\ UNCHANGED rec
        /\ announced' = IF /\ c.shown # "nothing" /\ c.new.status \in Terminal
                           /\ announced[c.sid] < 2
                        THEN [announced EXCEPT ![c.sid] = @ + 1] ELSE announced
    BY <1>11 DEF CallSettle, Suppresses, Truthful, Untaken, NoWithdrawal
  <2>2. announced' # announced =>
          /\ live.status \in Terminal
          /\ announced' = [announced EXCEPT ![c.sid] = announced[c.sid] + 1]
    BY <1>2, <2>1 DEF SoundCall, Ending
  <2> QED
    BY <1>1, <1>2, <1>3, <2>1, <2>2 DEF Effect
<1> QED
  BY <1>6, <1>7, <1>8, <1>9, <1>10, <1>11 DEF CallStep

-----------------------------------------------------------------------------
(* Nothing but a stop puts a stop on the row.                                *)

LEMMA RowMoves ==
  ASSUME Truthful, Next, MaxWithdrawals = 0
  PROVE  \/ row' = row
         \/ \E s \in Sids : SpawnRow(s)
         \/ \E d \in Stops : StopUpdate(d)
         \/ \E c \in calls : CallPersist(c)
<1>1. Shape /\ \A d \in Stops : ~Withdraw(d)
  BY WithdrawNeedsBound DEF Truthful, Untaken, Withdraw
<1>2. ASSUME NEW s \in Sids, SpawnStep(s)
      PROVE  SpawnRow(s)
  BY <1>1, <1>2, SpawnRows
<1>3. ASSUME NEW d \in Stops, StopStep(d)
      PROVE  row' = row \/ StopUpdate(d)
  BY <1>1, <1>3 DEF StopStep, StopFind, StopListSessions, StopFault, StopPublish, StopKill
<1>4. ASSUME NEW c \in calls, CallStep(c)
      PROVE  row' = row \/ CallPersist(c)
  BY <1>4
  DEF CallStep, CallReadStatus, CallRehydrate, CallReadStop, CallApply,
      CallPersistFails, CallSettle
<1> QED
  BY <1>2, <1>3, <1>4 DEF Next, BotStep, KernelStep, SweepStep, Restart, durable

LEMMA UpdateUnwithdrawn ==
  ASSUME Shape, NoWithdrawal, NEW s, NEW status, NEW stop \in BOOLEAN, NEW stage,
         UpdateMeetingStatus(s, status, stop, stage)
  PROVE  row' = row \/ (row'.status = status /\ row'.stop = (row.stop \/ stop))
<1>1. row \in Row /\ ~row.withdrawn
  BY DEF Shape, TypeOK, NoWithdrawal
<1>2. ~Suppressed(status) /\ StatusKept(status) = status
  BY <1>1 DEF Suppressed, StatusKept
<1> DEFINE kept == IF stage = NoStage THEN row.stage ELSE stage
           told == row.stop \/ stop
<1>3. row' = row \/ row' = [row EXCEPT !.status = status, !.stop = told, !.stage = kept]
  BY <1>2 DEF UpdateMeetingStatus
<1> HIDE DEF kept, told
<1>4. [row EXCEPT !.status = status, !.stop = told, !.stage = kept].status = status
      /\ [row EXCEPT !.status = status, !.stop = told, !.stage = kept].stop = told
  BY <1>1 DEF Row
<1> QED
  BY <1>3, <1>4 DEF told

LEMMA StopWrites ==
  ASSUME Truthful, NEW d \in Stops, StopUpdate(d)
  PROVE  \/ row' = row
         \/ /\ row'.stop
            /\ row'.status \in Booting \/ (row'.status = "stopping" /\ Seated)
<1> DEFINE status == IF stops[d].status \in Booting THEN stops[d].status ELSE "stopping"
<1>1. UpdateMeetingStatus(stops[d].last, status, TRUE, NoStage) /\ stops[d].pc = "update"
  BY DEF StopUpdate
<1>2. status \in Booting \/ (status = "stopping" /\ Seated)
  BY <1>1 DEF Truthful, StopsAdmitted
<1> HIDE DEF status
<1> QED
  BY <1>1, <1>2, UpdateUnwithdrawn DEF Truthful, Untaken

LEMMA CallWrites ==
  ASSUME Truthful, NEW c \in calls, CallPersist(c)
  PROVE  row' = row \/ (row'.status = c.new.status /\ row'.stop = row.stop)
<1>1. UpdateMeetingStatus(c.sid, c.new.status, c.new.stop, c.new.stage)
  BY DEF CallPersist
<1>2. /\ Shape /\ NoWithdrawal /\ c.new.stop \in BOOLEAN
      /\ (c.new.stop => row.stop) /\ row.stop \in BOOLEAN
  BY DEF Truthful, Untaken, CallsSound, SoundCall, Sound, Shape, TypeOK, Call, Record, Row
<1> QED
  BY <1>1, <1>2, UpdateUnwithdrawn

LEMMA StopComesFrom ==
  ASSUME Truthful, Next, MaxWithdrawals = 0
  PROVE  row'.stop => row.stop \/ \E d \in Stops : StopUpdate(d)
<1>1. row \in Row
  BY DEF Truthful, Untaken, Shape, TypeOK
<1>2. ASSUME NEW s \in Sids, SpawnRow(s)
      PROVE  row'.stop = row.stop
  BY <1>1, <1>2 DEF SpawnRow, Row
<1>3. ASSUME NEW c \in calls, CallPersist(c)
      PROVE  row'.stop = row.stop
  BY <1>3, CallWrites
<1> QED
  BY <1>2, <1>3, RowMoves

-----------------------------------------------------------------------------
(* Every step keeps the parts.                                               *)

LEMMA NextBotsAdmitted ==
  ASSUME Truthful, Next, "needs_help" \notin Stages
  PROVE  BotsAdmitted'
<1>1. Seated => Seated'
  BY SeatedStays
<1>2. ASSUME NEW t \in Sids
      PROVE  Admitted(bot[t].at)' /\ Admitted(bot[t].out)'
  <2>1. Admitted(bot[t].at) /\ Admitted(bot[t].out)
    BY DEF Truthful, BotsAdmitted
  <2>2. CASE Starts(t)
    BY <2>2 DEF Starts, Admitted
  <2>3. CASE Dies(t)
    BY <2>3 DEF Dies, NoBot, Admitted, NoStatus
  <2>4. CASE Reaches(t)
    <3>1. bot'[t].at \notin {"needs_help", "stopping"}
      BY <2>4, StagesAssumption DEF Reaches, Terminal, BotStatus
    <3>2. bot'[t].at = "active" => Seated'
      BY <2>4 DEF Reaches, Seated
    <3>3. bot'[t].at = "completed" => bot[t].at = "active"
      BY <2>4 DEF Reaches, LegalTransitions, NoStatus
    <3>4. bot'[t].at = "completed" => Seated'
      BY <1>1, <2>1, <3>3 DEF Admitted
    <3>5. bot'[t].out = bot'[t].at
      BY <2>4 DEF Reaches
    <3> QED
      BY <3>1, <3>2, <3>4, <3>5 DEF Admitted
  <2>5. CASE Says(t)
    BY <1>1, <2>1, <2>5 DEF Says, Admitted, NoStatus
  <2>6. CASE UNCHANGED bot
    BY <1>1, <2>1, <2>6 DEF Admitted
  <2> QED
    BY <2>2, <2>3, <2>4, <2>5, <2>6, WorkloadMoves DEF Truthful, Untaken
<1> QED
  BY <1>2 DEF BotsAdmitted

LEMMA NextStopsAsked ==
  ASSUME Truthful, Next, MaxWithdrawals = 0
  PROVE  StopsAsked'
<1>1. Shape /\ stops \in [Stops -> Stop]
  BY DEF Truthful, Untaken, Shape, TypeOK
<1>2. ASSUME NEW d \in Stops, StopUpdate(d)
      PROVE  stops'[d].pc # "idle"
  BY <1>1, <1>2 DEF StopUpdate, Stop
<1>3. ASSUME row.stop
      PROVE  \E d \in Stops : stops'[d].pc # "idle"
  BY <1>1, <1>3, AskedStays DEF Truthful, StopsAsked
<1> QED
  BY <1>2, <1>3, StopComesFrom DEF StopsAsked

LEMMA NextStopsAdmitted ==
  ASSUME Truthful, Next, MaxWithdrawals = 0
  PROVE  StopsAdmitted'
<1>1. stops \in [Stops -> Stop] /\ \A d \in Stops : ~Withdraw(d)
  BY WithdrawNeedsBound DEF Truthful, Untaken, Shape, TypeOK, Withdraw
<1>2. Seated => Seated'
  BY SeatedStays
<1>3. ASSUME NEW d \in Stops, stops'[d].pc \in {"list", "update"}
      PROVE  stops'[d].status \in Booting \/ Seated
  <2>1. CASE stops'[d] = stops[d]
    BY <1>3, <2>1 DEF Truthful, StopsAdmitted
  <2>2. ASSUME stops'[d] # stops[d], NEW e \in Stops, StopStep(e)
        PROVE  stops'[d].status \in Booting \/ Seated
    <3>1. CASE StopFind(e)
      <4>1. d = e /\ stops'[d].status = row.status /\ row.status \in Booting \cup {"active"}
        BY <1>1, <2>2, <3>1 DEF StopFind, FindActive
      <4>2. row.status = "active" => Seated
        BY DEF Truthful, RowAdmitted, Shows, Admitted
      <4> QED
        BY <4>1, <4>2
    <3>2. CASE StopListSessions(e)
      <4>1. d = e /\ stops'[d].status = stops[d].status /\ stops[d].pc = "list"
        BY <1>1, <2>2, <3>2 DEF StopListSessions, Stop
      <4> QED
        BY <4>1 DEF Truthful, StopsAdmitted
    <3>3. CASE StopUpdate(e)
      BY <1>1, <1>3, <2>2, <3>3 DEF StopUpdate, Stop
    <3>4. CASE StopFault(e) \/ StopKill(e)
      BY <1>1, <1>3, <2>2, <3>4 DEF StopFault, StopKill, StopDone, IdleStop
    <3>5. CASE StopPublish(e)
      <4>1. \/ stops' = [stops EXCEPT ![e] = [@ EXCEPT !.pc = "kill"]]
            \/ stops' = [stops EXCEPT ![e] = StopDone]
        BY <3>5 DEF StopPublish
      <4> QED
        BY <1>1, <1>3, <2>2, <4>1 DEF StopDone, IdleStop, Stop
    <3> QED
      BY <1>1, <2>2, <3>1, <3>2, <3>3, <3>4, <3>5 DEF StopStep
  <2>3. CASE Restart
    BY <1>1, <1>3, <2>1, <2>3 DEF Restart, StopDone, IdleStop
  <2> QED
    BY <2>1, <2>2, <2>3
    DEF Next, SpawnStep, BotStep, CallStep, KernelStep, SweepStep, requests
<1> QED
  BY <1>2, <1>3 DEF StopsAdmitted

LEMMA NextSweepAdmitted ==
  ASSUME Truthful, Next
  PROVE  SweepAdmitted'
<1>1. Shape /\ (Seated => Seated') /\ (row.stop => row'.stop)
  BY SeatedStays, StopStays DEF Truthful, Untaken
<1>2. CASE Lists
  <2>1. row.status \in NonTerminal /\ row.status # "needs_help"
    BY <1>2 DEF Lists, Stale, Truthful, RowAdmitted, Shows, Admitted
  <2>2. row.status \in {"active", "stopping"} => Seated
    BY DEF Truthful, RowAdmitted, Shows, Admitted
  <2>3. row.status \notin PreActive => row.status \in {"active", "stopping"}
    BY <2>1 DEF PreActive, Booting, NonTerminal, RowStatus, BotStatus, Terminal
  <2> QED
    BY <1>1, <1>2, <2>2, <2>3 DEF Lists, SweepAdmitted
<1>3. CASE HoldsOn
  BY <1>1, <1>3 DEF HoldsOn, Truthful, SweepAdmitted
<1>4. CASE sweep' = sweep
  BY <1>1, <1>4 DEF Truthful, SweepAdmitted
<1>5. CASE sweep'.pc \in {"idle", "wait"}
  BY <1>5 DEF SweepAdmitted
<1> QED
  BY <1>1, <1>2, <1>3, <1>4, <1>5, SweepMoves

LEMMA NextRowAdmitted ==
  ASSUME Truthful, OneRun, OneReplica, Next, StopOrFailure, MaxWithdrawals = 0
  PROVE  RowAdmitted'
<1>1. /\ Shape /\ row \in Row /\ (Seated => Seated') /\ (row.stop => row'.stop)
      /\ (Over => Over')
  BY SeatedStays, StopStays, OverStays DEF Truthful, Untaken, Shape, TypeOK
<1>2. CASE row'.status = row.status /\ row'.stop = row.stop
  BY <1>1, <1>2 DEF Truthful, RowAdmitted, Shows, Admitted
<1>3. ASSUME NEW s \in Sids, SpawnRow(s)
      PROVE  RowAdmitted'
  <2>1. row'.status \in {"requested", "failed"} \/ (row'.status = row.status /\ row'.stop = row.stop)
    BY <1>1, <1>3 DEF SpawnRow, Row
  <2>2. CASE row'.status \in {"requested", "failed"}
    BY <2>2 DEF RowAdmitted, Shows, Admitted
  <2> QED
    BY <1>2, <2>1, <2>2
<1>4. ASSUME NEW d \in Stops, StopUpdate(d)
      PROVE  RowAdmitted'
  <2>1. CASE row'.stop /\ row'.status \in Booting
    BY <2>1 DEF RowAdmitted, Shows, Admitted, Booting
  <2>2. CASE row'.stop /\ row'.status = "stopping" /\ Seated
    BY <1>1, <2>2 DEF RowAdmitted, Shows, Admitted
  <2> QED
    BY <1>2, <1>4, <2>1, <2>2, StopWrites
<1>5. ASSUME NEW c \in calls, CallPersist(c)
      PROVE  RowAdmitted'
  <2> SUFFICES ASSUME row'.status = c.new.status, row'.stop = row.stop
               PROVE  RowAdmitted'
    BY <1>2, <1>5, CallWrites
  <2>1. /\ c.pc = "persist" /\ c.new.status \in BotStatus /\ c.new.status # "needs_help"
        /\ Sound(c.new) /\ (Ending(c) => rec[c.on][c.sid].status \in Terminal)
    BY <1>1, <1>5 DEF CallPersist, Shape, AdvanceHasStatus, Truthful, CallsSound, SoundCall
  <2>2. c.new.status = "active" => Seated
    BY <2>1 DEF Sound
  <2>3. ASSUME c.new.status = "completed"
        PROVE  Seated \/ Over
    <3>1. rec[c.on][c.sid].status \in Terminal
      BY <2>1, <2>3 DEF Ending, Terminal
    <3>2. \A r \in Replicas, s \in Sids : rec[r][s].status \in Terminal
      <4>1. c.on \in Replicas /\ c.sid \in Sids
        BY <1>1 DEF Shape, TypeOK, Call
      <4> QED
        BY <3>1, <4>1 DEF OneRun, OneReplica
    <3>3. Seated \/ row.stop
      BY <2>1, <2>3 DEF Sound
    <3> QED
      BY <3>2, <3>3 DEF Over
  <2>4. c.new.status # "stopping"
    BY <2>1 DEF BotStatus
  <2> QED
    BY <1>1, <2>1, <2>2, <2>3, <2>4 DEF RowAdmitted, Shows, Admitted
<1> QED
  BY <1>2, <1>3, <1>4, <1>5, RowMoves

LEMMA ArrivesSound ==
  ASSUME Truthful, Next, \A c \in calls : ~CallStep(c), NEW d \in calls', d \notin calls
  PROVE  /\ Admitted(d.ev.status) /\ (d.ev.stop => row.stop)
         /\ ~d.intent /\ d.persisted = NoStatus /\ d.new = NewRecord /\ ~Ending(d)
<1>1. Shape /\ row \in Row /\ sweep \in Sweep
  BY DEF Truthful, Untaken, Shape, TypeOK
<1>2. Arrives(d) /\ (BotSays(d) \/ RuntimeSays(d) \/ SweepSays(d))
  BY <1>1, CallsArriveFrom
<1> SUFFICES Admitted(d.ev.status) /\ (d.ev.stop => row.stop)
  BY <1>2 DEF Arrives, Ending
<1>3. CASE BotSays(d)
  BY <1>3 DEF BotSays, Truthful, BotsAdmitted
<1>4. CASE RuntimeSays(d)
  <2>1. row.status \in NonTerminal /\ d.ev = RuntimeEvent
    BY <1>4 DEF RuntimeSays
  <2>2. CASE row.status \in Booting
    BY <2>1, <2>2 DEF RuntimeEvent, Admitted
  <2>3. CASE row.status \notin Booting
    <3>1. row.status \in {"active", "stopping", "needs_help"}
      BY <2>1, <2>3 DEF NonTerminal, RowStatus, BotStatus, Terminal, Booting
    <3>2. Seated /\ (row.status = "stopping" => row.stop)
      BY <3>1 DEF Truthful, RowAdmitted, Shows, Admitted
    <3>3. d.ev.status = "completed" /\ d.ev.stop = (row.status = "stopping")
      BY <2>1, <2>3 DEF RuntimeEvent
    <3> QED
      BY <3>2, <3>3 DEF Admitted
  <2> QED
    BY <2>2, <2>3
<1>5. CASE SweepSays(d)
  <2>1. sweep.pc = "post" /\ d.ev = SweepEvent
    BY <1>5 DEF SweepSays
  <2>2. /\ sweep.kind = "stopping" \/ sweep.status \notin PreActive => Seated
        /\ sweep.stop => row.stop
    BY <2>1 DEF Truthful, SweepAdmitted
  <2> QED
    BY <2>1, <2>2 DEF SweepEvent, Admitted
<1> QED
  BY <1>2, <1>3, <1>4, <1>5

LEMMA NextCallsSound ==
  ASSUME Truthful, OneRun, OneReplica, Next, StopOrFailure
  PROVE  CallsSound' /\ RecsSound'
<1>1. /\ Shape /\ calls \subseteq Call /\ rec \in [Replicas -> [Sids -> Record]]
      /\ (Seated => Seated') /\ (row.stop => row'.stop) /\ (Over => Over')
  BY SeatedStays, StopStays, OverStays DEF Truthful, Untaken, Shape, TypeOK
<1>2. ASSUME NEW d \in calls', Admitted(d.ev.status), d.ev.stop \/ d.intent => row.stop,
             Shows(d.persisted), Sound(d.new), d.new.status # "needs_help",
             Ending(d) => rec'[d.on][d.sid].status \in Terminal
      PROVE  SoundCall(d)'
  BY <1>1, <1>2 DEF SoundCall, Admitted, Shows, Sound, Ending
<1>3. ASSUME NEW r \in Replicas, NEW s \in Sids, Sound(rec'[r][s])
      PROVE  Sound(rec[r][s])'
  BY <1>1, <1>3 DEF Sound
<1>4. ASSUME NEW c \in calls, CallStep(c)
      PROVE  CallsSound' /\ RecsSound'
  <2>1. PICK x \in Record : Effect(c, x)
    BY <1>4, CallEffect
  <2>2. c.on \in Replicas /\ c.sid \in Sids
    BY <1>1 DEF Call
  <2>3. /\ rec'[c.on][c.sid] = x
        /\ \A r \in Replicas, s \in Sids : r # c.on \/ s # c.sid => rec'[r][s] = rec[r][s]
    BY <1>1, <2>1, <2>2 DEF Effect
  <2>4. \A r \in Replicas, s \in Sids : Sound(rec'[r][s])
    BY <2>1, <2>3 DEF Effect, Truthful, RecsSound
  <2>5. \A r \in Replicas, s \in Sids :
          rec[r][s].status \in Terminal => rec'[r][s].status \in Terminal
    BY <2>1, <2>3 DEF Effect
  <2>6. ASSUME NEW d \in calls'
        PROVE  SoundCall(d)'
    <3>1. SoundCall(c)
      BY DEF Truthful, CallsSound
    <3>2. CASE d \in calls
      <4>1. SoundCall(d) /\ d.on \in Replicas /\ d.sid \in Sids
        BY <1>1, <3>2 DEF Truthful, CallsSound, Call
      <4> QED
        BY <1>2, <2>5, <4>1 DEF SoundCall
    <3>3. CASE d \notin calls
      <4>1. /\ d.ev = c.ev /\ d.on = c.on /\ d.sid = c.sid
            /\ d.intent => row.stop
            /\ Shows(d.persisted)
            /\ Sound(d.new) /\ d.new.status # "needs_help"
            /\ Ending(d) => x.status \in Terminal
        BY <2>1, <3>3 DEF Effect
      <4> QED
        BY <1>2, <2>3, <3>1, <4>1 DEF SoundCall
    <3> QED
      BY <3>2, <3>3
  <2> QED
    BY <1>3, <2>4, <2>6 DEF CallsSound, RecsSound
<1>5. CASE Restart
  <2>1. calls' = {} /\ \A r \in Replicas, s \in Sids : rec'[r][s] = NewRecord
    BY <1>5 DEF Restart, EmptyStores
  <2>2. Sound(NewRecord)
    BY DEF Sound, NewRecord, NoStatus, Terminal
  <2> QED
    BY <1>3, <2>1, <2>2 DEF CallsSound, RecsSound
<1>6. CASE ~Restart /\ \A c \in calls : ~CallStep(c)
  <2>1. rec' = rec
    BY <1>1, <1>6, OthersAnnounceNothing
  <2>2. ASSUME NEW d \in calls'
        PROVE  SoundCall(d)'
    <3>1. CASE d \in calls
      BY <1>2, <2>1, <3>1 DEF Truthful, CallsSound, SoundCall
    <3>2. CASE d \notin calls
      <4>1. /\ Admitted(d.ev.status) /\ (d.ev.stop => row.stop) /\ ~d.intent
            /\ d.persisted = NoStatus /\ d.new = NewRecord /\ ~Ending(d)
        BY <1>6, <3>2, ArrivesSound
      <4>2. Shows(NoStatus) /\ Sound(NewRecord) /\ NewRecord.status # "needs_help"
        BY DEF Shows, Admitted, Sound, NewRecord, NoStatus, Terminal
      <4> QED
        BY <1>2, <4>1, <4>2
    <3> QED
      BY <3>1, <3>2
  <2> QED
    BY <1>3, <2>1, <2>2 DEF Truthful, CallsSound, RecsSound
<1> QED
  BY <1>4, <1>5, <1>6

LEMMA InitTruthful == Init => Truthful
<1> SUFFICES ASSUME Init PROVE Truthful
  OBVIOUS
<1>1. Untaken
  BY InitShape DEF Init, Untaken, NoWithdrawal, FaultKind
<1>2. BotsAdmitted /\ StopsAsked /\ StopsAdmitted /\ SweepAdmitted /\ RowAdmitted
  BY DEF Init, BotsAdmitted, StopsAsked, StopsAdmitted, SweepAdmitted, RowAdmitted,
         Shows, Admitted, NoBot, NoStatus, IdleStop, IdleSweep
<1>3. CallsSound /\ RecsSound
  BY DEF Init, CallsSound, RecsSound, EmptyStores, Sound, NewRecord, NoStatus, Terminal
<1> QED
  BY <1>1, <1>2, <1>3 DEF Truthful

LEMMA NextTruthful ==
  ASSUME Truthful, OneRun, OneReplica, MaxWithdrawals = 0, "needs_help" \notin Stages,
         Next, StopOrFailure
  PROVE  Truthful'
<1>1. Untaken'
  BY NextShape, NextNoWithdrawal DEF Truthful, Untaken
<1> QED
  BY <1>1, NextBotsAdmitted, NextStopsAsked, NextStopsAdmitted, NextSweepAdmitted,
     NextRowAdmitted, NextCallsSound
  DEF Truthful

-----------------------------------------------------------------------------
(* Every step of the meeting is one of the promise, or none of its business. *)

Concludes == [s \in Sids |-> VerdictOf(rec[CHOOSE r \in Replicas : TRUE][s])]
Told      == {s \in Sids : announced[s] > 0}

LEMMA CallKeepsPromise ==
  ASSUME Truthful, OneRun, OneReplica, MaxWithdrawals = 0, NEW c \in calls,
         CallStep(c), Next
  PROVE  Promise!Next \/ UNCHANGED <<seated, row.stop, Concludes, Told>>
<1> DEFINE live == rec[c.on][c.sid]
<1>1. PICK x \in Record : Effect(c, x)
  BY CallEffect
<1>2. /\ c.on \in Replicas /\ c.sid \in Sids /\ live \in Record /\ row \in Row
      /\ rec \in [Replicas -> [Sids -> Record]] /\ announced \in [Sids -> 0..2]
      /\ seated \subseteq Sids
  BY DEF Truthful, Untaken, Shape, TypeOK, Call
<1>3. (CHOOSE r \in Replicas : TRUE) = c.on
  BY <1>2 DEF OneReplica
<1>4. UNCHANGED <<seated, row.stop>>
  <2>1. CASE row' = row
    BY <2>1 DEF CallStep
  <2>2. CASE CallPersist(c)
    BY <2>2, CallWrites DEF CallStep
  <2> QED
    BY <2>1, <2>2
    DEF CallStep, CallReadStatus, CallRehydrate, CallReadStop, CallApply,
        CallPersistFails, CallSettle
<1>5. Concludes[c.sid] = VerdictOf(live)
  BY <1>2, <1>3 DEF Concludes
<1>6. Concludes' = [Concludes EXCEPT ![c.sid] = VerdictOf(x)]
  <2>1. rec' = [rec EXCEPT ![c.on][c.sid] = x]
    BY <1>1 DEF Effect
  <2>2. \A s \in Sids : rec'[c.on][s] = IF s = c.sid THEN x ELSE rec[c.on][s]
    BY <1>2, <2>1
  <2> QED
    BY <1>2, <1>3, <2>2 DEF Concludes
<1>7. CASE announced' # announced
  <2>1. /\ x = live /\ live.status \in Terminal
        /\ announced' = [announced EXCEPT ![c.sid] = announced[c.sid] + 1]
    BY <1>1, <1>7 DEF Effect
  <2>2. Concludes' = Concludes
    BY <1>5, <1>6, <2>1 DEF Concludes
  <2>3. Told' = Told \cup {c.sid}
    BY <1>2, <2>1 DEF Told
  <2>4. Concludes[c.sid] # "none"
    BY <1>5, <2>1 DEF VerdictOf, Terminal
  <2>5. CASE c.sid \in Told
    BY <1>4, <2>2, <2>3, <2>5
  <2>6. CASE c.sid \notin Told
    <3>1. Promise!Tell(c.sid)
      BY <1>4, <2>2, <2>3, <2>4, <2>6 DEF Promise!Tell, Concludes, Told
    <3> QED
      BY <1>2, <3>1 DEF Promise!Next
  <2> QED
    BY <2>5, <2>6
<1>8. CASE announced' = announced
  <2>1. Told' = Told
    BY <1>8 DEF Told
  <2>2. CASE VerdictOf(x) = VerdictOf(live)
    <3>1. Concludes' = Concludes
      BY <1>5, <1>6, <2>2 DEF Concludes
    <3> QED
      BY <1>4, <2>1, <3>1
  <2>3. CASE VerdictOf(x) # VerdictOf(live)
    <3>1. live.status \notin Terminal
      BY <1>1, <2>3 DEF Effect, VerdictOf
    <3>2. VerdictOf(live) = "none" /\ VerdictOf(x) # "none"
      BY <2>3, <3>1 DEF VerdictOf, Terminal
    <3>3. VerdictOf(x) \in Promise!Verdict
      BY DEF VerdictOf, Promise!Verdict
    <3>4. Sound(x)
      BY <1>1 DEF Effect
    <3>5. VerdictOf(x) = "clean" => c.sid \in seated
      <4>1. Seated => c.sid \in seated
        BY <1>2 DEF Seated, OneRun
      <4> QED
        BY <3>4, <4>1 DEF VerdictOf, Sound
    <3>6. VerdictOf(x) = "stopped" => row.stop
      BY <3>4 DEF VerdictOf, Sound
    <3>7. Promise!Conclude(c.sid, VerdictOf(x))
      BY <1>4, <1>5, <1>6, <2>1, <3>2, <3>5, <3>6 DEF Promise!Conclude, Concludes, Told
    <3> QED
      BY <1>2, <3>3, <3>7 DEF Promise!Next
  <2> QED
    BY <2>2, <2>3
<1> QED
  BY <1>7, <1>8

LEMMA StepKeepsPromise ==
  ASSUME Truthful, OneRun, OneReplica, Replicas # {}, MaxWithdrawals = 0, Next
  PROVE  Promise!Next \/ UNCHANGED <<seated, row.stop, Concludes, Told>>
<1>1. Shape /\ row \in Row /\ (row.stop => row'.stop)
  BY StopStays DEF Truthful, Untaken, Shape, TypeOK
<1>2. ASSUME NEW s \in Sids, SpawnStep(s)
      PROVE  UNCHANGED <<seated, row.stop, Concludes, Told>>
  <2>1. UNCHANGED <<seated, rec, announced>>
    BY <1>2 DEF SpawnStep, memory, history
  <2>2. row'.stop = row.stop
    BY <1>1, <1>2, SpawnRows DEF SpawnRow, Row
  <2> QED
    BY <2>1, <2>2 DEF Concludes, Told
<1>3. ASSUME NEW s \in Sids, BotStep(s)
      PROVE  Promise!Next \/ UNCHANGED <<seated, row.stop, Concludes, Told>>
  <2>1. UNCHANGED <<row, rec, announced>> /\ (seated' = seated \/ seated' = seated \cup {s})
    BY <1>3 DEF BotStep, BotReport, BotPost, BotPostLost, BotGiveUp, BotExit, durable
  <2>2. UNCHANGED <<row.stop, Concludes, Told>>
    BY <2>1 DEF Concludes, Told
  <2>3. CASE seated' = seated \cup {s}
    <3>1. Promise!Admit(s)
      BY <2>2, <2>3 DEF Promise!Admit, Concludes, Told
    <3> QED
      BY <3>1 DEF Promise!Next
  <2> QED
    BY <2>1, <2>2, <2>3
<1>4. ASSUME NEW d \in Stops, StopStep(d)
      PROVE  Promise!Next \/ UNCHANGED <<seated, row.stop, Concludes, Told>>
  <2>1. UNCHANGED <<seated, rec, announced>>
    BY <1>4 DEF StopStep, memory, history
  <2>2. UNCHANGED <<seated, Concludes, Told>>
    BY <2>1 DEF Concludes, Told
  <2>3. CASE row'.stop = row.stop
    BY <2>2, <2>3
  <2>4. CASE row'.stop # row.stop
    <3>1. row'.stop = TRUE
      <4>1. row' \in Row
        BY <1>1, NextShape DEF Shape, TypeOK
      <4> QED
        BY <1>1, <2>4, <4>1 DEF Row
    <3>2. Promise!Ask
      BY <2>2, <3>1 DEF Promise!Ask, Concludes, Told
    <3> QED
      BY <3>2 DEF Promise!Next
  <2> QED
    BY <2>3, <2>4
<1>5. CASE KernelStep \/ SweepStep
  BY <1>5 DEF KernelStep, SweepStep, durable, history, Concludes, Told
<1>6. CASE Restart
  <2>1. UNCHANGED <<row, seated, announced>> /\ rec' = EmptyStores
    BY <1>6 DEF Restart, durable, history
  <2>2. (CHOOSE r \in Replicas : TRUE) \in Replicas
    OBVIOUS
  <2>3. Concludes' = [s \in Sids |-> "none"]
    BY <2>1, <2>2 DEF Concludes, EmptyStores, VerdictOf, NewRecord, NoStatus
  <2>4. Promise!Forget
    BY <2>1, <2>3 DEF Promise!Forget, Concludes, Told
  <2> QED
    BY <2>4 DEF Promise!Next
<1> QED
  BY <1>2, <1>3, <1>4, <1>5, <1>6, CallKeepsPromise DEF Next

\* The refinement: each step of a meeting of one run is a step of MeetingPromise or
\* leaves what it speaks of alone.  A run is concluded once, clean only if its bot
\* had been admitted and stopped only if somebody had asked for it, whoever reports
\* the end, in whatever order; a restart forgets the verdict, and never the end
\* that was announced.  It takes one process (a record is its own), no withdrawal
\* (which takes a verdict back), and no bot that reports needs_help (whose loss
\* the runtime takes for a clean end).
THEOREM PromiseKept ==
  ASSUME OneRun, OneReplica, Replicas # {}, MaxWithdrawals = 0, "needs_help" \notin Stages
  PROVE  LiveSpec => KeepsPromise
<1> DEFINE Act == Next /\ SlowBoot /\ StopOrFailure /\ OnlyStopsFail
<1>1. Truthful /\ [Act]_vars => Truthful'
  <2> SUFFICES ASSUME Truthful, [Act]_vars PROVE Truthful'
    OBVIOUS
  <2>1. CASE Act
    BY <2>1, NextTruthful
  <2>2. CASE UNCHANGED vars
    <3>1. Untaken'
      BY <2>2, NextShape
      DEF Truthful, Untaken, NoWithdrawal, vars, durable, memory
    <3>2. /\ BotsAdmitted' /\ StopsAsked' /\ StopsAdmitted' /\ SweepAdmitted'
      BY <2>2 DEF Truthful, BotsAdmitted, StopsAsked, StopsAdmitted, SweepAdmitted, Admitted,
         Seated, vars, durable, substrate, requests, reconcile, history
    <3>3. RowAdmitted' /\ CallsSound' /\ RecsSound'
      BY <2>2 DEF Truthful, RowAdmitted, CallsSound, SoundCall, RecsSound, Sound, Shows,
         Admitted, Over, Seated, Ending, vars, durable, memory, history
    <3> QED
      BY <3>1, <3>2, <3>3 DEF Truthful
  <2> QED
    BY <2>1, <2>2
<1>2. Init => Promise!Init
  BY DEF Init, Promise!Init, EmptyStores, VerdictOf, NewRecord, NoStatus
<1>3. Truthful /\ [Act]_vars => [Promise!Next]_(Promise!vars)
  <2> SUFFICES ASSUME Truthful, [Act]_vars PROVE [Promise!Next]_(Promise!vars)
    OBVIOUS
  <2>1. UNCHANGED <<seated, row.stop, Concludes, Told>> => UNCHANGED Promise!vars
    BY DEF Promise!vars, Concludes, Told
  <2>2. CASE Act
    BY <2>1, <2>2, StepKeepsPromise
  <2>3. CASE UNCHANGED vars
    BY <2>1, <2>3 DEF vars, durable, memory, history, Concludes, Told
  <2> QED
    BY <2>2, <2>3
<1> QED
  BY <1>1, <1>2, <1>3, InitTruthful, PTL DEF LiveSpec, KeepsPromise, Promise!Spec
=============================================================================
