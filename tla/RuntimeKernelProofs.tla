------------------------- MODULE RuntimeKernelProofs -------------------------
(***************************************************************************)
(* Theorems about RuntimeKernel, for any number of threads and of          *)
(* requests, Docker calls that fail and restarts.                          *)
(***************************************************************************)
EXTENDS RuntimeKernel, TLAPS

-----------------------------------------------------------------------------
(* Types. *)

StatusType == [state : State, limited : BOOLEAN]
ActType(n) == [op : {"none", "create", "get", "stop", "destroy"}, pc : Pc, obj : 0..n,
               seen : State \cup {"none"}, saw : Nat, on : Nat, stale : BOOLEAN]

StoreOK == /\ objs \in Seq(StatusType) /\ store \in 0..Len(objs)
           /\ handle \in BOOLEAN /\ tracked \in {"no", "fresh", "due"}
ContOK == /\ cont \in [gen : Nat, state : {"none", "created", "running", "terminating",
                                           "exited"}]
          /\ upset \subseteq Harm /\ events \in 0..MaxEvents
ActOK == act \in [Actors -> ActType(Len(objs))]

LEMMA TypesMeet == StoreOK /\ ContOK /\ ActOK => TypeOK
  BY DEF StoreOK, ContOK, ActOK, StatusType, ActType, TypeOK

LEMMA StateOfType == StoreOK => StateOf \in State \cup {"none"}
<1> SUFFICES ASSUME StoreOK PROVE StateOf \in State \cup {"none"}
  OBVIOUS
<1>1. CASE store = 0
  BY <1>1 DEF StateOf, Known, Unknown
<1>2. CASE store # 0
  <2>1. store \in 1..Len(objs) /\ objs \in Seq(StatusType)
    BY <1>2 DEF StoreOK
  <2>2. objs[store] \in StatusType
    BY <2>1
  <2> QED
    BY <1>2, <2>2 DEF StateOf, Known, Unknown, StatusType
<1> QED
  BY <1>1, <1>2

LEMMA InitTypes == Init => StoreOK /\ ContOK /\ ActOK
<1> SUFFICES ASSUME Init PROVE StoreOK /\ ContOK /\ ActOK
  OBVIOUS
<1>1. StoreOK
  <2>1. objs = <<>> /\ store = 0 /\ handle = FALSE /\ tracked = "no"
    BY DEF Init, Unknown
  <2>2. objs \in Seq(StatusType) /\ Len(objs) = 0
    BY <2>1
  <2>3. handle \in BOOLEAN
    BY <2>1, Zenon
  <2> QED
    BY <2>1, <2>2, <2>3 DEF StoreOK
<1>2. ContOK
  BY BoundsAssumption DEF Init, ContOK
<1>3. ActOK
  <2>1. Idle \in ActType(0)
    BY DEF Idle, ActType, Pc, Spawning, Unknown
  <2>2. Len(objs) = 0
    BY DEF Init
  <2> QED
    BY <2>1, <2>2 DEF Init, ActOK
<1> QED
  BY <1>1, <1>2, <1>3

\* A status object changes in its state only.
LEMMA StateSet ==
  ASSUME StoreOK, NEW i \in 0..Len(objs), NEW state \in State,
         objs' = [objs EXCEPT ![i].state = state]
  PROVE  /\ objs' \in Seq(StatusType) /\ Len(objs') = Len(objs)
         /\ i # 0 => objs'[i].state = state
<1>1. objs \in Seq(StatusType) /\ Len(objs) \in Nat /\ DOMAIN objs = 1..Len(objs)
  BY DEF StoreOK
<1>2. \A j \in 1..Len(objs) : objs[j] \in StatusType
  BY <1>1
<1>3. objs' = [j \in 1..Len(objs) |->
                 IF j = i THEN [objs[j] EXCEPT !.state = state] ELSE objs[j]]
  BY <1>1
<1>4. \A j \in 1..Len(objs) :
        (IF j = i THEN [objs[j] EXCEPT !.state = state] ELSE objs[j]) \in StatusType
  BY <1>2 DEF StatusType
<1>5. objs' \in [1..Len(objs) -> StatusType]
  BY <1>3, <1>4
<1>6. objs' \in Seq(StatusType) /\ Len(objs') = Len(objs)
  BY <1>1, <1>5
<1>7. ASSUME i # 0 PROVE objs'[i].state = state
  <2>1. i \in 1..Len(objs) /\ objs[i] \in StatusType
    BY <1>1, <1>2, <1>7
  <2>2. objs'[i] = [objs[i] EXCEPT !.state = state]
    BY <1>3, <2>1
  <2> QED
    BY <2>1, <2>2 DEF StatusType
<1> QED
  BY <1>6, <1>7

\* A verdict is written on the status that was looked up.
LEMMA WriteGrows ==
  ASSUME StoreOK, ActOK, NEW a \in Actors, NEW state \in State, Write(a, state)
  PROVE  /\ objs' \in Seq(StatusType) /\ Len(objs') = Len(objs)
         /\ store' \in 0..Len(objs')
<1>1. act[a].obj \in 0..Len(objs)
  BY DEF ActOK, ActType
<1>2. Len(objs') = Len(objs) /\ objs' \in Seq(StatusType)
  BY <1>1, StateSet DEF Write
<1> QED
  BY <1>1, <1>2 DEF Write

\* The status objects are only ever added to.
LEMMA ObjsGrow ==
  ASSUME StoreOK, ActOK, [Next]_vars
  PROVE  StoreOK' /\ Len(objs) <= Len(objs')
<1> USE DEF StoreOK, StatusType, State, registry
<1>1. ASSUME NEW a \in Actors, CreateLook(a) PROVE StoreOK' /\ Len(objs) <= Len(objs')
  <2>1. Found \in BOOLEAN
    BY DEF Found, Exists
  <2>2. handle' \in BOOLEAN
    BY <1>1, <2>1, Zenon DEF CreateLook
  <2> QED
    BY <1>1, <2>2 DEF CreateLook
<1>2. ASSUME NEW a \in Actors, CreatePersist(a) PROVE StoreOK' /\ Len(objs) <= Len(objs')
  BY <1>2 DEF CreatePersist, Status
<1>3. ASSUME NEW a \in Actors, CreateContainer(a) \/ ReplaceStale(a) \/ StartContainer(a) PROVE StoreOK' /\ Len(objs) <= Len(objs')
  BY <1>3 DEF CreateContainer, ReplaceStale, StartContainer
<1>4. ASSUME NEW a \in Actors, CreateDone(a) PROVE StoreOK' /\ Len(objs) <= Len(objs')
  BY <1>4, WriteGrows DEF CreateDone
<1>5. ASSUME NEW a \in Actors, CreateFailed(a) PROVE StoreOK' /\ Len(objs) <= Len(objs')
  BY <1>5, WriteGrows DEF CreateFailed
<1>6. ASSUME NEW a \in Actors, Track(a) PROVE StoreOK' /\ Len(objs) <= Len(objs')
  BY <1>6 DEF Track
<1>7. ASSUME NEW a \in Actors, StopLook(a) PROVE StoreOK' /\ Len(objs) <= Len(objs')
  <2>1. \/ objs' = objs
        \/ objs' = [objs EXCEPT ![store].state = "stopping"]
    BY <1>7 DEF StopLook
  <2>2. UNCHANGED <<store, tracked>> /\ handle' \in BOOLEAN
    BY <1>7 DEF StopLook, HandleFor, Exists
  <2>3. objs' \in Seq(StatusType) /\ Len(objs') = Len(objs)
    BY <2>1, StateSet
  <2> QED
    BY <2>2, <2>3
<1>8. ASSUME NEW a \in Actors, Terminate(a) \/ TerminateReturns(a) \/ Poll(a) PROVE StoreOK' /\ Len(objs) <= Len(objs')
  BY <1>8 DEF Terminate, TerminateReturns, Poll
<1>9. ASSUME NEW a \in Actors, RecordStopped(a) PROVE StoreOK' /\ Len(objs) <= Len(objs')
  BY <1>9, WriteGrows DEF RecordStopped
<1>10. ASSUME NEW a \in Actors, Forget(a) PROVE StoreOK' /\ Len(objs) <= Len(objs')
  BY <1>10 DEF Forget
<1>11. ASSUME NEW a \in Actors, DestroyLook(a) PROVE StoreOK' /\ Len(objs) <= Len(objs')
  BY <1>11 DEF DestroyLook, HandleFor
<1>12. ASSUME NEW a \in Actors, Cleanup(a) PROVE StoreOK' /\ Len(objs) <= Len(objs')
  BY <1>12 DEF Cleanup
<1>13. ASSUME NEW a \in Actors, MarkDestroyed(a) PROVE StoreOK' /\ Len(objs) <= Len(objs')
  BY <1>13, WriteGrows DEF MarkDestroyed
<1>14. ASSUME NEW a \in Actors, GetLook(a) PROVE StoreOK' /\ Len(objs) <= Len(objs')
  BY <1>14 DEF GetLook
<1>15. ASSUME NEW a \in Actors, Reflect(a) PROVE StoreOK' /\ Len(objs) <= Len(objs')
  BY <1>15, WriteGrows DEF Reflect
<1>16. ASSUME NEW a \in Actors, SpawnRaises(a) \/ StopRaises(a) PROVE StoreOK' /\ Len(objs) <= Len(objs')
  BY <1>16 DEF SpawnRaises, StopRaises
<1>17. ASSUME NEW a \in Actors, LookupRaises(a) PROVE StoreOK' /\ Len(objs) <= Len(objs')
  <2>1. \/ objs' = objs
        \/ objs' = [objs EXCEPT ![store].state = "stopping"]
    BY <1>17 DEF LookupRaises
  <2>2. UNCHANGED <<store, handle, tracked>>
    BY <1>17 DEF LookupRaises
  <2>3. objs' \in Seq(StatusType) /\ Len(objs') = Len(objs)
    BY <2>1, StateSet
  <2> QED
    BY <2>2, <2>3
<1>18. CASE EnforcerLook \/ ContainerExits
  BY <1>18 DEF EnforcerLook, ContainerExits
<1>19. CASE Age
  BY <1>19 DEF Age
<1>20. CASE Restart
  <2>1. CASE objs' = Append(objs, Adopted) /\ store' = Len(objs) + 1
             /\ handle' = TRUE /\ tracked' = "fresh"
    <3>1. Adopted \in StatusType
      BY DEF Adopted
    <3>2. handle' \in BOOLEAN
      BY <2>1, Zenon
    <3> QED
      BY <2>1, <3>1, <3>2
  <2>2. CASE objs' = objs /\ store' = Unknown /\ handle' = FALSE /\ tracked' = "no"
    <3>1. handle' \in BOOLEAN
      BY <2>2, Zenon
    <3> QED
      BY <2>2, <3>1 DEF Unknown
  <2> QED
    BY <1>20, <2>1, <2>2 DEF Restart
<1>21. CASE UNCHANGED vars
  BY <1>21 DEF vars
<1> QED
  BY <1>1, <1>2, <1>3, <1>4, <1>5, <1>6, <1>7, <1>8, <1>9, <1>10, <1>11, <1>12, <1>13, <1>14, <1>15, <1>16, <1>17, <1>18, <1>19, <1>20, <1>21 DEF Next, CreateStep, StopStep, DestroyStep, ReadStep

\* What a step of one thread leaves of its own state.
LEMMA ToDoes ==
  ASSUME ActOK, NEW a \in Actors, NEW pc \in Pc, To(a, pc)
  PROVE  /\ \A b \in Actors : b # a => act'[b] = act[b]
         /\ act'[a] = [act[a] EXCEPT !.pc = pc]
         /\ act'[a].pc = pc
         /\ act'[a].op = act[a].op /\ act'[a].obj = act[a].obj /\ act'[a].seen = act[a].seen
         /\ act'[a].saw = act[a].saw /\ act'[a].on = act[a].on /\ act'[a].stale = act[a].stale
         /\ act' \in [Actors -> ActType(Len(objs))]
<1>1. act[a] \in ActType(Len(objs))
  BY DEF ActOK
<1>2. /\ \A b \in Actors : b # a => act'[b] = act[b]
      /\ act'[a] = [act[a] EXCEPT !.pc = pc]
  BY DEF ActOK, To
<1>3. [act[a] EXCEPT !.pc = pc] \in ActType(Len(objs))
  BY <1>1 DEF ActType
<1>4. act' \in [Actors -> ActType(Len(objs))]
  BY <1>3 DEF ActOK, To
<1> QED
  BY <1>1, <1>2, <1>4 DEF ActType

LEMMA StopDoes ==
  ASSUME ActOK, StoreOK, NEW a \in Actors, Stop(a)
  PROVE  /\ \A b \in Actors : b # a => act'[b] = act[b]
         /\ act'[a] = Idle
         /\ act' \in [Actors -> ActType(Len(objs))]
<1>1. Idle \in ActType(Len(objs))
  BY DEF Idle, ActType, Pc, Spawning, Unknown, StoreOK
<1> QED
  BY <1>1 DEF ActOK, Stop

LEMMA LookedType ==
  ASSUME StoreOK, ContOK, NEW op \in {"create", "get", "stop", "destroy"}, NEW pc \in Pc
  PROVE  Looked(op, pc) \in ActType(Len(objs))
  BY StateOfType DEF Looked, ActType, StoreOK, ContOK

\* A create that moves on marks whoever else is at work.
LEMMA OvertakingDoes ==
  ASSUME ActOK, NEW a \in Actors, NEW own, Overtaking(a, own)
  PROVE  /\ act'[a] = own
         /\ \A b \in Actors : b # a =>
              /\ act'[b].op = act[b].op /\ act'[b].pc = act[b].pc /\ act'[b].obj = act[b].obj
              /\ act'[b].seen = act[b].seen /\ act'[b].saw = act[b].saw /\ act'[b].on = act[b].on
              /\ act[b].pc # "idle" => act'[b].stale
<1>1. act'[a] = own
  BY DEF Overtaking
<1>2. ASSUME NEW b \in Actors, b # a
      PROVE  act'[b] = [act[b] EXCEPT !.stale = act[b].pc # "idle"]
  BY <1>2 DEF Overtaking
<1>3. ASSUME NEW b \in Actors PROVE act[b] \in ActType(Len(objs))
  BY DEF ActOK
<1>4. ASSUME NEW b \in Actors, b # a
      PROVE  /\ act'[b].op = act[b].op /\ act'[b].pc = act[b].pc /\ act'[b].obj = act[b].obj
             /\ act'[b].seen = act[b].seen /\ act'[b].saw = act[b].saw /\ act'[b].on = act[b].on
  <2>1. PICK s : act'[b] = [act[b] EXCEPT !.stale = s]
    BY <1>2, <1>4
  <2> QED
    BY <2>1, <1>3 DEF ActType
<1>5. ASSUME NEW b \in Actors, b # a, act[b].pc # "idle"
      PROVE  act'[b].stale
  <2>1. act'[b] = [act[b] EXCEPT !.stale = TRUE]
    <3>1. (act[b].pc # "idle") = TRUE
      BY <1>5
    <3> QED
      BY <3>1, <1>2, <1>5
  <2> QED
    BY <2>1, <1>3, <1>5 DEF ActType
<1> QED
  BY <1>1, <1>4, <1>5

LEMMA OvertakingType ==
  ASSUME ActOK, StoreOK, NEW a \in Actors, NEW own, Overtaking(a, own),
         NEW n \in Nat, Len(objs) <= n, own \in ActType(n)
  PROVE  act' \in [Actors -> ActType(n)]
<1>1. ASSUME NEW b \in Actors, b # a
      PROVE  [act[b] EXCEPT !.stale = act[b].pc # "idle"] \in ActType(n)
  <2>1. act[b] \in ActType(Len(objs))
    BY DEF ActOK
  <2>2. act[b].obj \in 0..n
    BY <2>1 DEF ActType, StoreOK
  <2>3. (act[b].pc # "idle") \in BOOLEAN
    OBVIOUS
  <2> QED
    BY <2>1, <2>2, <2>3 DEF ActType
<1> QED
  BY <1>1 DEF Overtaking

LEMMA ActKept ==
  ASSUME StoreOK, ContOK, ActOK, [Next]_vars
  PROVE  ActOK'
<1> USE DEF ActOK, registry
<1>0. /\ Len(objs) \in Nat /\ Len(objs') \in Nat
      /\ \A a \in Actors : act[a] \in ActType(Len(objs))
      /\ StoreOK'
  BY ObjsGrow DEF StoreOK
<1>1. ASSUME NEW a \in Actors, CreateLook(a) PROVE act' \in [Actors -> ActType(Len(objs'))]
  <2>1. PICK op \in {"create"}, pc \in Pc : act' = [act EXCEPT ![a] = Looked(op, pc)]
    BY <1>1 DEF CreateLook, Pc, Spawning
  <2>2. act' \in [Actors -> ActType(Len(objs))]
    BY <2>1, LookedType
  <2>3. Len(objs') = Len(objs)
    BY <1>1 DEF CreateLook, registry
  <2> QED
    BY <2>2, <2>3
<1>2. ASSUME NEW a \in Actors, CreatePersist(a) PROVE act' \in [Actors -> ActType(Len(objs'))]
  <2>1. [act[a] EXCEPT !.pc = "create", !.obj = Len(objs) + 1] \in ActType(Len(objs'))
    <3>1. Len(objs') = Len(objs) + 1
      BY <1>2 DEF CreatePersist, StoreOK
    <3>2. act[a] \in ActType(Len(objs'))
      BY <1>0, <3>1 DEF ActType
    <3>3. "create" \in Pc /\ Len(objs) + 1 \in 0..Len(objs')
      BY <1>0, <3>1 DEF Pc, Spawning
    <3> QED
      BY <3>2, <3>3 DEF ActType
  <2> QED
    BY <1>2, <1>0, <2>1, ObjsGrow, OvertakingType DEF CreatePersist
<1>3. ASSUME NEW a \in Actors, CreateContainer(a) PROVE act' \in [Actors -> ActType(Len(objs'))]
  <2>1. CASE ~Exists
    <3>1. [act[a] EXCEPT !.pc = "start", !.saw = cont.gen + 1] \in ActType(Len(objs))
      <4>1. "start" \in Pc /\ cont.gen + 1 \in Nat
        BY DEF ContOK, Pc, Spawning
      <4>2. act[a] \in ActType(Len(objs))
        BY <1>0
      <4> QED
        BY <4>1, <4>2 DEF ActType
    <3> QED
      BY <1>3, <2>1, <3>1 DEF CreateContainer
  <2>2. CASE Exists
    <3>1. PICK pc \in Pc : To(a, pc)
      BY <1>3, <2>2 DEF CreateContainer, Pc, Spawning
    <3> QED
      BY <1>3, <3>1, ToDoes DEF CreateContainer
  <2> QED
    BY <2>1, <2>2
<1>4. ASSUME NEW a \in Actors, ReplaceStale(a) PROVE act' \in [Actors -> ActType(Len(objs'))]
  <2>1. PICK pc \in Pc : To(a, pc)
    BY <1>4 DEF ReplaceStale, Pc, Spawning
  <2>2. Len(objs') = Len(objs)
    BY <1>4 DEF ReplaceStale, registry
  <2> QED
    BY <2>1, <2>2, ToDoes
<1>5. ASSUME NEW a \in Actors, StartContainer(a) PROVE act' \in [Actors -> ActType(Len(objs'))]
  <2>1. CASE Startable(a)
    <3>1. [act[a] EXCEPT !.pc = "running"] \in ActType(Len(objs))
      BY ZenonT(30), <1>0 DEF ActType, Pc, Spawning
    <3> QED
      BY <1>5, <2>1, <1>0, <3>1, OvertakingType DEF StartContainer
  <2>2. CASE ~Startable(a)
    <3>1. PICK pc \in Pc : To(a, pc)
      BY <1>5, <2>2 DEF StartContainer, Pc, Spawning
    <3> QED
      BY <1>5, <3>1, ToDoes DEF StartContainer
  <2> QED
    BY <2>1, <2>2
<1>6. ASSUME NEW a \in Actors, CreateDone(a) PROVE act' \in [Actors -> ActType(Len(objs'))]
  <2>1. [act[a] EXCEPT !.pc = "track"] \in ActType(Len(objs))
    BY ZenonT(30), <1>0 DEF ActType, Pc, Spawning
  <2>2. Len(objs') = Len(objs)
    BY <1>6, WriteGrows DEF CreateDone, State
  <2> QED
    BY <1>6, <1>0, <2>1, <2>2, OvertakingType DEF CreateDone
<1>7. ASSUME NEW a \in Actors, CreateFailed(a) PROVE act' \in [Actors -> ActType(Len(objs'))]
  <2>1. PICK pc \in Pc : To(a, pc)
    BY <1>7 DEF CreateFailed, Pc, Spawning
  <2>2. Len(objs') = Len(objs)
    BY <1>7, WriteGrows DEF CreateFailed, registry, State
  <2> QED
    BY <2>1, <2>2, ToDoes
<1>8. ASSUME NEW a \in Actors, Track(a) PROVE act' \in [Actors -> ActType(Len(objs'))]
  BY <1>8, StopDoes DEF Track
<1>9. ASSUME NEW a \in Actors, StopLook(a) PROVE act' \in [Actors -> ActType(Len(objs'))]
  <2>1. PICK op \in {"stop"}, pc \in Pc : act' = [act EXCEPT ![a] = Looked(op, pc)]
    BY <1>9 DEF StopLook, Pc, Spawning
  <2>2. act' \in [Actors -> ActType(Len(objs))]
    BY <2>1, LookedType
  <2>3. Len(objs') = Len(objs)
    BY <1>9, StateSet DEF StopLook, State, StoreOK
  <2> QED
    BY <2>2, <2>3
<1>10. ASSUME NEW a \in Actors, Terminate(a) PROVE act' \in [Actors -> ActType(Len(objs'))]
  <2>1. [act[a] EXCEPT !.pc = IF Alive THEN "wait" ELSE "poll", !.on = cont.gen] \in ActType(Len(objs))
    BY ZenonT(30), <1>0 DEF ActType, ContOK, Pc, Spawning
  <2> QED
    BY <1>10, <2>1 DEF Terminate
<1>11. ASSUME NEW a \in Actors, TerminateReturns(a) PROVE act' \in [Actors -> ActType(Len(objs'))]
  <2>1. PICK pc \in Pc : To(a, pc)
    BY <1>11 DEF TerminateReturns, Pc, Spawning
  <2>2. Len(objs') = Len(objs)
    BY <1>11 DEF TerminateReturns, registry
  <2> QED
    BY <2>1, <2>2, ToDoes
<1>12. ASSUME NEW a \in Actors, Poll(a) PROVE act' \in [Actors -> ActType(Len(objs'))]
  <2>1. PICK pc \in Pc : To(a, pc)
    BY <1>12 DEF Poll, Pc, Spawning
  <2>2. Len(objs') = Len(objs)
    BY <1>12 DEF Poll, registry
  <2> QED
    BY <2>1, <2>2, ToDoes
<1>13. ASSUME NEW a \in Actors, RecordStopped(a) PROVE act' \in [Actors -> ActType(Len(objs'))]
  <2>1. PICK pc \in Pc : To(a, pc)
    BY <1>13 DEF RecordStopped, Pc, Spawning
  <2>2. Len(objs') = Len(objs)
    BY <1>13, WriteGrows DEF RecordStopped, registry, State
  <2> QED
    BY <2>1, <2>2, ToDoes
<1>14. ASSUME NEW a \in Actors, Forget(a) PROVE act' \in [Actors -> ActType(Len(objs'))]
  BY <1>14, StopDoes DEF Forget
<1>15. ASSUME NEW a \in Actors, DestroyLook(a) PROVE act' \in [Actors -> ActType(Len(objs'))]
  <2>1. PICK op \in {"destroy"}, pc \in Pc : act' = [act EXCEPT ![a] = Looked(op, pc)]
    BY <1>15 DEF DestroyLook, Pc, Spawning
  <2>2. act' \in [Actors -> ActType(Len(objs))]
    BY <2>1, LookedType
  <2>3. Len(objs') = Len(objs)
    BY <1>15 DEF DestroyLook, registry
  <2> QED
    BY <2>2, <2>3
<1>16. ASSUME NEW a \in Actors, Cleanup(a) PROVE act' \in [Actors -> ActType(Len(objs'))]
  <2>1. PICK pc \in Pc : To(a, pc)
    BY <1>16 DEF Cleanup, Pc, Spawning
  <2>2. Len(objs') = Len(objs)
    BY <1>16 DEF Cleanup, registry
  <2> QED
    BY <2>1, <2>2, ToDoes
<1>17. ASSUME NEW a \in Actors, MarkDestroyed(a) PROVE act' \in [Actors -> ActType(Len(objs'))]
  <2>1. PICK pc \in Pc : To(a, pc)
    BY <1>17 DEF MarkDestroyed, Pc, Spawning
  <2>2. Len(objs') = Len(objs)
    BY <1>17, WriteGrows DEF MarkDestroyed, registry, State
  <2> QED
    BY <2>1, <2>2, ToDoes
<1>18. ASSUME NEW a \in Actors, GetLook(a) PROVE act' \in [Actors -> ActType(Len(objs'))]
  <2>1. PICK op \in {"get"}, pc \in Pc : act' = [act EXCEPT ![a] = Looked(op, pc)]
    BY <1>18 DEF GetLook, Pc, Spawning
  <2>2. act' \in [Actors -> ActType(Len(objs))]
    BY <2>1, LookedType
  <2>3. Len(objs') = Len(objs)
    BY <1>18 DEF GetLook, registry
  <2> QED
    BY <2>2, <2>3
<1>19. ASSUME NEW a \in Actors, Reflect(a) PROVE act' \in [Actors -> ActType(Len(objs'))]
  <2>1. PICK pc \in Pc : To(a, pc)
    BY <1>19 DEF Reflect, Pc, Spawning
  <2>2. Len(objs') = Len(objs)
    BY <1>19, WriteGrows DEF Reflect, registry, State
  <2> QED
    BY <2>1, <2>2, ToDoes
<1>20. ASSUME NEW a \in Actors, SpawnRaises(a) PROVE act' \in [Actors -> ActType(Len(objs'))]
  <2>1. PICK pc \in Pc : To(a, pc)
    BY <1>20 DEF SpawnRaises, Pc, Spawning
  <2>2. Len(objs') = Len(objs)
    BY <1>20 DEF SpawnRaises, registry
  <2> QED
    BY <2>1, <2>2, ToDoes
<1>21. ASSUME NEW a \in Actors, StopRaises(a) PROVE act' \in [Actors -> ActType(Len(objs'))]
  BY <1>21, StopDoes DEF StopRaises
<1>22. ASSUME NEW a \in Actors, LookupRaises(a) PROVE act' \in [Actors -> ActType(Len(objs'))]
  <2>1. PICK op \in {"stop", "destroy"}, pc \in Pc : act' = [act EXCEPT ![a] = Looked(op, pc)]
    BY <1>22 DEF LookupRaises, Pc, Spawning
  <2>2. act' \in [Actors -> ActType(Len(objs))]
    BY <2>1, LookedType
  <2>3. Len(objs') = Len(objs)
    BY <1>22, StateSet DEF LookupRaises, State, StoreOK
  <2> QED
    BY <2>2, <2>3
<1>23. CASE EnforcerLook
  <2>1. To(Enforcer, "stop") /\ Enforcer \in Actors /\ "stop" \in Pc
    BY <1>23 DEF EnforcerLook, To, Actors, Pc
  <2> QED
    BY <1>23, <2>1, ToDoes DEF EnforcerLook
<1>24. CASE Age
  BY <1>24 DEF Age
<1>25. CASE ContainerExits
  BY <1>25 DEF ContainerExits
<1>26. CASE Restart
  <2>1. Idle \in ActType(Len(objs'))
    BY <1>0 DEF Idle, ActType, Pc, Spawning, Unknown
  <2> QED
    BY <1>26, <2>1 DEF Restart
<1>27. CASE UNCHANGED vars
  BY <1>27 DEF vars
<1> QED
  BY <1>1, <1>2, <1>3, <1>4, <1>5, <1>6, <1>7, <1>8, <1>9, <1>10, <1>11, <1>12, <1>13, <1>14, <1>15, <1>16, <1>17, <1>18, <1>19, <1>20, <1>21, <1>22, <1>23, <1>24, <1>25, <1>26, <1>27 DEF Next, CreateStep, StopStep, DestroyStep, ReadStep

\* What a call to Docker that is not answered may have done.
LEMMA EffectDoes ==
  ASSUME ContOK, NEW a
  PROVE  /\ Effect(a) \in [gen : Nat, state : {"none", "created", "running", "terminating", "exited"}]
         /\ Effect(a).gen >= cont.gen
         /\ Effect(a).gen # cont.gen => Effect(a).gen = cont.gen + 1 /\ Effect(a).state = "created"
         /\ Effect(a).state = "created" => Effect(a).gen = cont.gen + 1 \/ Effect(a) = cont
         /\ Effect(a).state = "running" => cont.state \in {"created", "running"}
         /\ Effect(a).state = "terminating" => Alive
<1> USE DEF ContOK
<1>1. CASE act[a].pc \in {"create", "recreate"} /\ ~Exists
  BY <1>1 DEF Effect
<1>2. CASE act[a].pc \in {"replace", "cleanup"}
  BY <1>2 DEF Effect
<1>3. CASE act[a].pc = "start" /\ Startable(a)
  BY <1>3 DEF Effect, Startable
<1>4. CASE act[a].pc \in {"terminate", "wait"} /\ Alive
  BY <1>4 DEF Effect, Alive
<1>5. CASE act[a].pc = "poll" /\ Alive
  BY <1>5 DEF Effect, Alive
<1>6. CASE Effect(a) = cont
  BY <1>6 DEF Alive
<1> QED
  BY <1>1, <1>2, <1>3, <1>4, <1>5, <1>6 DEF Effect

LEMMA ContKept ==
  ASSUME ContOK, [Next]_vars
  PROVE  ContOK'
<1> USE BoundsAssumption DEF ContOK, Harm, Happens
<1>1. ASSUME NEW a \in Actors, CreateLook(a) PROVE ContOK'
  BY <1>1 DEF CreateLook, Serve
<1>2. ASSUME NEW a \in Actors, CreatePersist(a) PROVE ContOK'
  BY <1>2 DEF CreatePersist
<1>3. ASSUME NEW a \in Actors, CreateContainer(a) PROVE ContOK'
  BY <1>3 DEF CreateContainer
<1>4. ASSUME NEW a \in Actors, ReplaceStale(a) PROVE ContOK'
  BY <1>4 DEF ReplaceStale
<1>5. ASSUME NEW a \in Actors, StartContainer(a) PROVE ContOK'
  BY <1>5 DEF StartContainer
<1>6. ASSUME NEW a \in Actors, CreateDone(a) PROVE ContOK'
  BY <1>6 DEF CreateDone, Write
<1>7. ASSUME NEW a \in Actors, CreateFailed(a) PROVE ContOK'
  BY <1>7 DEF CreateFailed, Write
<1>8. ASSUME NEW a \in Actors, Track(a) PROVE ContOK'
  BY <1>8 DEF Track
<1>9. ASSUME NEW a \in Actors, StopLook(a) PROVE ContOK'
  BY <1>9 DEF StopLook, Serve
<1>10. ASSUME NEW a \in Actors, Terminate(a) PROVE ContOK'
  BY <1>10 DEF Terminate
<1>11. ASSUME NEW a \in Actors, TerminateReturns(a) PROVE ContOK'
  BY <1>11 DEF TerminateReturns
<1>12. ASSUME NEW a \in Actors, Poll(a) PROVE ContOK'
  BY <1>12 DEF Poll
<1>13. ASSUME NEW a \in Actors, RecordStopped(a) PROVE ContOK'
  BY <1>13 DEF RecordStopped, Write
<1>14. ASSUME NEW a \in Actors, Forget(a) PROVE ContOK'
  BY <1>14 DEF Forget
<1>15. ASSUME NEW a \in Actors, DestroyLook(a) PROVE ContOK'
  BY <1>15 DEF DestroyLook, Serve
<1>16. ASSUME NEW a \in Actors, Cleanup(a) PROVE ContOK'
  BY <1>16 DEF Cleanup
<1>17. ASSUME NEW a \in Actors, MarkDestroyed(a) PROVE ContOK'
  BY <1>17 DEF MarkDestroyed, Write
<1>18. ASSUME NEW a \in Actors, GetLook(a) PROVE ContOK'
  BY <1>18 DEF GetLook, Serve
<1>19. ASSUME NEW a \in Actors, Reflect(a) PROVE ContOK'
  BY <1>19 DEF Reflect, Write
<1>20. ASSUME NEW a \in Actors, SpawnRaises(a) PROVE ContOK'
  BY <1>20, EffectDoes DEF SpawnRaises, DockerFails
<1>21. ASSUME NEW a \in Actors, StopRaises(a) PROVE ContOK'
  <2>1. DockerFails({"unstopped"}) \/ DockerFails({})
    BY <1>21 DEF StopRaises
  <2>2. cont' \in {cont, Effect(a)}
    BY <1>21 DEF StopRaises
  <2>3. upset' \subseteq Harm /\ events' \in 0..MaxEvents
    <3>1. CASE DockerFails({"unstopped"})
      BY <3>1 DEF DockerFails
    <3>2. CASE DockerFails({})
      <4>1. upset' = upset
        BY <3>2 DEF DockerFails
      <4>2. events' \in 0..MaxEvents
        BY <3>2 DEF DockerFails
      <4> QED
        BY <4>1, <4>2
    <3> QED
      BY <2>1, <3>1, <3>2
  <2> QED
    BY <2>2, <2>3, EffectDoes
<1>22. ASSUME NEW a \in Actors, LookupRaises(a) PROVE ContOK'
  BY <1>22 DEF LookupRaises, DockerFails
<1>23. CASE EnforcerLook
  BY <1>23 DEF EnforcerLook
<1>24. CASE Age
  BY <1>24 DEF Age
<1>25. CASE ContainerExits
  BY <1>25 DEF ContainerExits
<1>26. CASE Restart
  <2>1. cont' = cont /\ events' \in 0..MaxEvents
    BY <1>26 DEF Restart
  <2>2. upset' \subseteq Harm
    <3>1. upset' = upset \cup {"restarted"} \/ upset' = upset \cup {"restarted", "lost"}
      BY <1>26, Zenon DEF Restart
    <3> QED
      BY <3>1
  <2> QED
    BY <2>1, <2>2
<1>27. CASE UNCHANGED vars
  BY <1>27 DEF vars
<1> QED
  BY <1>1, <1>2, <1>3, <1>4, <1>5, <1>6, <1>7, <1>8, <1>9, <1>10, <1>11, <1>12, <1>13, <1>14, <1>15, <1>16, <1>17, <1>18, <1>19, <1>20, <1>21, <1>22, <1>23, <1>24, <1>25, <1>26, <1>27 DEF Next, CreateStep, StopStep, DestroyStep, ReadStep

-----------------------------------------------------------------------------
(* What one step changes. *)

\* What went wrong stays on record.
LEMMA UpsetGrows ==
  ASSUME [Next]_vars
  PROVE  upset \subseteq upset'
<1>1. ASSUME NEW a \in Actors, CreateLook(a) \/ CreatePersist(a) \/ CreateContainer(a) \/ ReplaceStale(a) \/ StartContainer(a) PROVE upset \subseteq upset'
  BY <1>1 DEF CreateLook, CreatePersist, CreateContainer, ReplaceStale, StartContainer
<1>2. ASSUME NEW a \in Actors, CreateDone(a) PROVE upset \subseteq upset'
  BY <1>2 DEF CreateDone, Write
<1>3. ASSUME NEW a \in Actors, CreateFailed(a) PROVE upset \subseteq upset'
  BY <1>3 DEF CreateFailed, Write
<1>4. ASSUME NEW a \in Actors, Track(a) \/ StopLook(a) \/ Terminate(a) \/ TerminateReturns(a) \/ Poll(a) PROVE upset \subseteq upset'
  BY <1>4 DEF Track, StopLook, Terminate, TerminateReturns, Poll
<1>5. ASSUME NEW a \in Actors, RecordStopped(a) PROVE upset \subseteq upset'
  BY <1>5 DEF RecordStopped, Write
<1>6. ASSUME NEW a \in Actors, Forget(a) PROVE upset \subseteq upset'
  BY <1>6 DEF Forget
<1>7. ASSUME NEW a \in Actors, DestroyLook(a) \/ Cleanup(a) PROVE upset \subseteq upset'
  BY <1>7 DEF DestroyLook, Cleanup
<1>8. ASSUME NEW a \in Actors, MarkDestroyed(a) PROVE upset \subseteq upset'
  BY <1>8 DEF MarkDestroyed, Write
<1>9. ASSUME NEW a \in Actors, GetLook(a) PROVE upset \subseteq upset'
  BY <1>9 DEF GetLook
<1>10. ASSUME NEW a \in Actors, Reflect(a) PROVE upset \subseteq upset'
  BY <1>10 DEF Reflect, Write
<1>11. ASSUME NEW a \in Actors, SpawnRaises(a) PROVE upset \subseteq upset'
  BY <1>11 DEF SpawnRaises, DockerFails
<1>12. ASSUME NEW a \in Actors, StopRaises(a) PROVE upset \subseteq upset'
  BY <1>12 DEF StopRaises, DockerFails
<1>13. ASSUME NEW a \in Actors, LookupRaises(a) PROVE upset \subseteq upset'
  BY <1>13 DEF LookupRaises, DockerFails
<1>14. CASE EnforcerLook
  BY <1>14 DEF EnforcerLook
<1>15. CASE Age
  BY <1>15 DEF Age
<1>16. CASE ContainerExits
  BY <1>16 DEF ContainerExits
<1>17. CASE Restart
  BY <1>17 DEF Restart
<1>18. CASE UNCHANGED vars
  BY <1>18 DEF vars
<1> QED
  BY <1>1, <1>2, <1>3, <1>4, <1>5, <1>6, <1>7, <1>8, <1>9, <1>10, <1>11, <1>12, <1>13, <1>14, <1>15, <1>16, <1>17, <1>18 DEF Next, CreateStep, StopStep, DestroyStep, ReadStep

Moves(a) ==
  \/ CreateStep(a) \/ StopStep(a) \/ DestroyStep(a) \/ ReadStep(a)
  \/ SpawnRaises(a) \/ StopRaises(a) \/ LookupRaises(a)

\* A thread that does not move is where it was; what it saw may have gone stale.
Same(a) ==
  /\ act'[a].op = act[a].op /\ act'[a].pc = act[a].pc /\ act'[a].obj = act[a].obj
  /\ act'[a].seen = act[a].seen /\ act'[a].saw = act[a].saw /\ act'[a].on = act[a].on
  /\ act[a].pc # "idle" /\ act[a].stale => act'[a].stale

LEMMA Bystander ==
  ASSUME ActOK, [Next]_vars, NEW a \in Actors
  PROVE  Moves(a) \/ (a = Enforcer /\ EnforcerLook) \/ Same(a) \/ act'[a] = Idle
<1> SUFFICES ASSUME ~Moves(a), ~(a = Enforcer /\ EnforcerLook), act'[a] # Idle
             PROVE  Same(a)
  OBVIOUS
<1>1. CASE act' = act
  BY <1>1 DEF Same
<1>2. CASE EnforcerLook
  <2>1. To(Enforcer, "stop") /\ Enforcer \in Actors /\ "stop" \in Pc
    BY <1>2 DEF EnforcerLook, To, Actors, Pc
  <2> QED
    BY <1>2, <2>1, ToDoes DEF Same
<1>3. CASE Restart
  BY <1>3 DEF Restart
<1>4. ASSUME NEW b \in Actors, Moves(b)
      PROVE  Same(a)
  <2>1. b # a
    BY <1>4
  <2>2. CASE \E own : act' = [act EXCEPT ![b] = own]
    BY <2>1, <2>2 DEF Same, ActOK
  <2>3. CASE \E own : Overtaking(b, own)
    BY <2>1, <2>3, OvertakingDoes DEF Same
  <2>4. ASSUME act' # act
        PROVE  (\E own : act' = [act EXCEPT ![b] = own]) \/ (\E own : Overtaking(b, own))
    BY <1>4, <2>4
       DEF Moves, CreateStep, StopStep, DestroyStep, ReadStep, CreateLook, CreatePersist,
           CreateContainer, ReplaceStale, StartContainer, CreateDone, CreateFailed, Track,
           StopLook, Terminate, TerminateReturns, Poll, RecordStopped, Forget,
           DestroyLook, Cleanup, MarkDestroyed, GetLook, Reflect, SpawnRaises, StopRaises,
           LookupRaises, To, Stop
  <2> QED
    BY <1>1, <2>2, <2>3, <2>4
<1> QED
  BY <1>1, <1>2, <1>3, <1>4 DEF Next, Moves, Age, ContainerExits, vars

Types == StoreOK /\ ContOK /\ ActOK

LEMMA TypesKept ==
  ASSUME Types, [Next]_vars
  PROVE  Types'
  BY ObjsGrow, ActKept, ContKept DEF Types

\* A container that comes to run was started by a create, which marks everybody
\* else at work, or by a call nobody heard of again.
LEMMA Revived ==
  ASSUME Types, [Next]_vars, ~Alive, Alive'
  PROVE  \/ "unanswered" \in upset'
         \/ \E b \in Actors :
              /\ StartContainer(b) /\ Startable(b)
              /\ act[b].pc = "start" /\ act'[b].pc = "running"
              /\ \A c \in Actors : c # b /\ act[c].pc # "idle" => act'[c].stale
<1>1. cont' # cont /\ cont'.state \in {"running", "terminating"}
  BY DEF Alive
<1>2. ASSUME NEW a \in Actors, StartContainer(a)
      PROVE  /\ Startable(a) /\ act[a].pc = "start" /\ act'[a].pc = "running"
             /\ \A c \in Actors : c # a /\ act[c].pc # "idle" => act'[c].stale
  <2>1. Startable(a) /\ Overtaking(a, [act[a] EXCEPT !.pc = "running"])
    BY <1>1, <1>2 DEF StartContainer
  <2>2. act[a] \in ActType(Len(objs))
    BY DEF Types, ActOK
  <2>3. act'[a].pc = "running"
    BY <2>1, <2>2, OvertakingDoes DEF Types, ActType
  <2> QED
    BY <1>2, <2>1, <2>3, OvertakingDoes DEF Types, StartContainer
<1>3. ASSUME NEW a \in Actors, SpawnRaises(a)
      PROVE  "unanswered" \in upset'
  BY <1>3 DEF SpawnRaises, DockerFails
<1>4. ASSUME NEW a \in Actors, StopRaises(a)
      PROVE  FALSE
  BY <1>1, <1>4, EffectDoes DEF StopRaises, Types, Alive, Effect
<1>5. ASSUME NEW a \in Actors,
             CreateContainer(a) \/ ReplaceStale(a) \/ Terminate(a) \/ Poll(a) \/ Cleanup(a)
      PROVE  FALSE
  BY <1>1, <1>5 DEF CreateContainer, ReplaceStale, Terminate, Poll, Cleanup, Types, ContOK
<1>6. ~ContainerExits
  BY <1>1 DEF ContainerExits, Types, ContOK
<1> QED
  BY <1>1, <1>2, <1>3, <1>4, <1>5, <1>6
     DEF Next, CreateStep, StopStep, DestroyStep, ReadStep, CreateLook, CreatePersist,
         CreateDone, CreateFailed, Track, StopLook, TerminateReturns, RecordStopped,
         Forget, DestroyLook, MarkDestroyed, GetLook, Reflect, LookupRaises,
         EnforcerLook, Age, Restart, vars

\* A verdict is the record, and one that may be of the wrong container is marked.
LEMMA WriteDoes ==
  ASSUME Types, NEW a \in Actors, NEW state \in State, Write(a, state), act[a].obj # Unknown
  PROVE  /\ Known' /\ StateOf' = state
         /\ state \in Gone => \/ "clobbered" \in upset'
                              \/ ~act[a].stale /\ \A b \in Actors \ {a} : ~Starting(b)
<1>1. act[a].obj \in 0..Len(objs)
  BY DEF Types, ActOK, ActType
<1>2. objs'[act[a].obj].state = state /\ store' = act[a].obj
  BY <1>1, StateSet DEF Types, Write, Unknown
<1>3. Known' /\ StateOf' = state
  BY <1>2 DEF Known, StateOf
<1>4. state \in Gone => \/ "clobbered" \in upset'
                        \/ ~act[a].stale /\ \A b \in Actors \ {a} : ~Starting(b)
  BY DEF Write
<1> QED
  BY <1>3, <1>4

-----------------------------------------------------------------------------
(* Where a thread that moves is afterwards. *)

Goes(a, pc) ==
  /\ act'[a].pc = pc /\ act'[a].op = act[a].op /\ act'[a].obj = act[a].obj
  /\ act'[a].seen = act[a].seen /\ act'[a].saw = act[a].saw /\ act'[a].stale = act[a].stale

LEMMA ToGoes ==
  ASSUME Types, NEW a \in Actors, NEW pc \in Pc, To(a, pc)
  PROVE  Goes(a, pc)
  BY ToDoes DEF Types, Goes

Looks(a, op, pc) ==
  /\ act'[a].pc = pc /\ act'[a].op = op /\ act'[a].obj = store /\ act'[a].seen = StateOf
  /\ act'[a].saw = (IF Alive THEN cont.gen ELSE 0) /\ ~act'[a].stale

LEMMA LookedLooks ==
  ASSUME Types, NEW a \in Actors, NEW op, NEW pc, act' = [act EXCEPT ![a] = Looked(op, pc)]
  PROVE  Looks(a, op, pc)
<1>1. act'[a] = Looked(op, pc)
  BY DEF Types, ActOK
<1> QED
  BY <1>1 DEF Looked, Looks

LEMMA CreateMoves ==
  ASSUME Types, NEW a \in Actors
  PROVE  /\ CreateLook(a) =>
              /\ UNCHANGED <<cont, store, objs, upset>>
              /\ \/ Looks(a, "create", "track")
                 \/ Looks(a, "create", "reflect") /\ Known /\ ~Alive
                 \/ Looks(a, "create", "persist") /\ StateOf \notin {"starting", "running"}
         /\ CreatePersist(a) =>
              /\ act[a].pc = "persist" /\ act'[a].pc = "create"
              /\ act'[a].op = act[a].op /\ act'[a].seen = act[a].seen
              /\ act'[a].saw = act[a].saw /\ act'[a].stale = act[a].stale
              /\ act'[a].obj # Unknown /\ Known' /\ StateOf' = "starting" /\ cont' = cont
              /\ upset' = upset
         /\ CreateContainer(a) =>
              /\ act[a].pc \in {"create", "recreate"} /\ UNCHANGED <<store, objs, upset>>
              /\ \/ ~Exists /\ cont' = [gen |-> cont.gen + 1, state |-> "created"]
                    /\ act'[a].pc = "start" /\ act'[a].op = act[a].op /\ act'[a].obj = act[a].obj
                    /\ act'[a].saw = cont.gen + 1 /\ act'[a].stale = act[a].stale
                 \/ act[a].pc = "create" /\ Goes(a, "replace") /\ cont' = cont
                 \/ act[a].pc = "recreate" /\ Goes(a, "failed") /\ cont' = cont
         /\ ReplaceStale(a) =>
              /\ act[a].pc = "replace" /\ Goes(a, "recreate") /\ UNCHANGED <<store, objs, upset>>
              /\ cont' = [cont EXCEPT !.state = "none"]
         /\ StartContainer(a) =>
              /\ act[a].pc = "start" /\ UNCHANGED <<store, objs, upset>>
              /\ \/ /\ Startable(a) /\ cont' = [cont EXCEPT !.state = "running"]
                    /\ act'[a].pc = "running" /\ act'[a].op = act[a].op
                    /\ act'[a].obj = act[a].obj /\ act'[a].saw = act[a].saw
                 \/ Goes(a, "failed") /\ cont' = cont
         /\ CreateDone(a) =>
              /\ act[a].pc = "running" /\ Write(a, "running") /\ cont' = cont
              /\ act'[a].pc = "track" /\ act'[a].op = act[a].op /\ act'[a].saw = act[a].saw
         /\ CreateFailed(a) =>
              /\ act[a].pc = "failed" /\ Write(a, "stopped") /\ cont' = cont
              /\ Goes(a, "track")
         /\ Track(a) => act'[a] = Idle /\ UNCHANGED <<cont, store, objs, upset>>
<1> USE DEF registry
<1>0. act[a] \in ActType(Len(objs)) /\ Len(objs) \in Nat /\ cont.gen \in Nat
  BY DEF Types, ActOK, StoreOK, ContOK
<1>1. ASSUME CreateLook(a)
      PROVE  /\ UNCHANGED <<cont, store, objs, upset>>
             /\ \/ Looks(a, "create", "track")
                \/ Looks(a, "create", "reflect") /\ Known /\ ~Alive
                \/ Looks(a, "create", "persist") /\ StateOf \notin {"starting", "running"}
  <2>1. CASE Touched
    BY <1>1, <2>1, LookedLooks DEF CreateLook
  <2>2. CASE ~Touched /\ StateOf = "running"
    BY <1>1, <2>2, LookedLooks DEF CreateLook, Touched, HasExit, Alive, StateOf
  <2>3. CASE ~Touched /\ StateOf # "running"
    BY <1>1, <2>3, LookedLooks DEF CreateLook, Touched
  <2> QED
    BY <1>1, <2>1, <2>2, <2>3 DEF CreateLook
<1>2. ASSUME CreatePersist(a)
      PROVE  /\ act[a].pc = "persist" /\ act'[a].pc = "create"
             /\ act'[a].op = act[a].op /\ act'[a].seen = act[a].seen
             /\ act'[a].saw = act[a].saw /\ act'[a].stale = act[a].stale
             /\ act'[a].obj # Unknown /\ Known' /\ StateOf' = "starting" /\ cont' = cont
             /\ upset' = upset
  <2>1. act'[a] = [act[a] EXCEPT !.pc = "create", !.obj = Len(objs) + 1]
    BY <1>2, OvertakingDoes DEF CreatePersist, Types
  <2>2. /\ act'[a].pc = "create" /\ act'[a].obj = Len(objs) + 1
        /\ act'[a].op = act[a].op /\ act'[a].seen = act[a].seen
        /\ act'[a].saw = act[a].saw /\ act'[a].stale = act[a].stale
    BY <1>0, <2>1 DEF ActType
  <2>3. store' = Len(objs) + 1 /\ objs'[Len(objs) + 1] = Status("starting")
    BY <1>2 DEF CreatePersist, Types, StoreOK
  <2>4. Known' /\ StateOf' = "starting"
    BY <1>0, <2>3 DEF Known, StateOf, Unknown, Status
  <2> QED
    BY <1>0, <1>2, <2>2, <2>4 DEF CreatePersist, Unknown
<1>3. ASSUME CreateContainer(a)
      PROVE  /\ act[a].pc \in {"create", "recreate"} /\ UNCHANGED <<store, objs, upset>>
             /\ \/ ~Exists /\ cont' = [gen |-> cont.gen + 1, state |-> "created"]
                   /\ act'[a].pc = "start" /\ act'[a].op = act[a].op /\ act'[a].obj = act[a].obj
                   /\ act'[a].saw = cont.gen + 1 /\ act'[a].stale = act[a].stale
                \/ act[a].pc = "create" /\ Goes(a, "replace") /\ cont' = cont
                \/ act[a].pc = "recreate" /\ Goes(a, "failed") /\ cont' = cont
  <2>1. CASE ~Exists
    <3>1. act'[a] = [act[a] EXCEPT !.pc = "start", !.saw = cont.gen + 1]
      BY <1>3, <2>1 DEF CreateContainer, Types, ActOK
    <3> QED
      BY <1>0, <1>3, <2>1, <3>1 DEF CreateContainer, ActType
  <2>2. CASE Exists /\ act[a].pc = "create"
    <3>1. "replace" \in Pc /\ To(a, "replace")
      BY <1>3, <2>2 DEF CreateContainer, Pc, Spawning
    <3> QED
      BY <1>3, <2>2, <3>1, ToGoes DEF CreateContainer
  <2>3. CASE Exists /\ act[a].pc = "recreate"
    <3>1. "failed" \in Pc /\ To(a, "failed")
      BY <1>3, <2>3 DEF CreateContainer, Pc, Spawning
    <3> QED
      BY <1>3, <2>3, <3>1, ToGoes DEF CreateContainer
  <2> QED
    BY <1>3, <2>1, <2>2, <2>3 DEF CreateContainer
<1>4. ASSUME ReplaceStale(a)
      PROVE  /\ act[a].pc = "replace" /\ Goes(a, "recreate") /\ UNCHANGED <<store, objs, upset>>
             /\ cont' = [cont EXCEPT !.state = "none"]
  BY <1>4, ToGoes DEF ReplaceStale, Pc, Spawning
<1>5. ASSUME StartContainer(a)
      PROVE  /\ act[a].pc = "start" /\ UNCHANGED <<store, objs, upset>>
             /\ \/ /\ Startable(a) /\ cont' = [cont EXCEPT !.state = "running"]
                   /\ act'[a].pc = "running" /\ act'[a].op = act[a].op
                   /\ act'[a].obj = act[a].obj /\ act'[a].saw = act[a].saw
                \/ Goes(a, "failed") /\ cont' = cont
  <2>1. CASE Startable(a)
    <3>1. act'[a] = [act[a] EXCEPT !.pc = "running"]
      BY <1>5, <2>1, OvertakingDoes DEF StartContainer, Types
    <3> QED
      BY <1>0, <1>5, <2>1, <3>1 DEF StartContainer, ActType
  <2>2. CASE ~Startable(a)
    <3>1. "failed" \in Pc /\ To(a, "failed")
      BY <1>5, <2>2 DEF StartContainer, Pc, Spawning
    <3> QED
      BY <1>5, <2>2, <3>1, ToGoes DEF StartContainer
  <2> QED
    BY <2>1, <2>2
<1>6. ASSUME CreateDone(a)
      PROVE  /\ act[a].pc = "running" /\ Write(a, "running") /\ cont' = cont
             /\ act'[a].pc = "track" /\ act'[a].op = act[a].op /\ act'[a].saw = act[a].saw
  <2>1. act'[a] = [act[a] EXCEPT !.pc = "track"]
    BY <1>6, OvertakingDoes DEF CreateDone, Types
  <2> QED
    BY <1>0, <1>6, <2>1 DEF CreateDone, ActType
<1>7. ASSUME CreateFailed(a)
      PROVE  act[a].pc = "failed" /\ Write(a, "stopped") /\ cont' = cont /\ Goes(a, "track")
  BY <1>7, ToGoes DEF CreateFailed, Pc, Spawning
<1>8. ASSUME Track(a)
      PROVE  act'[a] = Idle /\ UNCHANGED <<cont, store, objs, upset>>
  BY <1>8, StopDoes DEF Track, Types
<1> QED
  BY <1>1, <1>2, <1>3, <1>4, <1>5, <1>6, <1>7, <1>8

LEMMA StopMoves ==
  ASSUME Types, NEW a \in Actors
  PROVE  /\ StopLook(a) =>
              /\ Known /\ UNCHANGED <<cont, store, upset>>
              /\ \/ Looks(a, "stop", "forget") /\ StateOf \in Gone /\ objs' = objs
                 \/ Looks(a, "stop", "terminate") /\ StateOf' = "stopping"
                 \/ Looks(a, "stop", "record") /\ StateOf' = "stopping" /\ ~Exists
         /\ Terminate(a) =>
              /\ act[a].pc = "terminate" /\ UNCHANGED <<store, objs, upset>>
              /\ act'[a].pc \in {"wait", "poll"} /\ act'[a].op = act[a].op
              /\ act'[a].saw = act[a].saw /\ act'[a].obj = act[a].obj
              /\ cont' = IF Alive THEN [cont EXCEPT !.state = "terminating"] ELSE cont
         /\ TerminateReturns(a) =>
              act[a].pc = "wait" /\ Goes(a, "poll") /\ UNCHANGED <<cont, store, objs, upset>>
         /\ Poll(a) =>
              /\ act[a].pc = "poll" /\ Goes(a, "record") /\ UNCHANGED <<store, objs, upset>>
              /\ cont' = IF Alive THEN [cont EXCEPT !.state = "exited"] ELSE cont
         /\ RecordStopped(a) =>
              /\ act[a].pc = "record" /\ Write(a, "stopped") /\ cont' = cont
              /\ Goes(a, "forget")
         /\ Forget(a) => act'[a] = Idle /\ UNCHANGED <<cont, store, objs>>
<1> USE DEF registry
<1>0. act[a] \in ActType(Len(objs)) /\ Len(objs) \in Nat /\ cont.gen \in Nat
  BY DEF Types, ActOK, StoreOK, ContOK
<1>1. ASSUME StopLook(a)
      PROVE  /\ Known /\ UNCHANGED <<cont, store, upset>>
             /\ \/ Looks(a, "stop", "forget") /\ StateOf \in Gone /\ objs' = objs
                \/ Looks(a, "stop", "terminate") /\ StateOf' = "stopping"
                \/ Looks(a, "stop", "record") /\ StateOf' = "stopping" /\ ~Exists
  <2>1. CASE StateOf \in Gone
    BY <1>1, <2>1, LookedLooks DEF StopLook
  <2>2. CASE StateOf \notin Gone
    <3>1. objs' = [objs EXCEPT ![store].state = "stopping"] /\ store' = store /\ Known
      BY <1>1, <2>2 DEF StopLook
    <3>2. objs'[store].state = "stopping"
      BY <3>1, StateSet DEF Types, StoreOK, Known, Unknown, State
    <3>3. StateOf' = "stopping"
      BY <3>1, <3>2 DEF StateOf, Known
    <3>4. CASE HandleFor
      BY <1>1, <2>2, <3>3, <3>4, LookedLooks DEF StopLook
    <3>5. CASE ~HandleFor
      BY <1>1, <2>2, <3>3, <3>5, LookedLooks DEF StopLook, HandleFor
    <3> QED
      BY <3>4, <3>5
  <2> QED
    BY <2>1, <2>2
<1>2. ASSUME Terminate(a)
      PROVE  /\ act[a].pc = "terminate" /\ UNCHANGED <<store, objs, upset>>
             /\ act'[a].pc \in {"wait", "poll"} /\ act'[a].op = act[a].op
             /\ act'[a].saw = act[a].saw /\ act'[a].obj = act[a].obj
             /\ cont' = IF Alive THEN [cont EXCEPT !.state = "terminating"] ELSE cont
  <2>1. PICK pc \in {"wait", "poll"} : act'[a] = [act[a] EXCEPT !.pc = pc, !.on = cont.gen]
    BY <1>2 DEF Terminate, Types, ActOK
  <2>2. /\ act'[a].pc \in {"wait", "poll"} /\ act'[a].op = act[a].op
        /\ act'[a].saw = act[a].saw /\ act'[a].obj = act[a].obj
    BY <1>0, <2>1 DEF ActType
  <2> QED
    BY <1>2, <2>2 DEF Terminate
<1>3. ASSUME TerminateReturns(a)
      PROVE  act[a].pc = "wait" /\ Goes(a, "poll") /\ UNCHANGED <<cont, store, objs, upset>>
  BY <1>3, ToGoes DEF TerminateReturns, Pc
<1>4. ASSUME Poll(a)
      PROVE  /\ act[a].pc = "poll" /\ Goes(a, "record") /\ UNCHANGED <<store, objs, upset>>
             /\ cont' = IF Alive THEN [cont EXCEPT !.state = "exited"] ELSE cont
  BY <1>4, ToGoes DEF Poll, Pc
<1>5. ASSUME RecordStopped(a)
      PROVE  act[a].pc = "record" /\ Write(a, "stopped") /\ cont' = cont /\ Goes(a, "forget")
  BY <1>5, ToGoes DEF RecordStopped, Pc
<1>6. ASSUME Forget(a)
      PROVE  act'[a] = Idle /\ UNCHANGED <<cont, store, objs>>
  BY <1>6, StopDoes DEF Forget, Types
<1> QED
  BY <1>1, <1>2, <1>3, <1>4, <1>5, <1>6

LEMMA OtherMoves ==
  ASSUME Types, NEW a \in Actors
  PROVE  /\ DestroyLook(a) =>
              /\ Known /\ UNCHANGED <<cont, store, objs, upset>>
              /\ \/ Looks(a, "destroy", "cleanup")
                 \/ Looks(a, "destroy", "mark") /\ ~Exists
         /\ Cleanup(a) =>
              /\ act[a].pc = "cleanup" /\ Goes(a, "mark") /\ UNCHANGED <<store, objs, upset>>
              /\ cont' = [cont EXCEPT !.state = "none"]
         /\ MarkDestroyed(a) =>
              /\ act[a].pc = "mark" /\ Write(a, "destroyed") /\ cont' = cont
              /\ Goes(a, "forget")
         /\ GetLook(a) =>
              /\ Known /\ Looks(a, "get", "reflect") /\ ~Alive
              /\ UNCHANGED <<cont, store, objs, upset>>
         /\ Reflect(a) =>
              /\ act[a].pc = "reflect" /\ Write(a, "stopped") /\ cont' = cont
              /\ \/ act[a].op = "create" /\ Goes(a, "persist")
                 \/ act[a].op # "create" /\ Goes(a, "idle")
         /\ SpawnRaises(a) =>
              /\ act[a].pc \in {"create", "replace", "recreate", "start"} /\ Goes(a, "failed")
              /\ "unanswered" \in upset' /\ cont' \in {cont, Effect(a)}
              /\ UNCHANGED <<store, objs>>
         /\ StopRaises(a) =>
              /\ act[a].pc \in {"terminate", "wait", "poll", "cleanup"}
              /\ act'[a] = Idle /\ cont' \in {cont, Effect(a)} /\ UNCHANGED <<store, objs>>
         /\ LookupRaises(a) =>
              /\ Known /\ "unseen" \in upset' /\ UNCHANGED <<cont, store>>
              /\ \/ Looks(a, "destroy", "mark") /\ objs' = objs
                 \/ Looks(a, "stop", "record") /\ StateOf' = "stopping"
<1> USE DEF registry
<1>1. ASSUME DestroyLook(a)
      PROVE  /\ Known /\ UNCHANGED <<cont, store, objs, upset>>
             /\ \/ Looks(a, "destroy", "cleanup")
                \/ Looks(a, "destroy", "mark") /\ ~Exists
  BY <1>1, LookedLooks DEF DestroyLook, HandleFor
<1>2. ASSUME Cleanup(a)
      PROVE  /\ act[a].pc = "cleanup" /\ Goes(a, "mark") /\ UNCHANGED <<store, objs, upset>>
             /\ cont' = [cont EXCEPT !.state = "none"]
  BY <1>2, ToGoes DEF Cleanup, Pc
<1>3. ASSUME MarkDestroyed(a)
      PROVE  act[a].pc = "mark" /\ Write(a, "destroyed") /\ cont' = cont /\ Goes(a, "forget")
  BY <1>3, ToGoes DEF MarkDestroyed, Pc
<1>4. ASSUME GetLook(a)
      PROVE  /\ Known /\ Looks(a, "get", "reflect") /\ ~Alive
             /\ UNCHANGED <<cont, store, objs, upset>>
  BY <1>4, LookedLooks DEF GetLook, HasExit, Alive, StateOf
<1>5. ASSUME Reflect(a)
      PROVE  /\ act[a].pc = "reflect" /\ Write(a, "stopped") /\ cont' = cont
             /\ \/ act[a].op = "create" /\ Goes(a, "persist")
                \/ act[a].op # "create" /\ Goes(a, "idle")
  BY <1>5, ToGoes DEF Reflect, Pc, Spawning
<1>6. ASSUME SpawnRaises(a)
      PROVE  /\ act[a].pc \in {"create", "replace", "recreate", "start"} /\ Goes(a, "failed")
             /\ "unanswered" \in upset' /\ cont' \in {cont, Effect(a)}
             /\ UNCHANGED <<store, objs>>
  BY <1>6, ToGoes DEF SpawnRaises, DockerFails, Pc, Spawning
<1>7. ASSUME StopRaises(a)
      PROVE  /\ act[a].pc \in {"terminate", "wait", "poll", "cleanup"}
             /\ act'[a] = Idle /\ cont' \in {cont, Effect(a)} /\ UNCHANGED <<store, objs>>
  BY <1>7, StopDoes DEF StopRaises, Types
<1>8. ASSUME LookupRaises(a)
      PROVE  /\ Known /\ "unseen" \in upset' /\ UNCHANGED <<cont, store>>
             /\ \/ Looks(a, "destroy", "mark") /\ objs' = objs
                \/ Looks(a, "stop", "record") /\ StateOf' = "stopping"
  <2>1. Known /\ "unseen" \in upset' /\ UNCHANGED <<cont, store>>
    BY <1>8 DEF LookupRaises, DockerFails
  <2>2. CASE act' = [act EXCEPT ![a] = Looked("destroy", "mark")] /\ objs' = objs
    BY <2>1, <2>2, LookedLooks
  <2>3. CASE /\ act' = [act EXCEPT ![a] = Looked("stop", "record")]
             /\ objs' = [objs EXCEPT ![store].state = "stopping"]
    <3>1. objs'[store].state = "stopping"
      BY <2>1, <2>3, StateSet DEF Types, StoreOK, Known, Unknown, State
    <3>2. StateOf' = "stopping"
      BY <2>1, <3>1 DEF StateOf, Known
    <3> QED
      BY <2>1, <2>3, <3>2, LookedLooks
  <2> QED
    BY <1>8, <2>1, <2>2, <2>3 DEF LookupRaises
<1> QED
  BY <1>1, <1>2, <1>3, <1>4, <1>5, <1>6, <1>7, <1>8

\* What a step does to the container.
LEMMA ContMoves ==
  ASSUME Types, [Next]_vars
  PROVE  \/ cont' = cont
         \/ \E a \in Actors :
              /\ act[a].pc \in {"create", "recreate"} /\ ~Exists
              /\ cont'.gen = cont.gen + 1 /\ cont'.state = "created"
         \/ /\ cont'.gen = cont.gen
            /\ \/ cont'.state = "none"
               \/ Alive /\ cont'.state \in {"terminating", "exited"}
               \/ cont.state = "created" /\ cont'.state = "running"
<1> DEFINE Goal == \/ cont' = cont
                   \/ \E a \in Actors :
                        /\ act[a].pc \in {"create", "recreate"} /\ ~Exists
                        /\ cont'.gen = cont.gen + 1 /\ cont'.state = "created"
                   \/ /\ cont'.gen = cont.gen
                      /\ \/ cont'.state = "none"
                         \/ Alive /\ cont'.state \in {"terminating", "exited"}
                         \/ cont.state = "created" /\ cont'.state = "running"
<1>0. cont \in [gen : Nat, state : {"none", "created", "running", "terminating", "exited"}]
  BY DEF Types, ContOK
<1>1. ASSUME NEW a \in Actors, CreateStep(a) PROVE Goal
  BY <1>0, <1>1, CreateMoves DEF CreateStep, Startable
<1>2. ASSUME NEW a \in Actors, StopStep(a) PROVE Goal
  BY <1>0, <1>2, StopMoves DEF StopStep
<1>3. ASSUME NEW a \in Actors, DestroyStep(a) \/ ReadStep(a) \/ LookupRaises(a) PROVE Goal
  BY <1>0, <1>3, OtherMoves DEF DestroyStep, ReadStep
<1>4. ASSUME NEW a \in Actors, SpawnRaises(a) \/ StopRaises(a) PROVE Goal
  <2>1. cont' \in {cont, Effect(a)}
    BY <1>4, OtherMoves
  <2>2. CASE act[a].pc \in {"create", "recreate"} /\ ~Exists
    BY <2>1, <2>2 DEF Effect
  <2>3. CASE act[a].pc \in {"replace", "cleanup"}
    BY <1>0, <2>1, <2>3 DEF Effect
  <2>4. CASE act[a].pc = "start" /\ Startable(a)
    BY <1>0, <2>1, <2>4 DEF Effect, Startable
  <2>5. CASE act[a].pc \in {"terminate", "wait"} /\ Alive
    BY <1>0, <2>1, <2>5 DEF Effect
  <2>6. CASE act[a].pc = "poll" /\ Alive
    BY <1>0, <2>1, <2>6 DEF Effect
  <2>7. CASE Effect(a) = cont
    BY <2>1, <2>7
  <2> QED
    BY <2>2, <2>3, <2>4, <2>5, <2>6, <2>7 DEF Effect
<1>5. CASE EnforcerLook \/ Age \/ ContainerExits \/ Restart \/ UNCHANGED vars
  BY <1>0, <1>5 DEF EnforcerLook, Age, ContainerExits, Restart, vars
<1> QED
  BY <1>1, <1>2, <1>3, <1>4, <1>5 DEF Next

-----------------------------------------------------------------------------
(* The inductive invariant.  Of each thread: *)

Doubt == {"unanswered", "unseen"}

\* Who is going to write a verdict has a status, and there is a record.
Ending == {"reflect", "terminate", "wait", "poll", "record", "cleanup", "mark"}
Held(a) ==
  /\ act[a].pc \in Spawning => act[a].op = "create"
  /\ act[a].pc \in Ending \cup (Spawning \ {"persist"}) => act[a].obj # Unknown /\ Known

\* The generation it saw was there, and was started.
Numbered(a) ==
  /\ act[a].saw <= cont.gen
  /\ act[a].op \in {"stop", "destroy"} /\ act[a].saw = cont.gen => cont.state # "created"

\* Where a verdict of the container's end is due, nothing runs that a create has
\* not started since.
Verdict(a) ==
  /\ act[a].pc \in {"reflect", "record", "mark", "recreate", "start", "failed"}
  /\ ~act[a].stale /\ Alive
  => upset \cap Doubt # {}

\* A create that has not got its container yet.
Looking(a) ==
  /\ act[a].op = "create" /\ act[a].pc \in {"reflect", "persist", "create", "replace"}
  /\ Alive
  => \/ act[a].stale \/ act[a].seen = "stopping"
     \/ upset \cap {"clobbered", "unanswered", "unseen", "lost"} # {}

\* A stop or a destroy that has done its work, or a stop that had none to do.
Excused(a) ==
  \/ "unseen" \in upset
  \/ /\ act[a].op = "stop" /\ act[a].seen \in Gone
     /\ upset \cap {"clobbered", "unanswered"} # {}

Ended(a) ==
  /\ act[a].op \in {"stop", "destroy"} /\ act[a].pc \in {"record", "mark", "forget"}
  /\ Alive /\ cont.gen = act[a].saw
  => Excused(a)

(* Of the record and the container: *)

FirstIsOne   == Exists => cont.gen # 0
Unmarked     == ~Known /\ Exists => "lost" \in upset
GoneStarting == (\E b \in Actors : Starting(b)) /\ StateOf \in Gone => "clobbered" \in upset
GoneIsDead   == StateOf \in Gone /\ Alive =>
                  upset \cap {"clobbered", "unanswered", "unseen"} # {}

AllHeld     == \A a \in Actors : Held(a)
AllNumbered == \A a \in Actors : Numbered(a)
Verdicts    == \A a \in Actors : Verdict(a)
AllLooking  == \A a \in Actors : Looking(a)
AllEnded    == \A a \in Actors : Ended(a)

Inv ==
  /\ Types /\ AllHeld /\ FirstIsOne /\ AllNumbered /\ Verdicts /\ Unmarked
  /\ GoneStarting /\ GoneIsDead /\ AllLooking /\ AllEnded

LEMMA InitInv == Init => Inv
<1> SUFFICES ASSUME Init PROVE Inv
  OBVIOUS
<1>1. Types
  BY InitTypes DEF Types
<1>2. \A a \in Actors : act[a] = Idle
  BY DEF Init
<1>3. cont = [gen |-> 0, state |-> "none"]
  BY DEF Init
<1>4. AllHeld /\ Verdicts /\ AllLooking /\ AllEnded
  BY <1>2 DEF AllHeld, Held, Verdicts, Verdict, AllLooking, Looking, AllEnded, Ended, Idle, Spawning, Ending
<1>5. FirstIsOne /\ Unmarked /\ GoneIsDead /\ AllNumbered
  BY <1>2, <1>3 DEF FirstIsOne, Unmarked, GoneIsDead, AllNumbered, Numbered, Exists, Alive, Idle
<1>6. GoneStarting
  BY <1>2 DEF GoneStarting, Starting, Idle
<1> QED
  BY <1>1, <1>4, <1>5, <1>6 DEF Inv

\* A record goes only with a restart.
LEMMA KnownStays ==
  ASSUME Inv, [Next]_vars, Known
  PROVE  Known' \/ Restart
<1> USE DEF registry
<1>1. ASSUME NEW a \in Actors, NEW state \in State, Write(a, state),
             act[a].pc \in {"reflect", "record", "mark", "running", "failed"}
      PROVE  Known'
  BY <1>1, WriteDoes DEF Inv, AllHeld, Held, Spawning, Ending
<1>2. ASSUME NEW a \in Actors, CreateStep(a) PROVE Known'
  BY <1>1, <1>2, CreateMoves DEF CreateStep, Inv, Known, State
<1>3. ASSUME NEW a \in Actors, StopStep(a) PROVE Known'
  BY <1>1, <1>3, StopMoves DEF StopStep, Inv, Known, State
<1>4. ASSUME NEW a \in Actors, DestroyStep(a) \/ ReadStep(a) \/ LookupRaises(a)
                               \/ SpawnRaises(a) \/ StopRaises(a)
      PROVE  Known'
  BY <1>1, <1>4, OtherMoves DEF DestroyStep, ReadStep, Inv, Known, State
<1>5. CASE EnforcerLook \/ Age \/ ContainerExits \/ UNCHANGED vars
  BY <1>5 DEF EnforcerLook, Age, ContainerExits, vars, Known
<1> QED
  BY <1>2, <1>3, <1>4, <1>5 DEF Next

LEMMA HeldKept ==
  ASSUME Inv, [Next]_vars
  PROVE  AllHeld'
<1> SUFFICES ASSUME NEW a \in Actors PROVE Held(a)'
  BY DEF AllHeld
<1>0. Types /\ Held(a) /\ (Known => Known' \/ act'[a] = Idle)
  BY KnownStays DEF Inv, AllHeld, Restart
<1> USE DEF Held, Spawning, Ending
<1>1. CASE act'[a] = Idle
  BY <1>1 DEF Idle
<1>2. CASE Same(a)
  BY <1>0, <1>1, <1>2 DEF Same
<1>3. CASE a = Enforcer /\ EnforcerLook
  <2>1. "stop" \in Pc /\ To(a, "stop")
    BY <1>3 DEF EnforcerLook, To, Pc
  <2> QED
    BY <1>0, <2>1, ToGoes DEF Goes
<1>4. CASE CreateLook(a)
  BY <1>0, <1>1, <1>4, CreateMoves, StateOfType DEF Types, Looks, Known
<1>5. CASE CreatePersist(a) \/ CreateContainer(a) \/ ReplaceStale(a)
  BY <1>0, <1>1, <1>5, CreateMoves DEF Goes
<1>6. CASE StartContainer(a) \/ CreateDone(a) \/ CreateFailed(a) \/ Track(a)
  BY <1>0, <1>1, <1>6, CreateMoves DEF Goes
<1>7. CASE StopStep(a)
  BY <1>0, <1>1, <1>7, StopMoves DEF StopStep, Looks, Goes, Known
<1>8. CASE DestroyStep(a) \/ ReadStep(a)
  BY <1>0, <1>1, <1>8, OtherMoves DEF DestroyStep, ReadStep, Looks, Goes, Known
<1>9. CASE SpawnRaises(a) \/ StopRaises(a) \/ LookupRaises(a)
  BY <1>0, <1>1, <1>9, OtherMoves DEF Looks, Goes, Known
<1> QED
  BY <1>1, <1>2, <1>3, <1>4, <1>5, <1>6, <1>7, <1>8, <1>9, Bystander
     DEF Moves, CreateStep, Inv, Types

LEMMA GensKept ==
  ASSUME Inv, [Next]_vars
  PROVE  FirstIsOne' /\ AllNumbered'
<1>0. /\ Types /\ FirstIsOne /\ cont.gen \in Nat
      /\ \/ cont' = cont
         \/ cont'.gen = cont.gen + 1
         \/ cont'.gen = cont.gen /\ cont'.state # "created" /\ (cont'.state # "none" => Exists)
  BY ContMoves DEF Inv, Types, ContOK, Alive, Exists
<1>1. FirstIsOne'
  BY <1>0 DEF FirstIsOne, Exists
<1>2. ASSUME NEW a \in Actors PROVE Numbered(a)'
  <2>0. Numbered(a) /\ Held(a) /\ act[a].saw \in Nat
    BY DEF Inv, AllNumbered, AllHeld, Types, ActOK, ActType
  <2> USE DEF Numbered
  <2>1. ASSUME act'[a].saw = act[a].saw,
               act'[a].op \in {"stop", "destroy"} => act[a].op \in {"stop", "destroy"}
        PROVE  Numbered(a)'
    BY <1>0, <2>0, <2>1
  <2>2. ASSUME NEW op, NEW pc, Looks(a, op, pc), cont' = cont
        PROVE  Numbered(a)'
    <3>1. CASE Alive
      BY <1>0, <2>2, <3>1 DEF Looks, Alive
    <3>2. CASE ~Alive
      BY <1>0, <2>2, <3>2 DEF Looks, FirstIsOne, Exists
    <3> QED
      BY <3>1, <3>2
  <2>3. CASE act'[a] = Idle
    <3>1. cont'.gen >= 0
      BY <1>0
    <3> QED
      BY <2>3, <3>1 DEF Idle
  <2>4. CASE Same(a)
    BY <2>1, <2>4 DEF Same
  <2>5. CASE a = Enforcer /\ EnforcerLook
    <3>1. "stop" \in Pc /\ To(a, "stop")
      BY <2>5 DEF EnforcerLook, To, Pc
    <3> QED
      BY <1>0, <2>1, <3>1, ToGoes DEF Goes
  <2>6. CASE CreateLook(a)
    BY <1>0, <2>2, <2>6, CreateMoves
  <2>7. CASE CreateContainer(a)
    <3>1. act[a].op = "create"
      BY <1>0, <2>0, <2>7, CreateMoves DEF Held, Spawning
    <3>2. CASE act'[a].saw = act[a].saw /\ act'[a].op = act[a].op
      BY <2>1, <3>2
    <3>3. CASE /\ cont'.gen = cont.gen + 1 /\ act'[a].saw = cont.gen + 1
               /\ act'[a].op = act[a].op
      BY <1>0, <3>1, <3>3
    <3> QED
      BY <1>0, <2>7, <3>2, <3>3, CreateMoves DEF Goes
  <2>8. CASE CreatePersist(a) \/ ReplaceStale(a) \/ StartContainer(a)
    BY <1>0, <2>1, <2>8, CreateMoves DEF Goes
  <2>9. CASE CreateDone(a) \/ CreateFailed(a) \/ Track(a)
    BY <1>0, <2>1, <2>3, <2>9, CreateMoves DEF Goes
  <2>10. CASE StopStep(a)
    BY <1>0, <2>1, <2>2, <2>3, <2>10, StopMoves DEF StopStep, Goes
  <2>11. CASE DestroyStep(a) \/ ReadStep(a)
    BY <1>0, <2>1, <2>2, <2>3, <2>11, OtherMoves DEF DestroyStep, ReadStep, Goes
  <2>12. CASE SpawnRaises(a) \/ StopRaises(a) \/ LookupRaises(a)
    BY <1>0, <2>1, <2>2, <2>3, <2>12, OtherMoves DEF Goes
  <2> QED
    BY <2>3, <2>4, <2>5, <2>6, <2>7, <2>8, <2>9, <2>10, <2>11, <2>12, Bystander
       DEF Moves, CreateStep, Inv, Types
<1> QED
  BY <1>1, <1>2 DEF AllNumbered

\* Whoever does not move when a container comes to run has been overtaken.
LEMMA RevivedStale ==
  ASSUME Inv, [Next]_vars, ~Alive, Alive', NEW a \in Actors, Same(a), act[a].pc # "idle"
  PROVE  "unanswered" \in upset' \/ act'[a].stale
<1>1. ASSUME NEW b \in Actors, act[b].pc = "start", act'[b].pc = "running",
             \A c \in Actors : c # b /\ act[c].pc # "idle" => act'[c].stale
      PROVE  act'[a].stale
  BY <1>1 DEF Same
<1> QED
  BY <1>1, Revived DEF Inv

LEMMA VerdictsKept ==
  ASSUME Inv, [Next]_vars
  PROVE  Verdicts'
<1> SUFFICES ASSUME NEW a \in Actors PROVE Verdict(a)'
  BY DEF Verdicts
<1>0. /\ Types /\ Verdict(a) /\ upset \subseteq upset'
      /\ cont \in [gen : Nat, state : {"none", "created", "running", "terminating", "exited"}]
  BY UpsetGrows DEF Inv, Verdicts, Types, ContOK
<1> USE DEF Verdict, Doubt
<1>1. CASE act'[a] = Idle
  BY <1>1 DEF Idle
<1>2. CASE Same(a)
  <2>1. SUFFICES ASSUME act'[a].pc \in {"reflect", "record", "mark", "recreate", "start", "failed"},
                        ~act'[a].stale, Alive'
                 PROVE  upset' \cap {"unanswered", "unseen"} # {}
    OBVIOUS
  <2>2. act[a].pc = act'[a].pc /\ act[a].pc # "idle" /\ ~act[a].stale
    BY <1>2, <2>1 DEF Same
  <2>3. CASE Alive
    BY <1>0, <2>1, <2>2, <2>3
  <2>4. CASE ~Alive
    BY <1>2, <2>1, <2>2, <2>4, RevivedStale
  <2> QED
    BY <2>3, <2>4
<1>3. CASE a = Enforcer /\ EnforcerLook
  <2>1. "stop" \in Pc /\ To(a, "stop")
    BY <1>3 DEF EnforcerLook, To, Pc
  <2> QED
    BY <1>0, <2>1, ToGoes DEF Goes
<1>4. CASE CreateLook(a)
  BY <1>0, <1>4, CreateMoves DEF Looks, Alive
<1>5. CASE CreatePersist(a) \/ ReplaceStale(a)
  BY <1>0, <1>5, CreateMoves DEF Goes, Alive
<1>6. CASE CreateContainer(a)
  <2>1. CASE act'[a].pc = "start" /\ cont' = [gen |-> cont.gen + 1, state |-> "created"]
    BY <2>1 DEF Alive
  <2>2. CASE Goes(a, "replace")
    BY <2>2 DEF Goes
  <2>3. CASE act[a].pc = "recreate" /\ Goes(a, "failed") /\ cont' = cont
    BY <1>0, <2>3 DEF Goes, Alive
  <2> QED
    BY <1>0, <1>6, <2>1, <2>2, <2>3, CreateMoves
<1>7. CASE StartContainer(a)
  <2>1. CASE act'[a].pc = "running"
    BY <2>1
  <2>2. CASE act[a].pc = "start" /\ Goes(a, "failed") /\ cont' = cont
    BY <1>0, <2>2 DEF Goes, Alive
  <2> QED
    BY <1>0, <1>7, <2>1, <2>2, CreateMoves
<1>8. CASE CreateDone(a) \/ CreateFailed(a) \/ Track(a)
  BY <1>0, <1>1, <1>8, CreateMoves DEF Goes
<1>9. CASE StopStep(a)
  <2>1. CASE StopLook(a)
    BY <1>0, <2>1, StopMoves DEF Looks, Alive, Exists
  <2>2. CASE Poll(a)
    BY <1>0, <2>2, StopMoves DEF Goes, Alive
  <2>3. CASE Terminate(a) \/ TerminateReturns(a) \/ RecordStopped(a) \/ Forget(a)
    BY <1>0, <1>1, <2>3, StopMoves DEF Goes
  <2> QED
    BY <1>9, <2>1, <2>2, <2>3 DEF StopStep
<1>10. CASE DestroyStep(a)
  BY <1>0, <1>10, OtherMoves DEF DestroyStep, Looks, Goes, Alive, Exists
<1>11. CASE ReadStep(a)
  BY <1>0, <1>11, OtherMoves DEF ReadStep, Looks, Goes, Alive
<1>12. CASE SpawnRaises(a) \/ StopRaises(a) \/ LookupRaises(a)
  BY <1>0, <1>1, <1>12, OtherMoves DEF Looks
<1> QED
  BY <1>1, <1>2, <1>3, <1>4, <1>5, <1>6, <1>7, <1>8, <1>9, <1>10, <1>11, <1>12, Bystander
     DEF Moves, CreateStep, Inv, Types

LEMMA LookingKept ==
  ASSUME Inv, [Next]_vars
  PROVE  AllLooking'
<1> SUFFICES ASSUME NEW a \in Actors PROVE Looking(a)'
  BY DEF AllLooking
<1>0. Types /\ Looking(a) /\ upset \subseteq upset'
  BY UpsetGrows DEF Inv, AllLooking
<1> USE DEF Looking
<1>1. CASE act'[a] = Idle
  BY <1>1 DEF Idle
<1>2. CASE Same(a)
  <2>1. SUFFICES ASSUME act'[a].op = "create",
                        act'[a].pc \in {"reflect", "persist", "create", "replace"},
                        ~act'[a].stale, act'[a].seen # "stopping", Alive'
                 PROVE  upset' \cap {"clobbered", "unanswered", "unseen", "lost"} # {}
    OBVIOUS
  <2>2. /\ act[a].pc = act'[a].pc /\ act[a].pc # "idle" /\ ~act[a].stale
        /\ act[a].op = "create" /\ act[a].seen # "stopping"
    BY <1>2, <2>1 DEF Same
  <2>3. CASE Alive
    BY <1>0, <2>1, <2>2, <2>3
  <2>4. CASE ~Alive
    BY <1>2, <2>1, <2>2, <2>4, RevivedStale
  <2> QED
    BY <2>3, <2>4
<1>3. CASE a = Enforcer /\ EnforcerLook
  <2>1. "stop" \in Pc /\ To(a, "stop")
    BY <1>3 DEF EnforcerLook, To, Pc
  <2> QED
    BY <1>0, <2>1, ToGoes DEF Goes
<1>4. CASE CreateLook(a)
  <2>1. CASE Looks(a, "create", "track")
    BY <2>1 DEF Looks
  <2>2. CASE Looks(a, "create", "reflect") /\ ~Alive
    BY <1>0, <1>4, <2>2, CreateMoves DEF Alive
  <2>3. CASE Looks(a, "create", "persist") /\ StateOf \notin {"starting", "running"}
    <3>1. UNCHANGED <<cont, store, objs, upset>> /\ act'[a].seen = StateOf
      BY <1>0, <1>4, <2>3, CreateMoves DEF Looks
    <3>2. CASE ~Known
      BY <3>1, <3>2 DEF Inv, Unmarked, Alive, Exists
    <3>3. CASE StateOf \in Gone
      BY <3>1, <3>3 DEF Inv, GoneIsDead, Alive
    <3>4. CASE Known /\ StateOf \notin Gone
      <4>1. StateOf \in State
        <5>1. store \in 1..Len(objs) /\ objs \in Seq(StatusType)
          BY <3>4 DEF Inv, Types, StoreOK, Known, Unknown
        <5>2. objs[store] \in StatusType
          BY <5>1
        <5> QED
          BY <3>4, <5>2 DEF StateOf, StatusType
      <4> QED
        BY <2>3, <3>1, <3>4, <4>1 DEF State, Gone
    <3> QED
      BY <3>2, <3>3, <3>4
  <2> QED
    BY <1>0, <1>4, <2>1, <2>2, <2>3, CreateMoves
<1>5. CASE CreatePersist(a)
  BY <1>0, <1>5, CreateMoves DEF Alive
<1>6. CASE CreateContainer(a)
  <2>1. CASE act'[a].pc \in {"start", "failed"}
    BY <2>1
  <2>2. CASE act[a].pc = "create" /\ Goes(a, "replace") /\ cont' = cont
    BY <1>0, <2>2 DEF Goes, Alive
  <2> QED
    BY <1>0, <1>6, <2>1, <2>2, CreateMoves DEF Goes
<1>7. CASE ReplaceStale(a) \/ StartContainer(a) \/ CreateDone(a) \/ CreateFailed(a) \/ Track(a)
  BY <1>0, <1>1, <1>7, CreateMoves DEF Goes
<1>8. CASE StopStep(a)
  BY <1>0, <1>1, <1>8, StopMoves DEF StopStep, Looks, Goes
<1>9. CASE DestroyStep(a)
  BY <1>0, <1>9, OtherMoves DEF DestroyStep, Looks, Goes
<1>10. CASE ReadStep(a)
  BY <1>0, <1>10, OtherMoves DEF ReadStep, Looks, Goes, Alive
<1>11. CASE SpawnRaises(a) \/ StopRaises(a) \/ LookupRaises(a)
  BY <1>0, <1>1, <1>11, OtherMoves DEF Looks, Goes
<1> QED
  BY <1>1, <1>2, <1>3, <1>4, <1>5, <1>6, <1>7, <1>8, <1>9, <1>10, <1>11, Bystander
     DEF Moves, CreateStep, Inv, Types

LEMMA EndedKept ==
  ASSUME Inv, [Next]_vars
  PROVE  AllEnded'
<1> SUFFICES ASSUME NEW a \in Actors PROVE Ended(a)'
  BY DEF AllEnded
<1>0. /\ Types /\ Ended(a) /\ Numbered(a) /\ upset \subseteq upset'
      /\ act[a].saw \in Nat /\ cont.gen \in Nat
      /\ cont \in [gen : Nat, state : {"none", "created", "running", "terminating", "exited"}]
  BY UpsetGrows DEF Inv, AllEnded, AllNumbered, Types, ContOK, ActOK, ActType
<1> USE DEF Ended
<1>1. CASE act'[a] = Idle
  BY <1>1 DEF Idle
<1>2. CASE Same(a)
  <2>1. SUFFICES ASSUME act'[a].op \in {"stop", "destroy"},
                        act'[a].pc \in {"record", "mark", "forget"},
                        Alive', cont'.gen = act'[a].saw
                 PROVE  Excused(a)'
    OBVIOUS
  <2>2. /\ act[a].op \in {"stop", "destroy"} /\ act[a].pc \in {"record", "mark", "forget"}
        /\ act[a].saw = cont'.gen /\ act'[a].op = act[a].op /\ act'[a].seen = act[a].seen
    BY <1>2, <2>1 DEF Same
  <2>3. cont.gen = act[a].saw
    BY <1>0, <2>2, ContMoves DEF Numbered
  <2>4. cont.state # "created"
    BY <1>0, <2>2, <2>3 DEF Numbered
  <2>5. Alive
    BY <1>0, <2>1, <2>2, <2>3, <2>4, ContMoves DEF Alive
  <2>6. Excused(a)
    BY <1>0, <2>2, <2>3, <2>5
  <2> QED
    BY <1>0, <2>2, <2>6 DEF Excused
<1>3. CASE a = Enforcer /\ EnforcerLook
  <2>1. "stop" \in Pc /\ To(a, "stop")
    BY <1>3 DEF EnforcerLook, To, Pc
  <2> QED
    BY <1>0, <2>1, ToGoes DEF Goes
<1>4. CASE CreateLook(a)
  BY <1>0, <1>4, CreateMoves DEF Looks
<1>5. CASE CreatePersist(a) \/ CreateContainer(a) \/ ReplaceStale(a) \/ StartContainer(a)
  BY <1>0, <1>5, CreateMoves DEF Goes
<1>6. CASE CreateDone(a) \/ CreateFailed(a) \/ Track(a)
  BY <1>0, <1>1, <1>6, CreateMoves DEF Goes
<1>7. CASE StopLook(a)
  <2>1. CASE Looks(a, "stop", "forget") /\ StateOf \in Gone /\ UNCHANGED <<cont, upset>>
    <3>1. Alive => upset' \cap {"clobbered", "unanswered", "unseen"} # {}
      BY <2>1 DEF Inv, GoneIsDead
    <3>2. act'[a].op = "stop" /\ act'[a].seen \in Gone /\ Alive' = Alive
      BY <2>1 DEF Looks, Alive
    <3> QED
      BY <3>1, <3>2 DEF Excused
  <2>2. CASE Looks(a, "stop", "terminate")
    BY <2>2 DEF Looks
  <2>3. CASE Looks(a, "stop", "record") /\ ~Exists /\ UNCHANGED cont
    BY <2>3 DEF Looks, Alive, Exists
  <2> QED
    BY <1>0, <1>7, <2>1, <2>2, <2>3, StopMoves
<1>8. CASE Poll(a)
  BY <1>0, <1>8, StopMoves DEF Goes, Alive
<1>9. CASE Terminate(a) \/ TerminateReturns(a) \/ Forget(a)
  BY <1>0, <1>1, <1>9, StopMoves DEF Goes
<1>10. CASE RecordStopped(a)
  BY <1>0, <1>10, StopMoves DEF Goes, Alive, Excused
<1>11. CASE DestroyStep(a)
  <2>1. CASE DestroyLook(a)
    BY <1>0, <2>1, OtherMoves DEF Looks, Alive, Exists
  <2>2. CASE Cleanup(a)
    BY <1>0, <2>2, OtherMoves DEF Goes, Alive
  <2>3. CASE MarkDestroyed(a)
    BY <1>0, <2>3, OtherMoves DEF Goes, Alive, Excused
  <2> QED
    BY <1>11, <2>1, <2>2, <2>3 DEF DestroyStep
<1>12. CASE ReadStep(a)
  BY <1>0, <1>12, OtherMoves DEF ReadStep, Looks, Goes
<1>13. CASE SpawnRaises(a) \/ StopRaises(a) \/ LookupRaises(a)
  BY <1>0, <1>1, <1>13, OtherMoves DEF Looks, Goes, Excused
<1> QED
  BY <1>1, <1>2, <1>3, <1>4, <1>5, <1>6, <1>7, <1>8, <1>9, <1>10, <1>11, <1>12, <1>13, Bystander
     DEF Moves, CreateStep, StopStep, Inv, Types

LEMMA UnmarkedKept ==
  ASSUME Inv, [Next]_vars
  PROVE  Unmarked'
<1> SUFFICES ASSUME ~Known', Exists' PROVE "lost" \in upset'
  BY DEF Unmarked
<1>1. CASE Restart
  BY <1>1 DEF Restart, Exists, Known, Unknown, Inv, Types, StoreOK
<1>2. CASE ~Restart
  <2>1. ~Known
    BY <1>2, KnownStays
  <2>2. \A a \in Actors : act[a].pc \notin {"create", "recreate"}
    BY <2>1 DEF Inv, AllHeld, Held, Spawning
  <2>3. Exists
    BY <2>2, ContMoves DEF Inv, Exists, Alive
  <2> QED
    BY <2>1, <2>3, UpsetGrows DEF Inv, Unmarked
<1> QED
  BY <1>1, <1>2

\* How a record comes to say stopped or destroyed.
LEMMA StateMoves ==
  ASSUME Inv, [Next]_vars, StateOf' \in Gone
  PROVE  \/ StateOf' = StateOf
         \/ Restart
         \/ \E a \in Actors, state \in Gone :
              /\ Write(a, state) /\ act[a].pc \in {"reflect", "record", "mark", "failed"}
              /\ act[a].obj # Unknown /\ ~Starting(a)' /\ cont' = cont
<1> DEFINE Told == \E a \in Actors, state \in Gone :
                      /\ Write(a, state) /\ act[a].pc \in {"reflect", "record", "mark", "failed"}
                      /\ act[a].obj # Unknown /\ ~Starting(a)' /\ cont' = cont
<1> SUFFICES StateOf' = StateOf \/ Restart \/ Told
  OBVIOUS
<1>0. Types /\ AllHeld
  BY DEF Inv
<1> USE DEF Gone, registry
<1>1. ASSUME NEW a \in Actors, NEW state \in Gone, Write(a, state),
             act[a].pc \in {"reflect", "record", "mark", "failed"},
             act'[a].pc \notin Spawning \ {"persist"}, cont' = cont
      PROVE  Told
  <2>1. act[a].obj # Unknown
    BY <1>0, <1>1 DEF AllHeld, Held, Spawning, Ending
  <2>2. ~Starting(a)'
    BY <1>1 DEF Starting
  <2> QED
    BY <1>1, <2>1, <2>2
<1>2. ASSUME UNCHANGED <<store, objs>> PROVE StateOf' = StateOf
  BY <1>2 DEF StateOf, Known
<1>3. ASSUME NEW a \in Actors, CreateLook(a) \/ CreateContainer(a) \/ ReplaceStale(a)
                               \/ StartContainer(a) \/ Track(a)
      PROVE  StateOf' = StateOf
  BY <1>0, <1>2, <1>3, CreateMoves
<1>4. ASSUME NEW a \in Actors, CreatePersist(a) PROVE FALSE
  BY <1>0, <1>4, CreateMoves
<1>5. ASSUME NEW a \in Actors, CreateDone(a) PROVE FALSE
  <2>1. act[a].obj # Unknown /\ "running" \in State
    BY <1>0, <1>5, CreateMoves DEF AllHeld, Held, Spawning, State
  <2>2. StateOf' = "running"
    BY <1>0, <1>5, <2>1, CreateMoves, WriteDoes
  <2> QED
    BY <2>2
<1>6. ASSUME NEW a \in Actors, CreateFailed(a) PROVE Told
  BY <1>0, <1>1, <1>6, CreateMoves DEF Goes, Spawning
<1>7. ASSUME NEW a \in Actors, StopStep(a) PROVE StateOf' = StateOf \/ Told
  <2>1. CASE StopLook(a)
    BY <1>0, <1>2, <2>1, StopMoves
  <2>2. CASE RecordStopped(a)
    BY <1>0, <1>1, <2>2, StopMoves DEF Goes, Spawning
  <2>3. CASE Terminate(a) \/ TerminateReturns(a) \/ Poll(a) \/ Forget(a)
    BY <1>0, <1>2, <2>3, StopMoves
  <2> QED
    BY <1>7, <2>1, <2>2, <2>3 DEF StopStep
<1>8. ASSUME NEW a \in Actors, DestroyStep(a) PROVE StateOf' = StateOf \/ Told
  <2>1. CASE MarkDestroyed(a)
    BY <1>0, <1>1, <2>1, OtherMoves DEF Goes, Spawning
  <2>2. CASE DestroyLook(a) \/ Cleanup(a)
    BY <1>0, <1>2, <2>2, OtherMoves
  <2> QED
    BY <1>8, <2>1, <2>2 DEF DestroyStep
<1>9. ASSUME NEW a \in Actors, ReadStep(a) PROVE StateOf' = StateOf \/ Told
  <2>1. CASE Reflect(a)
    BY <1>0, <1>1, <2>1, OtherMoves DEF Goes, Spawning
  <2>2. CASE GetLook(a)
    BY <1>0, <1>2, <2>2, OtherMoves
  <2> QED
    BY <1>9, <2>1, <2>2 DEF ReadStep
<1>10. ASSUME NEW a \in Actors, SpawnRaises(a) \/ StopRaises(a) \/ LookupRaises(a)
       PROVE  StateOf' = StateOf
  BY <1>0, <1>2, <1>10, OtherMoves
<1>11. CASE EnforcerLook \/ Age \/ ContainerExits \/ UNCHANGED vars
  BY <1>2, <1>11 DEF EnforcerLook, Age, ContainerExits, vars
<1> QED
  BY <1>3, <1>4, <1>5, <1>6, <1>7, <1>8, <1>9, <1>10, <1>11 DEF Next, CreateStep

LEMMA GoneStartingKept ==
  ASSUME Inv, [Next]_vars
  PROVE  GoneStarting'
<1> SUFFICES ASSUME NEW b \in Actors, Starting(b)', StateOf' \in Gone
             PROVE  "clobbered" \in upset'
  BY DEF GoneStarting
<1>0. Types /\ upset \subseteq upset' /\ act'[b] # Idle
  BY UpsetGrows DEF Inv, Starting, Idle
<1>1. ~Restart
  BY <1>0 DEF Restart
\* It was starting already: no create gets here without leaving its mark.
<1>2. Starting(b)
  <2>1. CASE Same(b)
    BY <2>1 DEF Same, Starting
  <2>2. CASE b = Enforcer /\ EnforcerLook
    <3>1. "stop" \in Pc /\ To(b, "stop")
      BY <2>2 DEF EnforcerLook, To, Pc
    <3> QED
      BY <1>0, <3>1, ToGoes DEF Goes, Starting, Spawning
  <2>3. CASE CreateLook(b)
    BY <1>0, <2>3, CreateMoves DEF Looks, Starting, Spawning
  <2>4. CASE CreatePersist(b)
    BY <1>0, <2>4, CreateMoves DEF Gone
  <2>5. CASE CreateContainer(b) \/ ReplaceStale(b) \/ StartContainer(b)
    BY <1>0, <2>5, CreateMoves DEF Goes, Starting, Spawning
  <2>6. CASE CreateDone(b) \/ CreateFailed(b) \/ Track(b)
    BY <1>0, <2>6, CreateMoves DEF Goes, Starting, Spawning
  <2>7. CASE StopStep(b)
    BY <1>0, <2>7, StopMoves DEF StopStep, Looks, Goes, Starting, Spawning
  <2>8. CASE DestroyStep(b)
    BY <1>0, <2>8, OtherMoves DEF DestroyStep, Looks, Goes, Starting, Spawning
  <2>9. CASE ReadStep(b)
    BY <1>0, <2>9, OtherMoves DEF ReadStep, Looks, Goes, Starting, Spawning
  <2>10. CASE SpawnRaises(b)
    BY <1>0, <2>10, OtherMoves DEF Goes, Starting, Spawning, Inv, AllHeld, Held
  <2>11. CASE StopRaises(b) \/ LookupRaises(b)
    BY <1>0, <2>11, OtherMoves DEF Looks, Starting, Spawning
  <2> QED
    BY <1>0, <2>1, <2>2, <2>3, <2>4, <2>5, <2>6, <2>7, <2>8, <2>9, <2>10, <2>11, Bystander
       DEF Moves, CreateStep, Types
<1>3. CASE StateOf' = StateOf
  BY <1>0, <1>2, <1>3 DEF Inv, GoneStarting
<1>4. ASSUME NEW a \in Actors, NEW state \in Gone, Write(a, state), act[a].obj # Unknown,
             ~Starting(a)'
      PROVE  "clobbered" \in upset'
  <2>1. a # b /\ state \in State
    BY <1>4 DEF Gone, State
  <2> QED
    BY <1>0, <1>2, <1>4, <2>1, WriteDoes
<1> QED
  BY <1>1, <1>3, <1>4, StateMoves

LEMMA GoneIsDeadKept ==
  ASSUME Inv, [Next]_vars
  PROVE  GoneIsDead'
<1> SUFFICES ASSUME StateOf' \in Gone, Alive'
             PROVE  upset' \cap {"clobbered", "unanswered", "unseen"} # {}
  BY DEF GoneIsDead
<1>0. Types /\ upset \subseteq upset'
  BY UpsetGrows DEF Inv
<1>1. CASE ~Alive
  <2>1. CASE "unanswered" \in upset'
    BY <2>1
  <2>2. ASSUME NEW b \in Actors, StartContainer(b)
        PROVE  upset' \cap {"clobbered", "unanswered", "unseen"} # {}
    <3>1. UNCHANGED <<store, objs>> /\ act[b].pc = "start"
      BY <1>0, <2>2, CreateMoves
    <3>2. StateOf' = StateOf
      BY <3>1 DEF StateOf, Known
    <3>3. Starting(b)
      BY <3>1 DEF Starting, Spawning, Inv, AllHeld, Held
    <3> QED
      BY <1>0, <3>2, <3>3 DEF Inv, GoneStarting
  <2> QED
    BY <1>0, <1>1, <2>1, <2>2, Revived
<1>2. CASE Alive
  <2>1. CASE StateOf' = StateOf
    BY <1>0, <1>2, <2>1 DEF Inv, GoneIsDead
  <2>2. CASE Restart
    <3>1. CASE objs' = Append(objs, Adopted) /\ store' = Len(objs) + 1
      <4>1. objs'[store'] = Adopted /\ store' # Unknown
        BY <1>0, <3>1 DEF Types, StoreOK, Unknown
      <4>2. StateOf' = "running"
        BY <1>2, <4>1 DEF StateOf, Known, Adopted
      <4> QED
        BY <4>2 DEF Gone
    <3>2. CASE store' = Unknown
      BY <3>2 DEF StateOf, Known, Gone
    <3> QED
      BY <2>2, <3>1, <3>2 DEF Restart
  <2>3. ASSUME NEW a \in Actors, NEW state \in Gone, Write(a, state), act[a].obj # Unknown,
               act[a].pc \in {"reflect", "record", "mark", "failed"}
        PROVE  upset' \cap {"clobbered", "unanswered", "unseen"} # {}
    <3>1. "clobbered" \in upset' \/ ~act[a].stale
      BY <1>0, <2>3, WriteDoes DEF Gone, State
    <3>2. ~act[a].stale => upset \cap Doubt # {}
      BY <1>2, <2>3 DEF Inv, Verdicts, Verdict
    <3> QED
      BY <1>0, <3>1, <3>2 DEF Doubt
  <2> QED
    BY <2>1, <2>2, <2>3, StateMoves
<1> QED
  BY <1>1, <1>2

LEMMA StepInv == Inv /\ [Next]_vars => Inv'
  BY TypesKept, HeldKept, GensKept, VerdictsKept, UnmarkedKept, GoneStartingKept,
     GoneIsDeadKept, LookingKept, EndedKept DEF Inv

LEMMA Invariant == Spec => []Inv
  BY InitInv, StepInv, PTL DEF Spec

-----------------------------------------------------------------------------
(* The theorems. *)

\* The variables keep their types, with any number of threads and of events
\* (kernel.py, api.py, enforcement.py).
THEOREM TypesHold == Spec => []TypeOK
<1>1. Inv => TypeOK
  BY TypesMeet DEF Inv, Types
<1> QED
  BY <1>1, Invariant, PTL

\* A record that says stopped or destroyed over a container that runs was written
\* over one a create was bringing up, or Docker left a call unanswered or did not
\* show the container (kernel.py, "destroyed is never a lie").
THEOREM DestroyedIsNoLie == Spec => []GoneIsGone
<1>1. Inv => GoneIsGone
  BY TypesMeet DEF Inv, Types, GoneIsDead, GoneIsGone
<1> QED
  BY <1>1, Invariant, PTL

\* A create that is about to replace a container that runs was overtaken by
\* another, or met a stop, or the record did not tell (kernel.py, create).
THEOREM CreateLeavesTheLiving == Spec => []KeepAliveReplacesNothing
<1>1. Inv => KeepAliveReplacesNothing
  BY DEF Inv, AllHeld, Held, Spawning, AllLooking, Looking, KeepAliveReplacesNothing
<1> QED
  BY <1>1, Invariant, PTL

\* A stop or destroy that is answered has ended what ran when it looked, whatever
\* other threads and the enforcer did meanwhile, unless Docker did not show it the
\* container, or it was a stop and the record said falsely that there was nothing to
\* stop (kernel.py, stop and destroy).
THEOREM StopIsFinal == Spec => []AnsweredMeansDead
<1>1. Inv => AnsweredMeansDead
  BY DEF Inv, AllEnded, Ended, Excused, AnsweredMeansDead
<1> QED
  BY <1>1, Invariant, PTL
=============================================================================
