--------------------------- MODULE RuntimeKernel ---------------------------
(***************************************************************************)
(* The runtime service over one workload id: the handlers of the runtime   *)
(* API in their worker threads, the enforcer's thread, the in-memory store *)
(* and the container that Docker keeps under the name of the workload      *)
(* (core/runtime/src/runtime_kernel).  A handler is cut at each of its     *)
(* calls to Docker and at each of its writes of the store.  The workload   *)
(* is one that has a lifetime, the bot of a capture or an agent.           *)
(* Workloads do not meet in production, which sets no owner quota.         *)
(*                                                                         *)
(* The store hands out its record, not a copy: a handler changes the       *)
(* status it looked up, and `_persist` makes that status the record again, *)
(* whatever the record is by then.  `objs` holds the status objects in the *)
(* order of their creation.                                                *)
(***************************************************************************)
EXTENDS Naturals, Sequences

CONSTANTS Threads,    \* how many threads serve requests
          MaxEvents   \* bound: requests, Docker calls that fail, restarts

ASSUME BoundsAssumption == Threads \in Nat /\ MaxEvents \in Nat

VARIABLES
  objs,      \* the status objects: state, and whether its spec has a limit
  store,     \* InMemoryStore: the index of the workload's status, or Unknown
  handle,    \* _handles has an entry for the workload
  tracked,   \* Enforcer._tracked: no entry, a fresh one, one past its limit
  cont,      \* the container under the workload's name, and its generation
  act,       \* what each thread is in the middle of
  upset,     \* history: what went wrong that the code cannot undo
  events     \* how many requests and failures there were

vars == <<objs, store, handle, tracked, cont, act, upset, events>>
registry == <<objs, store>>

Unknown  == 0
Workers  == 1..Threads
Enforcer == 0     \* the enforcer's thread
Actors   == Workers \cup {Enforcer}
State   == {"starting", "running", "stopping", "stopped", "destroyed"}
Gone    == {"stopped", "destroyed"}
Harm    == {"clobbered", "forgotten", "unanswered", "unstopped", "unseen",
            "restarted", "lost"}
Spawning == {"persist", "create", "replace", "recreate", "start", "running",
             "failed"}
Pc == Spawning \cup {"idle", "reflect", "track", "stop", "terminate",
                     "wait", "poll", "record", "forget", "cleanup", "mark"}

Status(state) == [state |-> state, limited |-> TRUE]
\* op: the request.  obj: the status it looked up or made.  seen: its state
\* then.  saw: the generation that ran then, or the one it created.  on: the
\* generation a `docker stop` works on.  stale: a create went on since.
Idle == [op |-> "none", pc |-> "idle", obj |-> Unknown, seen |-> "none",
         saw |-> 0, on |-> 0, stale |-> FALSE]

Init ==
  /\ objs = <<>> /\ store = Unknown /\ handle = FALSE /\ tracked = "no"
  /\ cont = [gen |-> 0, state |-> "none"]
  /\ act = [a \in Actors |-> Idle]
  /\ upset = {} /\ events = 0

Alive   == cont.state \in {"running", "terminating"}
Exists  == cont.state # "none"
\* exit_code: a container that was created and not started has exit code 0; one
\* that is gone has none, like one that runs.
HasExit == cont.state \in {"created", "exited"}
Known   == store # Unknown
StateOf == IF Known THEN objs[store].state ELSE "none"

To(a, pc) == act' = [act EXCEPT ![a].pc = pc]
Stop(a)   == act' = [act EXCEPT ![a] = Idle]
\* A create moves on: whoever else is in the middle of something has looked at
\* the workload too early.
Overtaking(a, own) ==
  act' = [b \in Actors |->
            IF b = a THEN own
            ELSE [act[b] EXCEPT !.stale = act[b].pc # "idle"]]

\* A create is bringing the workload up.
Starting(a) == act[a].op = "create" /\ act[a].pc \in Spawning \ {"persist"}
\* The write of a verdict: the status changes and is the record (again).  One
\* that a create has overtaken, or that meets one, may be of the wrong container.
Write(a, state) ==
  /\ objs' = [objs EXCEPT ![act[a].obj].state = state]
  /\ store' = act[a].obj
  /\ upset' = IF /\ state \in Gone
                 /\ act[a].stale \/ \E b \in Actors \ {a} : Starting(b)
              THEN upset \cup {"clobbered"} ELSE upset

\* A request, a failure or a restart is counted.  A create that keeps alive a
\* workload at its limit, while no other request is served, is not: there may be
\* such again and again.
Happens == events < MaxEvents /\ events' = events + 1

-----------------------------------------------------------------------------
(* Runtime.get and Runtime.create. *)

\* A thread takes up a request; which of the idle ones makes no difference.
Free(a) ==
  /\ a \in Workers /\ act[a].pc = "idle"
  /\ \A b \in Workers : b < a => act[b].pc # "idle"

Serve(a) == Free(a) /\ Happens

Looked(op, pc) ==
  [op |-> op, pc |-> pc, obj |-> store, seen |-> StateOf,
   saw |-> IF Alive THEN cont.gen ELSE 0, on |-> 0, stale |-> FALSE]
Found == handle \/ Exists

\* Mutant of Touched: a workload that is starting is not touched.
TouchedIfRunning == StateOf = "running" /\ ~HasExit

\* The workload is live, or about to be: a create leaves it alone.
Touched == StateOf = "starting" \/ (StateOf = "running" /\ ~HasExit)

Uncounted(a) ==
  /\ Touched /\ tracked = "due"
  /\ \A b \in Workers \ {a} : act[b].pc = "idle"

CreateLook(a) ==
  /\ Free(a) /\ IF Uncounted(a) THEN UNCHANGED events ELSE Happens
  /\ act' = [act EXCEPT ![a] =
               Looked("create", IF Touched THEN "track"
                                ELSE IF StateOf = "running" THEN "reflect"
                                ELSE "persist")]
  /\ handle' = IF StateOf = "running" THEN Found ELSE handle
  /\ UNCHANGED <<registry, tracked, cont, upset>>

\* A GET that finds the workload running, or has nothing to look at, changes
\* nothing.
GetLook(a) ==
  /\ Serve(a) /\ StateOf = "running" /\ HasExit
  /\ act' = [act EXCEPT ![a] = Looked("get", "reflect")]
  /\ handle' = TRUE
  /\ UNCHANGED <<registry, tracked, cont, upset>>

\* The exit that was observed is reflected onto the status.
Reflect(a) ==
  /\ act[a].pc = "reflect"
  /\ Write(a, "stopped")
  /\ To(a, IF act[a].op = "create" THEN "persist" ELSE "idle")
  /\ UNCHANGED <<handle, tracked, cont, events>>

CreatePersist(a) ==
  /\ act[a].pc = "persist"
  /\ objs' = Append(objs, Status("starting"))
  /\ store' = Len(objs) + 1
  /\ Overtaking(a, [act[a] EXCEPT !.pc = "create", !.obj = Len(objs) + 1])
  /\ UNCHANGED <<handle, tracked, cont, upset, events>>

\* DockerBackend.start: the name is taken by one container at a time.
CreateContainer(a) ==
  /\ act[a].pc \in {"create", "recreate"}
  /\ IF ~Exists
     THEN /\ cont' = [gen |-> cont.gen + 1, state |-> "created"]
          /\ act' = [act EXCEPT ![a].pc = "start", ![a].saw = cont.gen + 1]
     ELSE /\ To(a, IF act[a].pc = "create" THEN "replace" ELSE "failed")
          /\ UNCHANGED cont
  /\ UNCHANGED <<registry, handle, tracked, upset, events>>

ReplaceStale(a) ==
  /\ act[a].pc = "replace"
  /\ cont' = [cont EXCEPT !.state = "none"]
  /\ To(a, "recreate")
  /\ UNCHANGED <<registry, handle, tracked, upset, events>>

Startable(a) == cont.gen = act[a].saw /\ cont.state = "created"
StartContainer(a) ==
  /\ act[a].pc = "start"
  /\ IF Startable(a)
     THEN /\ cont' = [cont EXCEPT !.state = "running"]
          /\ Overtaking(a, [act[a] EXCEPT !.pc = "running"])
     ELSE To(a, "failed") /\ UNCHANGED cont
  /\ UNCHANGED <<registry, handle, tracked, upset, events>>

CreateDone(a) ==
  /\ act[a].pc = "running"
  /\ Write(a, "running")
  /\ handle' = TRUE
  /\ Overtaking(a, [act[a] EXCEPT !.pc = "track"])
  /\ UNCHANGED <<tracked, cont, events>>

CreateFailed(a) ==
  /\ act[a].pc = "failed"
  /\ Write(a, "stopped")
  /\ To(a, "track")
  /\ UNCHANGED <<handle, tracked, cont, events>>

\* Mutant of Track: the API does not tell the enforcer.
TrackNothing(a) ==
  /\ act[a].pc = "track" /\ Stop(a)
  /\ UNCHANGED <<registry, tracked, handle, cont, upset, events>>

\* POST /workloads registers with the enforcer whatever create returned.
Track(a) ==
  /\ act[a].pc = "track"
  /\ tracked' = "fresh"
  /\ Stop(a)
  /\ UNCHANGED <<registry, handle, cont, upset, events>>

-----------------------------------------------------------------------------
(* Runtime.stop, for a request and for the enforcer. *)

\* Mutant of HandleFor: a handle that is not in the process is not looked for.
HandleForgotten == handle

\* _handle_for: the process's own handle, or one found on the substrate.
HandleFor == handle \/ Exists

StopLook(a) ==
  /\ \/ Serve(a)
     \/ act[a].pc = "stop" /\ UNCHANGED events
  /\ Known
  /\ IF StateOf \in Gone
     THEN /\ act' = [act EXCEPT ![a] = Looked("stop", "forget")]
          /\ UNCHANGED <<objs, handle>>
     ELSE /\ objs' = [objs EXCEPT ![store].state = "stopping"]
          /\ handle' = HandleFor
          /\ act' = [act EXCEPT ![a] =
                       Looked("stop", IF HandleFor THEN "terminate"
                                      ELSE "record")]
  /\ UNCHANGED <<store, tracked, cont, upset>>

\* `docker stop` returns when the container it was given does not run.
Terminate(a) ==
  /\ act[a].pc = "terminate"
  /\ cont' = IF Alive THEN [cont EXCEPT !.state = "terminating"] ELSE cont
  /\ act' = [act EXCEPT ![a].pc = IF Alive THEN "wait" ELSE "poll",
                        ![a].on = cont.gen]
  /\ UNCHANGED <<registry, handle, tracked, upset, events>>

TerminateReturns(a) ==
  /\ act[a].pc = "wait"
  /\ ~(Alive /\ cont.gen = act[a].on)
  /\ To(a, "poll")
  /\ UNCHANGED <<registry, handle, tracked, cont, upset, events>>

\* Until the container under the name has an exit code; after the grace period
\* whatever runs under it is killed.
Poll(a) ==
  /\ act[a].pc = "poll"
  /\ cont' = IF Alive THEN [cont EXCEPT !.state = "exited"] ELSE cont
  /\ To(a, "record")
  /\ UNCHANGED <<registry, handle, tracked, upset, events>>

RecordStopped(a) ==
  /\ act[a].pc = "record"
  /\ Write(a, "stopped")
  /\ To(a, "forget")
  /\ UNCHANGED <<handle, tracked, cont, events>>

Forget(a) ==
  /\ act[a].pc = "forget"
  /\ tracked' = "no"
  /\ upset' = IF act[a].stale THEN upset \cup {"forgotten"} ELSE upset
  /\ Stop(a)
  /\ UNCHANGED <<registry, handle, cont, events>>

-----------------------------------------------------------------------------
(* Runtime.destroy. *)

DestroyLook(a) ==
  /\ Serve(a) /\ Known
  /\ handle' = HandleFor
  /\ act' = [act EXCEPT ![a] =
               Looked("destroy", IF HandleFor THEN "cleanup" ELSE "mark")]
  /\ UNCHANGED <<registry, tracked, cont, upset>>

Cleanup(a) ==
  /\ act[a].pc = "cleanup"
  /\ cont' = [cont EXCEPT !.state = "none"]
  /\ To(a, "mark")
  /\ UNCHANGED <<registry, handle, tracked, upset, events>>

MarkDestroyed(a) ==
  /\ act[a].pc = "mark"
  /\ Write(a, "destroyed")
  /\ To(a, "forget")
  /\ UNCHANGED <<handle, tracked, cont, events>>

-----------------------------------------------------------------------------
(* Enforcer.sweep. *)

\* The track of the workload comes to its limit.
Age == /\ tracked = "fresh" /\ tracked' = "due"
       /\ UNCHANGED <<registry, handle, cont, act, upset, events>>

Due == tracked = "due" /\ StateOf = "running" /\ objs[store].limited

\* A running workload past its limit is stopped.
EnforcerLook ==
  /\ act[Enforcer].pc = "idle" /\ Due
  /\ act' = [act EXCEPT ![Enforcer].pc = "stop"]
  /\ UNCHANGED <<registry, handle, tracked, cont, upset, events>>

-----------------------------------------------------------------------------
(* The container, Docker and the service fail. *)

\* A bot comes to its end; one that got SIGTERM does, or is killed by Docker.
ContainerExits ==
  /\ Alive /\ cont' = [cont EXCEPT !.state = "exited"]
  /\ UNCHANGED <<registry, handle, tracked, act, upset, events>>

DockerFails(harm) ==
  /\ Happens
  /\ upset' = upset \cup harm

\* What the call would have done, had it been answered.
Effect(a) ==
  CASE act[a].pc \in {"create", "recreate"} /\ ~Exists ->
         [gen |-> cont.gen + 1, state |-> "created"]
    [] act[a].pc \in {"replace", "cleanup"} -> [cont EXCEPT !.state = "none"]
    [] act[a].pc = "start" /\ Startable(a) ->
         [cont EXCEPT !.state = "running"]
    [] act[a].pc \in {"terminate", "wait"} /\ Alive ->
         [cont EXCEPT !.state = "terminating"]
    [] act[a].pc = "poll" /\ Alive -> [cont EXCEPT !.state = "exited"]
    [] OTHER -> cont

\* A call of the spawn raises, with or without its effect: start_failed.
SpawnRaises(a) ==
  /\ act[a].pc \in {"create", "replace", "recreate", "start"}
  /\ DockerFails({"unanswered"})
  /\ cont' \in {cont, Effect(a)}
  /\ To(a, "failed")
  /\ UNCHANGED <<registry, handle, tracked>>

\* A call of a stop or of a destroy raises: the handler answers 500, or the
\* sweep is over, and the status stays what it is.
StopRaises(a) ==
  /\ \/ act[a].pc \in {"terminate", "wait", "poll"} /\ DockerFails({"unstopped"})
     \/ act[a].pc = "cleanup" /\ DockerFails({})
  /\ cont' \in {cont, Effect(a)}
  /\ Stop(a)
  /\ UNCHANGED <<registry, handle, tracked>>

\* `find` raises, which counts as: there is no container.
LookupRaises(a) ==
  /\ Serve(a) /\ Known /\ ~handle /\ Exists
  /\ DockerFails({"unseen"})
  /\ \/ /\ act' = [act EXCEPT ![a] = Looked("destroy", "mark")]
        /\ UNCHANGED objs
     \/ /\ StateOf \notin Gone
        /\ act' = [act EXCEPT ![a] = Looked("stop", "record")]
        /\ objs' = [objs EXCEPT ![store].state = "stopping"]
  /\ UNCHANGED <<store, handle, tracked, cont>>

\* Mutant of Adopted: what runs is taken for stopped.
AdoptedStopped == [state |-> "stopped", limited |-> FALSE]

\* Runtime.adopt: the record of a container found at boot, with a spec of its
\* own, which has no limit.
Adopted == [state |-> IF Alive THEN "running" ELSE "stopped", limited |-> FALSE]

\* The service restarts, and adopts the containers it finds before it serves.
Restart ==
  /\ Happens
  /\ act' = [a \in Actors |-> Idle]
  /\ \/ /\ Exists
        /\ objs' = Append(objs, Adopted) /\ store' = Len(objs) + 1
        /\ handle' = TRUE /\ tracked' = "fresh"
        /\ upset' = upset \cup {"restarted"}
     \/ /\ store' = Unknown /\ handle' = FALSE /\ tracked' = "no"
        /\ upset' = upset \cup (IF Exists THEN {"restarted", "lost"}
                                          ELSE {"restarted"})
        /\ UNCHANGED objs
  /\ UNCHANGED cont

-----------------------------------------------------------------------------

CreateStep(a) ==
  \/ CreateLook(a) \/ CreatePersist(a) \/ CreateContainer(a)
  \/ ReplaceStale(a) \/ StartContainer(a) \/ CreateDone(a) \/ CreateFailed(a)
  \/ Track(a)
StopStep(a) ==
  \/ StopLook(a) \/ Terminate(a) \/ TerminateReturns(a) \/ Poll(a)
  \/ RecordStopped(a) \/ Forget(a)
DestroyStep(a) == DestroyLook(a) \/ Cleanup(a) \/ MarkDestroyed(a)
ReadStep(a)    == GetLook(a) \/ Reflect(a)

Next ==
  \/ \E a \in Actors :
       \/ CreateStep(a) \/ StopStep(a) \/ DestroyStep(a) \/ ReadStep(a)
       \/ SpawnRaises(a) \/ StopRaises(a) \/ LookupRaises(a)
  \/ EnforcerLook \/ Age \/ ContainerExits \/ Restart

Spec == Init /\ [][Next]_vars

\* A thread goes on, Docker ends what it was told to stop, time passes and the
\* enforcer sweeps.  Users need not ask for anything.
Going(a) ==
  act[a].pc # "idle" /\ (CreateStep(a) \/ StopStep(a) \/ DestroyStep(a)
                         \/ ReadStep(a))
Killed == cont.state = "terminating" /\ ContainerExits

Fairness ==
  /\ \A a \in Actors : WF_vars(Going(a))
  /\ WF_vars(Killed) /\ WF_vars(Age) /\ WF_vars(EnforcerLook)

FairSpec == Spec /\ Fairness

-----------------------------------------------------------------------------
(* What should hold. *)

TypeOK ==
  /\ objs \in Seq([state : State, limited : BOOLEAN])
  /\ store \in 0..Len(objs)
  /\ handle \in BOOLEAN /\ tracked \in {"no", "fresh", "due"}
  /\ cont \in [gen : Nat, state : {"none", "created", "running", "terminating",
                                   "exited"}]
  /\ act \in [Actors -> [op : {"none", "create", "get", "stop", "destroy"},
                         pc : Pc, obj : 0..Len(objs),
                         seen : State \cup {"none"}, saw : Nat, on : Nat,
                         stale : BOOLEAN]]
  /\ upset \subseteq Harm
  /\ events \in 0..MaxEvents

\* A record says stopped or destroyed over a container that runs only when a
\* handler wrote what it had found out before or during a create of the same
\* workload, or when Docker left a call unanswered (kernel.py, "destroyed is
\* never a lie").  (The types hold meanwhile.)
GoneIsGone ==
  /\ TypeOK
  /\ StateOf \in Gone /\ Alive =>
       upset \cap {"clobbered", "unanswered", "unseen"} # {}

\* A create replaces a container that runs only when another create of the
\* workload overtook it, when the workload was being stopped, or when its record
\* does not tell (kernel.py, "the copilot-churn defect").
KeepAliveReplacesNothing ==
  \A a \in Actors :
    act[a].pc = "replace" /\ Alive =>
      \/ act[a].stale \/ act[a].seen = "stopping"
      \/ upset \cap {"clobbered", "unanswered", "unseen", "lost"} # {}

\* A stop or a destroy that is answered has ended the container that ran when it
\* looked, whoever else starts, stops or replaces it meanwhile, unless Docker did
\* not show it the container, or it was a stop of a record that was wrong already
\* (see GoneIsGone): that is answered without a look at Docker (kernel.py, the
\* orphaned-live-bot defect).
AnsweredMeansDead ==
  \A a \in Actors :
    /\ act[a].op \in {"stop", "destroy"} /\ act[a].pc = "forget"
    /\ Alive /\ cont.gen = act[a].saw
    => \/ "unseen" \in upset
       \/ /\ act[a].op = "stop" /\ act[a].seen \in Gone
          /\ upset \cap {"clobbered", "unanswered"} # {}

\* A create is about to register the workload anew: its lifetime begins again.
KeptAlive == \E a \in Actors : act[a].pc = "track"

\* Without a restart, a workload that runs is reaped in the end, if no stop of
\* it raises, no request overtakes another, and it is not kept alive again and
\* again (enforcement.py; "regardless of activity" the code does not give).
ReapedInTheEnd == <>[]~KeptAlive => (Alive ~> ~Alive \/ upset # {})

\* What the enforcer tracks is reaped in the end, adopted workloads included
\* (__main__.py: "Adopted workloads are tracked from NOW ... rather than leaving
\* them untracked forever").
TrackedIsReaped ==
  <>[]~KeptAlive =>
    (Alive /\ tracked # "no" ~> ~Alive \/ upset \ {"restarted"} # {})
=============================================================================
