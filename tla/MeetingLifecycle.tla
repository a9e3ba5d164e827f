-------------------------- MODULE MeetingLifecycle --------------------------
(***************************************************************************)
(* One meeting of meeting-api: its durable row, the in-memory records of   *)
(* the replicas that serve it, and everything that races over the two.     *)
(*                                                                         *)
(*   - POST /bots            bot_spawn/service.py request_bot, step by step*)
(*   - DELETE /bots/...      lifecycle/stop_router.py, on a row snapshot   *)
(*   - capture withdrawal    capture/service.py withdraw_capture           *)
(*   - lifecycle callbacks   app.py _apply_lifecycle_event, cut at every   *)
(*                           await, from the bot, the runtime or a sweep   *)
(*   - the reconcile sweeps  lifecycle/reconcile.py                        *)
(*   - the bot               services/bot/src/orchestrator.ts              *)
(*   - the runtime kernel    runtime_kernel/kernel.py, one workload a spawn*)
(*                                                                         *)
(* A spawn attempt names its session (connection_id) and its workload: all *)
(* three are in bijection, so one set Sids stands for them.  The deadlines *)
(* of the sweeps are not clocked: a row may be stale whenever the code     *)
(* could list it.  The bounds of `faults` cap how often each failure may   *)
(* happen; MaxCalls caps the lifecycle calls being served at once,         *)
(* MaxAttempts the POSTs a bot makes for one event (5 in the code), and    *)
(* MaxLoad the calls being served and the faults so far together.          *)
(***************************************************************************)
EXTENDS Naturals, Sequences, FiniteSets, MeetingFSM

CONSTANTS Sids,         \* spawn attempts = sessions = workloads
          NoSid,        \* no session, no workload
          Replicas,     \* meeting-api processes, each with a MeetingStore
          Stops,        \* DELETE and withdrawal requests
          Stages,       \* what the bots of this platform report before the end
          MaxCalls, MaxAttempts,
          MaxRestarts,  \* meeting-api restarts
          MaxForgets,   \* runtime restarts
          MaxDbFaults,  \* failed reads and writes of the meeting row
          MaxRuntimeFaults,  \* failed runtime calls
          MaxWithdrawals,
          MaxFailures,  \* all of these together
          MaxLoad       \* calls being served plus faults that have struck

ASSUME SidsAssumption == NoSid \notin Sids
ASSUME StagesAssumption == Stages \subseteq BotStatus \ Terminal
ASSUME BoundsAssumption ==
  {MaxCalls, MaxAttempts, MaxRestarts, MaxForgets, MaxDbFaults,
   MaxRuntimeFaults, MaxWithdrawals, MaxFailures, MaxLoad} \subseteq Nat

VARIABLES
  row,       \* the durable meeting row
  sessions,  \* its MeetingSession rows, oldest first
  rec,       \* rec[r][s]: the record of session s in replica r's store
  calls,     \* lifecycle calls being served
  wl,        \* workloads: what is running, and what the kernel knows
  cb,        \* cb[s]: a terminal RuntimeEvent of s on its way
  bot,       \* bots: stage, event being reported, POSTs made for it
  spawn,     \* spawn[s]: where the POST /bots that owns s is
  stops,     \* stop requests, with the row snapshot they act on
  sweep,     \* the reconcile sweep, with the listed row it acts on
  zombie,    \* the untracked window of this meeting is open
  faults,    \* failures so far
  announced, \* terminal status_change webhooks per session (0, 1, 2 = more)
  seated     \* history: sessions whose bot was admitted

\* What an action leaves alone is mostly one of these.
durable   == <<row, sessions>>
memory    == <<rec, calls>>
substrate == <<wl, cb, bot>>
requests  == <<spawn, stops>>
reconcile == <<sweep, zombie>>
history   == <<announced, seated>>

vars == <<durable, memory, substrate, requests, reconcile, faults, history>>

-----------------------------------------------------------------------------
(* The shapes of the state. *)

Sid0 == Sids \cup {NoSid}

Row == [status : {"absent"} \cup RowStatus, stop : BOOLEAN,
        withdrawn : BOOLEAN, container : Sid0,
        stage : {NoStage} \cup FailureStage]

Event == [status : BotStatus, stop : BOOLEAN]

CallPc ==
  {"read_status", "rehydrate", "read_stop", "apply", "persist", "settle"}

\* A call being served.  `from` is the bot or workload it is about, `persisted`
\* and `intent` are what it read of the row, `old` is the accepted record, `new`
\* the advanced one, `shown` what update_meeting_status returned: no row, a row,
\* or a row whose capture is withdrawn.  A call works on the record object that
\* it advanced: `held` is its status once another call has replaced the object
\* in the store.  `asked` is history: the stop was on the row when the call came
\* in.  A local that is not read again is reset.
Call == [src : {"bot", "runtime", "sweep", "presumed"}, from : Sid0,
         attempt : Nat, sid : Sids, ev : Event, on : Replicas, pc : CallPc,
         persisted : {NoStatus} \cup RowStatus, intent : BOOLEAN,
         asked : BOOLEAN, old : Record, new : Record,
         shown : {"nothing", "row", "withdrawn"},
         held : {NoStatus} \cup BotStatus]

\* `known` is what the kernel's store has: nothing yet, the workload it
\* created, one adopted after a restart, or nothing any more.
Workload == [alive : BOOLEAN, over : BOOLEAN,
             known : {"none", "tracked", "adopted", "forgotten"}]

Bot == [at : {"off"} \cup BotStatus, out : {NoStatus} \cup BotStatus,
        attempt : Nat, leave : BOOLEAN]

SpawnPc == {"idle", "reopen", "create", "reject", "session", "container",
            "compensate", "race", "kill", "done"}

Stop == [pc : {"idle", "list", "update", "publish", "kill", "done"},
         status : {NoStatus} \cup RowStatus, container : Sid0, last : Sid0]

Sweep == [pc : {"idle", "probe", "teardown", "post", "wait"},
          kind : {"general", "stopping"},
          status : {NoStatus} \cup RowStatus, sid : Sid0, container : Sid0,
          stop : BOOLEAN, presumed : BOOLEAN]

FaultKind == {"restart", "forget", "db", "runtime", "withdraw"}

FaultBound ==
  [restart |-> MaxRestarts, forget |-> MaxForgets, db |-> MaxDbFaults,
   runtime |-> MaxRuntimeFaults, withdraw |-> MaxWithdrawals]

TypeOK ==
  /\ row \in Row
  /\ sessions \in Seq(Sids)
  /\ rec \in [Replicas -> [Sids -> Record]]
  /\ calls \subseteq Call
  /\ wl \in [Sids -> Workload]
  /\ cb \in [Sids -> BOOLEAN]
  /\ bot \in [Sids -> Bot]
  /\ spawn \in [Sids -> SpawnPc]
  /\ stops \in [Stops -> Stop]
  /\ sweep \in Sweep
  /\ zombie \in BOOLEAN
  /\ faults \in [FaultKind -> Nat]
  /\ announced \in [Sids -> 0..2]
  /\ seated \subseteq Sids

IdleSweep == [pc |-> "idle", kind |-> "general", status |-> NoStatus,
              sid |-> NoSid, container |-> NoSid, stop |-> FALSE,
              presumed |-> FALSE]

IdleStop == [pc |-> "idle", status |-> NoStatus, container |-> NoSid,
             last |-> NoSid]
StopDone == [IdleStop EXCEPT !.pc = "done"]

NoBot == [at |-> "off", out |-> NoStatus, attempt |-> 0, leave |-> FALSE]

EmptyStores == [r \in Replicas |-> [s \in Sids |-> NewRecord]]

Init ==
  /\ row = [status |-> "absent", stop |-> FALSE, withdrawn |-> FALSE,
            container |-> NoSid, stage |-> NoStage]
  /\ sessions = <<>>
  /\ rec = EmptyStores
  /\ calls = {}
  /\ wl = [s \in Sids |-> [alive |-> FALSE, known |-> "none", over |-> FALSE]]
  /\ cb = [s \in Sids |-> FALSE]
  /\ bot = [s \in Sids |-> NoBot]
  /\ spawn = [s \in Sids |-> "idle"]
  /\ stops = [d \in Stops |-> IdleStop]
  /\ sweep = IdleSweep
  /\ zombie = FALSE
  /\ faults = [k \in FaultKind |-> 0]
  /\ announced = [s \in Sids |-> 0]
  /\ seated = {}

-----------------------------------------------------------------------------
(* Reads and writes of the durable state. *)

Known(s)    == \E i \in 1..Len(sessions) : sessions[i] = s
LastSession == IF sessions = <<>> THEN NoSid ELSE sessions[Len(sessions)]
NonTerminal == RowStatus \ Terminal

Booting    == {"requested", "joining", "awaiting_admission"}
FindActive == Booting \cup {"active"}       \* what find_active looks for
PreActive  == Booting \cup {"needs_help"}   \* _PRE_ACTIVE_NONTERMINAL

\* get_status_by_session and get_stop_requested_by_session
StatusBySession(s) == IF Known(s) THEN row.status ELSE NoStatus
StopBySession(s)   == Known(s) /\ row.stop

\* update_meeting_status: a session nobody knows writes nothing, and a
\* withdrawn row takes no non-terminal status any more.
Suppressed(status) == row.withdrawn /\ status \notin Terminal

\* Mutant of StatusKept: a withdrawn row takes any status.
StatusAlwaysTaken(status) == status

StatusKept(status) ==
  IF ~Suppressed(status) THEN status
  ELSE IF row.status \in Terminal THEN row.status ELSE "stopping"

UpdateMeetingStatus(s, status, stop, stage) ==
  row' = IF ~Known(s) THEN row
         ELSE [row EXCEPT
                 !.status = StatusKept(status),
                 !.stop   = @ \/ (stop /\ ~Suppressed(status)),
                 !.stage  = IF stage = NoStage \/ Suppressed(status)
                            THEN @ ELSE stage]

Struck == faults.restart + faults.forget + faults.db + faults.runtime

\* Bounds: how many things of one kind, and in all, may go wrong, and whether
\* more calls are served at once where nothing has.
Failures == Struck + faults.withdraw

HasRoom == Cardinality(calls) + Struck < MaxLoad

Fail(kind) ==
  /\ faults[kind] < FaultBound[kind] /\ Failures < MaxFailures
  /\ kind # "withdraw" => HasRoom
  /\ faults' = [faults EXCEPT ![kind] = @ + 1]

(* The workload calls of the runtime kernel. *)

\* GET and DELETE of a workload outside this answer 404.
IsKnown(s) == wl[s].known \in {"tracked", "adopted"}

\* SIGKILL: the bot stops reporting, whatever it was about to say.
Kill(s) == bot' = [bot EXCEPT ![s] = NoBot]

\* Runtime.destroy of a workload the kernel knows; one it re-adopted after a
\* restart has no callbackUrl.
Destroy(s) ==
  /\ wl' = [wl EXCEPT ![s].alive = FALSE, ![s].over = TRUE]
  /\ cb' = [cb EXCEPT ![s] = @ \/ wl[s].known = "tracked"]
  /\ Kill(s)

\* delete_workload, whose error (a 404 included) the caller logs and drops
BestEffortDelete(s) ==
  \/ IsKnown(s) /\ Destroy(s) /\ UNCHANGED faults
  \/ ~IsKnown(s) /\ UNCHANGED <<substrate, faults>>
  \/ Fail("runtime") /\ UNCHANGED substrate

-----------------------------------------------------------------------------
(* POST /bots: request_bot. *)

Settled(s) == spawn[s] \in {"idle", "done"}

\* create_meeting_guarded inserts the row of the first spawn.
SpawnInsert(s) ==
  /\ spawn[s] = "idle" /\ row.status = "absent"
  /\ row' = [row EXCEPT !.status = "requested"]
  /\ spawn' = [spawn EXCEPT ![s] = "create"]
  /\ UNCHANGED <<sessions, substrate, faults>>

\* Mutant of SpawnContinue: the latest row is continued whatever its status.
SpawnContinueAny(s) ==
  /\ spawn[s] = "idle" /\ row.status # "absent"
  /\ spawn' = [spawn EXCEPT ![s] = "reopen"]
  /\ UNCHANGED <<durable, substrate, faults>>

\* continue_meeting: find_latest sees a terminal row ...
SpawnContinue(s) ==
  /\ spawn[s] = "idle" /\ row.status \in Terminal
  /\ spawn' = [spawn EXCEPT ![s] = "reopen"]
  /\ UNCHANGED <<durable, substrate, faults>>

\* Mutant of SpawnReopen: the row keeps the container of the run before.
SpawnReopenKeepsContainer(s) ==
  /\ spawn[s] = "reopen"
  /\ row' = [row EXCEPT !.status = "requested", !.stage = NoStage]
  /\ spawn' = [spawn EXCEPT ![s] = "create"]
  /\ UNCHANGED <<sessions, substrate, faults>>

\* ... and reopen_meeting, in a later transaction, takes it whatever it is now.
SpawnReopen(s) ==
  /\ spawn[s] = "reopen"
  /\ row' = [row EXCEPT !.status = "requested", !.container = NoSid,
                        !.stage = NoStage]
  /\ spawn' = [spawn EXCEPT ![s] = "create"]
  /\ UNCHANGED <<sessions, substrate, faults>>

StartWorkload(s) ==
  /\ wl' = [wl EXCEPT ![s] =
              [alive |-> TRUE, known |-> "tracked", over |-> FALSE]]
  /\ bot' = [bot EXCEPT ![s] =
              [NoBot EXCEPT !.at = "joining", !.out = "joining"]]

SpawnCreate(s) ==
  /\ spawn[s] = "create"
  /\ StartWorkload(s)
  /\ spawn' = [spawn EXCEPT ![s] = "session"]
  /\ UNCHANGED <<durable, cb, faults>>

\* The runtime refuses (429, or any status but 201): mark_spawn_rejected.
SpawnRefused(s) ==
  /\ spawn[s] = "create" /\ Fail("runtime")
  /\ spawn' = [spawn EXCEPT ![s] = "reject"]
  /\ UNCHANGED <<durable, substrate>>

SpawnReject(s) ==
  /\ spawn[s] = "reject"
  /\ row' = [row EXCEPT !.status = "failed", !.stage = "runtime_spawn"]
  /\ spawn' = [spawn EXCEPT ![s] = "done"]
  /\ UNCHANGED <<sessions, substrate, faults>>

\* A transport error of create_workload is neither QuotaExceeded nor
\* SpawnFailed: it leaves request_bot, whether or not the workload started.
SpawnTransportError(s) ==
  /\ spawn[s] = "create" /\ Fail("runtime")
  /\ StartWorkload(s) \/ UNCHANGED <<wl, bot>>
  /\ spawn' = [spawn EXCEPT ![s] = "done"]
  /\ UNCHANGED <<durable, cb>>

SpawnCreateSession(s) ==
  /\ spawn[s] = "session"
  /\ sessions' = Append(sessions, s)
  /\ spawn' = [spawn EXCEPT ![s] = "container"]
  /\ UNCHANGED <<row, substrate, faults>>

SpawnSetContainer(s) ==
  /\ spawn[s] = "container"
  /\ row' = [row EXCEPT !.container = s]
  /\ spawn' = [spawn EXCEPT ![s] = "race"]
  /\ UNCHANGED <<sessions, substrate, faults>>

\* Both writes after the spawn are compensated; a refusal that cannot be
\* recorded is only logged, and a status that cannot be read fails the request.
SpawnDbFault(s) ==
  /\ spawn[s] \in {"reject", "session", "container", "race"} /\ Fail("db")
  /\ spawn' = [spawn EXCEPT ![s] = IF @ \in {"session", "container"}
                                  THEN "compensate" ELSE "done"]
  /\ UNCHANGED <<durable, substrate>>

SpawnTeardown(s) ==
  /\ spawn[s] \in {"compensate", "kill"}
  /\ BestEffortDelete(s)
  /\ spawn' = [spawn EXCEPT ![s] = "done"]
  /\ UNCHANGED durable

\* The stop that raced the spawn, as get_status_by_session shows it.
SpawnRaceCheck(s) ==
  /\ spawn[s] = "race"
  /\ spawn' = [spawn EXCEPT ![s] =
                 IF StatusBySession(s) \in {"stopping", "completed", "failed"}
                 THEN "kill" ELSE "done"]
  /\ UNCHANGED <<durable, substrate, faults>>

-----------------------------------------------------------------------------
(* DELETE /bots: stop_bot, every step after the first on the same snapshot. *)

StopFind(d) ==
  /\ stops[d].pc = "idle" /\ row.status \in FindActive /\ ~row.stop
  /\ stops' = [stops EXCEPT ![d] =
                 [pc |-> "list", status |-> row.status,
                  container |-> row.container, last |-> NoSid]]
  /\ UNCHANGED <<row, substrate, faults>>

StopListSessions(d) ==
  /\ stops[d].pc = "list"
  /\ stops' = [stops EXCEPT ![d].last = LastSession,
                            ![d].pc = IF sessions = <<>> THEN "publish"
                                      ELSE "update"]
  /\ UNCHANGED <<row, substrate, faults>>

StopUpdate(d) ==
  /\ stops[d].pc = "update"
  /\ UpdateMeetingStatus(stops[d].last,
       IF stops[d].status \in Booting THEN stops[d].status ELSE "stopping",
       TRUE, NoStage)
  /\ stops' = [stops EXCEPT ![d].pc = "publish"]
  /\ UNCHANGED <<substrate, faults>>

\* A failed read, write or, in a DELETE, publish fails the request.
StopFault(d) ==
  /\ \/ stops[d].pc \in {"list", "update"}
     \/ stops[d].pc = "publish" /\ stops[d].last # NoSid
  /\ Fail("db")
  /\ stops' = [stops EXCEPT ![d] = StopDone]
  /\ UNCHANGED <<row, substrate>>

\* Redis pub/sub reaches at most the bots subscribed now: those past admission.
StopPublish(d) ==
  /\ stops[d].pc = "publish"
  /\ \E heard \in SUBSET {s \in Sids : wl[s].alive /\ bot[s].at = "active"} :
       bot' = [s \in Sids |-> [bot[s] EXCEPT !.leave = @ \/ s \in heard]]
  /\ stops' = [stops EXCEPT ![d] =
                 IF @.status \in Booting /\ @.container # NoSid
                 THEN [@ EXCEPT !.pc = "kill"] ELSE StopDone]
  /\ UNCHANGED <<row, wl, cb, faults>>

StopKill(d) ==
  /\ stops[d].pc = "kill"
  /\ BestEffortDelete(stops[d].container)
  /\ stops' = [stops EXCEPT ![d] = StopDone]
  /\ UNCHANGED row

\* withdraw_capture: one transaction marks the row, then the same leave and,
\* for a booting bot, the same direct teardown.
Withdraw(d) ==
  /\ stops[d].pc = "idle" /\ row.status # "absent" /\ Fail("withdraw")
  /\ row' = [row EXCEPT !.withdrawn = TRUE, !.stop = TRUE,
               !.status = IF @ \in Terminal THEN @ ELSE "stopping"]
  /\ stops' = [stops EXCEPT ![d] =
       IF row.status \in Terminal THEN StopDone
       ELSE [pc |-> "publish", status |-> row.status,
             container |-> row.container, last |-> NoSid]]
  /\ UNCHANGED substrate

-----------------------------------------------------------------------------
(* _apply_lifecycle_event, cut where it awaits. *)

CanServe == Cardinality(calls) < MaxCalls /\ HasRoom

\* A terminal event, or one for a record without a status, reads the row first;
\* any other goes straight to the record.
Received(src, from, attempt, s, ev, r) ==
  [src |-> src, from |-> from, attempt |-> attempt, sid |-> s, ev |-> ev,
   on |-> r,
   pc |-> IF ev.status \in Terminal \/ rec[r][s].status = NoStatus
          THEN "read_status" ELSE "apply",
   persisted |-> NoStatus, intent |-> FALSE, asked |-> StopBySession(s),
   old |-> NewRecord, new |-> NewRecord, shown |-> "nothing", held |-> NoStatus]

Move(c, d) == calls' = (calls \ {c}) \cup {d}

\* The caller gets its answer.  A bot takes any answer to its first report, and
\* otherwise waits for a 2xx; a sweep goes on to its next row.
Answer(c, ok) ==
  /\ bot' = IF /\ c.src = "bot" /\ bot[c.from].out = c.ev.status
               /\ ok \/ c.ev.status = "joining"
            THEN [bot EXCEPT ![c.from].out = NoStatus, ![c.from].attempt = 0]
            ELSE bot
  /\ IF c.src \in {"sweep", "presumed"}
     THEN /\ sweep' = IdleSweep
          /\ zombie' = (zombie /\ sweep.kind = "stopping")
     ELSE UNCHANGED reconcile

Finish(c, ok) == calls' = calls \ {c} /\ Answer(c, ok)

\* Mutant of Apply: a redelivery is persisted and announced like an advance.
ApplyReplays(c, before) ==
  LET force == c.src # "bot" \/ before.stop \/ c.persisted = "stopping"
      after == ApplyChange(before, c.ev, force)
  IN  /\ rec' = [rec EXCEPT ![c.on][c.sid] = after]
      /\ IF Outcome(before, c.ev, force) # "illegal"
         THEN /\ Move(c, [c EXCEPT !.pc = "persist", !.new = after])
              /\ UNCHANGED <<bot, reconcile>>
         ELSE Finish(c, FALSE)

\* The event meets the record: sink.apply_change, with no await before it.
Apply(c, before) ==
  LET force == c.src # "bot" \/ before.stop \/ c.persisted = "stopping"
      after == ApplyChange(before, c.ev, force)
      out   == Outcome(before, c.ev, force)
  IN  /\ rec' = [rec EXCEPT ![c.on][c.sid] = after]
      /\ IF out = "advanced"
         THEN /\ Move(c, [c EXCEPT !.pc = "persist", !.persisted = NoStatus,
                           !.intent = FALSE, !.new = after,
                           !.old = IF after.status \in Terminal THEN NewRecord
                                   ELSE before])
              /\ UNCHANGED <<bot, reconcile>>
         ELSE Finish(c, out = "no_op")

CallReadStatus(c) ==
  /\ c.pc = "read_status"
  /\ \E seen \in {StatusBySession(c.sid), NoStatus} :
       /\ IF seen = StatusBySession(c.sid) THEN UNCHANGED faults ELSE Fail("db")
       /\ Move(c, [c EXCEPT !.persisted = seen,
                     !.pc = IF rec[c.on][c.sid].status = NoStatus
                            THEN "rehydrate" ELSE "read_stop"])
  /\ UNCHANGED <<row, rec, bot, reconcile, announced>>

CallRehydrate(c) ==
  /\ c.pc = "rehydrate"
  /\ LET seeded == Rehydrate(rec[c.on][c.sid], c.persisted) IN
     IF c.ev.status \in Terminal
     THEN /\ rec' = [rec EXCEPT ![c.on][c.sid] = seeded]
          /\ Move(c, [c EXCEPT !.pc = "read_stop"])
          /\ UNCHANGED <<bot, reconcile>>
     ELSE Apply(c, seeded)
  /\ UNCHANGED <<row, announced, faults>>

CallReadStop(c) ==
  /\ c.pc = "read_stop"
  /\ \E intent \in {StopBySession(c.sid), FALSE} :
       /\ IF intent = StopBySession(c.sid) THEN UNCHANGED faults ELSE Fail("db")
       /\ Move(c, [c EXCEPT !.intent = intent, !.pc = "apply"])
  /\ UNCHANGED <<row, rec, bot, reconcile, announced>>

CallApply(c) ==
  /\ c.pc = "apply"
  /\ LET live == rec[c.on][c.sid]
     IN  Apply(c, [live EXCEPT !.stop = @ \/ c.intent])
  /\ UNCHANGED <<row, announced, faults>>

CallPersist(c) ==
  /\ c.pc = "persist"
  /\ UpdateMeetingStatus(c.sid, c.new.status, c.new.stop, c.new.stage)
  /\ Move(c, [c EXCEPT !.pc = "settle",
                !.shown = IF ~Known(c.sid) THEN "nothing"
                          ELSE IF row.withdrawn THEN "withdrawn" ELSE "row"])
  /\ UNCHANGED <<rec, bot, reconcile, announced, faults>>

\* A failed write is logged and swallowed: the record keeps the advance.
CallPersistFails(c) ==
  /\ c.pc = "persist" /\ Fail("db")
  /\ Move(c, [c EXCEPT !.pc = "settle"])
  /\ UNCHANGED <<row, rec, bot, reconcile, announced>>

\* Mutant of Suppresses: what counts is the advance, not what became of its record.
SuppressesAdvance(c) == c.shown = "withdrawn" /\ c.new.status \notin Terminal

\* A withdrawn row never shows a non-terminal status, so an advance that left
\* the record non-terminal was suppressed and is taken back: the accepted record
\* replaces the live one.  Otherwise the webhook goes out, if there is a row.
Suppresses(c) ==
  LET held == IF c.held = NoStatus THEN rec[c.on][c.sid].status ELSE c.held
  IN  c.shown = "withdrawn" /\ {c.new.status, held} \cap Terminal = {}

\* The calls that keep working on the record object that c replaces.
Detach(c) ==
  {IF /\ d.on = c.on /\ d.sid = c.sid
      /\ d.pc \in {"persist", "settle"} /\ d.held = NoStatus
   THEN [d EXCEPT !.held = rec[c.on][c.sid].status] ELSE d : d \in calls \ {c}}

CallSettle(c) ==
  /\ c.pc = "settle"
  /\ IF Suppresses(c)
     THEN /\ rec' = [rec EXCEPT ![c.on][c.sid] = [c.old EXCEPT !.stop = TRUE]]
          /\ calls' = Detach(c)
          /\ UNCHANGED announced
     ELSE /\ announced' = IF /\ c.shown # "nothing" /\ c.new.status \in Terminal
                             /\ announced[c.sid] < 2
                          THEN [announced EXCEPT ![c.sid] = @ + 1]
                          ELSE announced
          /\ calls' = calls \ {c}
          /\ UNCHANGED rec
  /\ Answer(c, TRUE)
  /\ UNCHANGED <<row, faults>>

CallStep(c) ==
  /\ \/ CallReadStatus(c) \/ CallRehydrate(c) \/ CallReadStop(c)
     \/ CallApply(c) \/ CallPersist(c) \/ CallPersistFails(c) \/ CallSettle(c)
  /\ UNCHANGED <<sessions, wl, cb, requests, seated>>

-----------------------------------------------------------------------------
(* The bot and its reports. *)

\* The next stage is reached once the previous report is done with.
BotReport(s, to) ==
  /\ wl[s].alive /\ bot[s].out = NoStatus
  /\ <<bot[s].at, to>> \in LegalTransitions /\ to \in Stages \cup Terminal
  /\ bot' = [bot EXCEPT ![s].at = to, ![s].out = to, ![s].attempt = 0]
  /\ seated' = IF to = "active" THEN seated \cup {s} ELSE seated
  /\ UNCHANGED <<calls, wl>>

BotPost(s, r) ==
  /\ wl[s].alive /\ bot[s].out # NoStatus /\ bot[s].attempt < MaxAttempts
  /\ CanServe
  /\ calls' = calls \cup
       {Received("bot", s, bot[s].attempt + 1, s,
                 [status |-> bot[s].out, stop |-> FALSE], r)}
  /\ bot' = [bot EXCEPT ![s].attempt = @ + 1]
  /\ UNCHANGED <<wl, seated>>

BotPostLost(s) ==
  /\ wl[s].alive /\ bot[s].out # NoStatus /\ bot[s].attempt < MaxAttempts
  /\ bot' = [bot EXCEPT ![s].attempt = @ + 1]
  /\ UNCHANGED <<calls, wl, seated>>

\* Every POST failed: the sink logs it and the bot goes on.
BotGiveUp(s) ==
  /\ wl[s].alive /\ bot[s].out # NoStatus /\ bot[s].attempt = MaxAttempts
  /\ \A c \in calls : ~(c.src = "bot" /\ c.from = s /\ c.ev.status = bot[s].out)
  /\ bot' = [bot EXCEPT ![s].out = NoStatus, ![s].attempt = 0]
  /\ UNCHANGED <<calls, wl, seated>>

\* The process ends: after its last report, or at any time by a crash.
BotExit(s) ==
  /\ wl[s].alive
  /\ wl' = [wl EXCEPT ![s].alive = FALSE]
  /\ Kill(s)
  /\ UNCHANGED <<calls, seated>>

-----------------------------------------------------------------------------
(* The runtime kernel. *)

\* Somebody GETs the workload: a self-exited one is reflected as stopped.
ObserveExit(s) ==
  /\ wl' = [wl EXCEPT ![s].over = TRUE]
  /\ cb' = [cb EXCEPT ![s] = @ \/ wl[s].known = "tracked"]

KernelReap(s) ==
  /\ IsKnown(s) /\ ~wl[s].alive /\ ~wl[s].over
  /\ ObserveExit(s)
  /\ UNCHANGED <<calls, faults>>

\* A restart empties the kernel's store.  adopt() re-registers what the
\* substrate still lists; the rest, dead or alive, is unknown from now on.
\* Events not delivered yet are lost with the process.
KernelRestart ==
  /\ Fail("forget")
  /\ \E adopted \in SUBSET {s \in Sids : wl[s].known # "none"} :
       wl' = [s \in Sids |->
                [wl[s] EXCEPT !.known = IF s \in adopted THEN "adopted"
                                        ELSE IF @ = "none" THEN @
                                        ELSE "forgotten",
                              !.over  = s \in adopted /\ ~wl[s].alive]]
  /\ cb' = [s \in Sids |-> FALSE]
  /\ UNCHANGED calls

\* Mutant of RuntimeEvent: every run that loses its workload is completed.
RuntimeEventAlwaysCompleted ==
  [status |-> "completed", stop |-> row.status = "stopping"]

\* What synthesize_terminal_for_dead_workload makes of the row's status.
RuntimeEvent ==
  IF row.status \in Booting
  THEN [status |-> "failed", stop |-> row.stop]
  ELSE [status |-> "completed", stop |-> row.status = "stopping"]

\* POST /runtime/callback: synthesize_terminal_for_dead_workload.  The event of
\* a workload no live row points at is acknowledged and dropped.
RuntimeCallback(w, r) ==
  /\ cb[w] /\ CanServe
  /\ cb' = [cb EXCEPT ![w] = FALSE]
  /\ calls' =
       IF row.container = w /\ row.status \in NonTerminal /\ sessions # <<>>
       THEN calls \cup
              {Received("runtime", w, 0, LastSession, RuntimeEvent, r)}
       ELSE calls
  /\ UNCHANGED <<wl, faults>>

\* Each event is POSTed once; an unanswered POST stays queued for good.
RuntimeCallbackLost(w) ==
  /\ cb[w] /\ Fail("runtime")
  /\ cb' = [cb EXCEPT ![w] = FALSE]
  /\ UNCHANGED <<calls, wl>>

-----------------------------------------------------------------------------
(* The stop-reconcile loop: at most one sweep at a time in the deployment,   *)
(* reconcile_stale_nonterminal_sweep or reconcile_stale_stopping_sweep.      *)

\* A row outside `stopping` is listed after active_grace (300 s) without a
\* change, longer than the POST /bots that reopened or created it can take.  One
\* in `stopping` is listed after stop_grace (45 s), longer than the two writes
\* that follow the insertion of a session, but not than the runtime calls.
Stale ==
  /\ row.status \in NonTerminal /\ sessions # <<>>
  /\ \A s \in Sids : IF row.status = "stopping"
                      THEN spawn[s] \notin {"container", "race"}
                      ELSE Settled(s)

\* Mutant of SweepList: the liveness probe gates `stopping` rows as well.
SweepListProbesAll(kind) ==
  /\ sweep.pc = "idle" /\ Stale
  /\ kind = "stopping" => row.status = "stopping"
  /\ sweep' = [pc |-> IF row.container # NoSid THEN "probe" ELSE "teardown",
               kind |-> kind, status |-> row.status, sid |-> LastSession,
               container |-> row.container, stop |-> row.stop,
               presumed |-> FALSE]
  /\ UNCHANGED <<calls, substrate, zombie, faults>>

\* list_stale_nonterminal; only `stopping` rows escape the liveness probe.
SweepList(kind) ==
  /\ sweep.pc = "idle" /\ Stale
  /\ kind = "stopping" => row.status = "stopping"
  /\ sweep' = [pc |-> IF /\ row.status \in PreActive \cup {"active"}
                         /\ row.container # NoSid
                      THEN "probe" ELSE "teardown",
               kind |-> kind, status |-> row.status, sid |-> LastSession,
               container |-> row.container, stop |-> row.stop,
               presumed |-> FALSE]
  /\ UNCHANGED <<calls, substrate, zombie, faults>>

\* A sweep that does not list the row closes its untracked window.
SweepPass ==
  /\ sweep.pc = "idle" /\ zombie /\ ~Stale
  /\ zombie' = FALSE
  /\ UNCHANGED <<calls, substrate, sweep, faults>>

\* Mutant of Untracked: a lost workload is never given up.
UntrackedForever ==
  /\ ~IsKnown(sweep.container)
  /\ sweep' = IdleSweep
  /\ zombie' = (zombie \/ sweep.kind = "general")

\* The kernel does not know the workload (404).  The first sight opens the
\* window, and the row is presumed lost at the sight that finds it elapsed
\* (those before leave everything as it is).
Untracked ==
  /\ ~IsKnown(sweep.container)
  /\ IF zombie /\ sweep.kind = "general"
     THEN /\ sweep' = [sweep EXCEPT !.pc = "post", !.presumed = TRUE]
          /\ UNCHANGED zombie
     ELSE /\ sweep' = IdleSweep
          /\ zombie' = (zombie \/ sweep.kind = "general")

SweepProbe ==
  /\ sweep.pc = "probe"
  /\ LET w == sweep.container IN
     \/ Untracked /\ UNCHANGED <<wl, cb, faults>>
     \/ /\ \/ IsKnown(w) /\ wl[w].alive /\ UNCHANGED faults
           \/ Fail("runtime")
        /\ sweep' = IdleSweep /\ zombie' = FALSE
        /\ UNCHANGED <<wl, cb>>
     \/ /\ IsKnown(w) /\ ~wl[w].alive
        /\ IF wl[w].over THEN UNCHANGED <<wl, cb>> ELSE ObserveExit(w)
        /\ sweep' = [sweep EXCEPT !.pc = "teardown"]
        /\ UNCHANGED <<zombie, faults>>
  /\ UNCHANGED <<calls, bot>>

\* Mutant of SweepTeardown: a 404 counts as a confirmed teardown.
SweepTeardownTrusts404 ==
  /\ sweep.pc = "teardown"
  /\ IF sweep.container # NoSid /\ IsKnown(sweep.container)
     THEN Destroy(sweep.container) ELSE UNCHANGED substrate
  /\ sweep' = [sweep EXCEPT !.pc = "post"]
  /\ UNCHANGED <<calls, zombie, faults>>

\* Mutant of SweepTeardown: a failed teardown counts as a confirmed one.
SweepTeardownTrustsFailure ==
  /\ sweep.pc = "teardown"
  /\ \/ sweep.container = NoSid /\ UNCHANGED <<substrate, faults>>
     \/ sweep.container # NoSid /\ BestEffortDelete(sweep.container)
  /\ sweep' = [sweep EXCEPT !.pc = "post"]
  /\ UNCHANGED <<calls, zombie>>

\* _teardown_verdict: with no workload there is nothing to confirm.
SweepTeardown ==
  /\ sweep.pc = "teardown"
  /\ \/ /\ sweep.container = NoSid
        /\ sweep' = [sweep EXCEPT !.pc = "post"]
        /\ UNCHANGED <<substrate, zombie, faults>>
     \/ /\ sweep.container # NoSid
        /\ \/ /\ IsKnown(sweep.container)
              /\ Destroy(sweep.container)
              /\ sweep' = [sweep EXCEPT !.pc = "post"]
              /\ UNCHANGED <<zombie, faults>>
           \/ Untracked /\ UNCHANGED <<substrate, faults>>
           \/ /\ Fail("runtime")
              /\ sweep' = IdleSweep
              /\ zombie' = (zombie /\ sweep.kind = "stopping")
              /\ UNCHANGED substrate
  /\ UNCHANGED calls

SweepEvent ==
  IF sweep.presumed THEN [status |-> "failed", stop |-> FALSE]
  ELSE IF sweep.kind = "stopping" THEN [status |-> "completed", stop |-> FALSE]
  ELSE [status |-> IF sweep.status \in PreActive THEN "failed" ELSE "completed",
        stop   |-> sweep.stop]

SweepPost(r) ==
  /\ sweep.pc = "post" /\ CanServe
  /\ calls' = calls \cup
       {Received(IF sweep.presumed THEN "presumed" ELSE "sweep",
                 sweep.container, 0, sweep.sid, SweepEvent, r)}
  /\ sweep' = [IdleSweep EXCEPT !.pc = "wait", !.kind = sweep.kind]
  /\ UNCHANGED <<substrate, zombie, faults>>

-----------------------------------------------------------------------------
\* The meeting-api deployment restarts: stores, calls and loops are gone, and
\* every request in progress with them.
Restart ==
  /\ Fail("restart")
  /\ rec' = EmptyStores /\ calls' = {} /\ sweep' = IdleSweep /\ zombie' = FALSE
  /\ spawn' = [s \in Sids |-> IF spawn[s] = "idle" THEN "idle" ELSE "done"]
  /\ stops' = [d \in Stops |-> IF stops[d].pc = "idle" THEN stops[d]
                               ELSE StopDone]
  /\ UNCHANGED <<durable, substrate, history>>

SpawnStep(s) ==
  /\ \/ SpawnInsert(s) \/ SpawnContinue(s) \/ SpawnReopen(s) \/ SpawnCreate(s)
     \/ SpawnRefused(s) \/ SpawnReject(s) \/ SpawnTransportError(s)
     \/ SpawnCreateSession(s) \/ SpawnSetContainer(s) \/ SpawnDbFault(s)
     \/ SpawnTeardown(s) \/ SpawnRaceCheck(s)
  /\ UNCHANGED <<memory, stops, reconcile, history>>

StopStep(d) ==
  /\ \/ StopFind(d) \/ StopListSessions(d) \/ StopUpdate(d) \/ StopFault(d)
     \/ StopPublish(d) \/ StopKill(d) \/ Withdraw(d)
  /\ UNCHANGED <<sessions, memory, spawn, reconcile, history>>

BotStep(s) ==
  /\ \/ \E to \in BotStatus : BotReport(s, to)
     \/ \E r \in Replicas : BotPost(s, r)
     \/ BotPostLost(s) \/ BotGiveUp(s) \/ BotExit(s)
  /\ UNCHANGED <<durable, rec, cb, requests, reconcile, faults, announced>>

KernelStep ==
  /\ \/ \E s \in Sids : \/ KernelReap(s) \/ RuntimeCallbackLost(s)
                        \/ \E r \in Replicas : RuntimeCallback(s, r)
     \/ KernelRestart
  /\ UNCHANGED <<durable, rec, bot, requests, reconcile, history>>

SweepStep ==
  /\ \/ \E kind \in {"general", "stopping"} : SweepList(kind)
     \/ SweepPass \/ SweepProbe \/ SweepTeardown
     \/ \E r \in Replicas : SweepPost(r)
  /\ UNCHANGED <<durable, rec, requests, history>>

Next ==
  \/ \E s \in Sids : SpawnStep(s) \/ BotStep(s)
  \/ \E d \in Stops : StopStep(d)
  \/ \E c \in calls : CallStep(c)
  \/ KernelStep \/ SweepStep \/ Restart

Spec == Init /\ [][Next]_vars

-----------------------------------------------------------------------------
(* Fairness: what the event loop, the sweeps' timer and the kernel's worker  *)
(* owe.  Users, faults and a bot in its meeting owe nothing; a bot outside   *)
(* gives up joining in the end (waitingRoomTimeout), one that hears the      *)
(* leave command goes, and either then reports the end and exits.            *)

SpawnProgress(s) == spawn[s] # "idle" /\ SpawnStep(s)
StopProgress(d)  == stops[d].pc # "idle" /\ StopStep(d)
BotWindsUp(s)    == (bot[s].at # "active" \/ bot[s].leave) /\ BotStep(s)
AnyCallStep      == \E c \in calls : CallStep(c)
AnyCallback      == \E s \in Sids, r \in Replicas : RuntimeCallback(s, r)
                                                    /\ KernelStep
\* Each tick runs the general sweep and then the stopping sweep.
SweepTick(kind)  == SweepList(kind) /\ SweepStep
SweepProgress    == sweep.pc # "idle" /\ SweepStep

Fairness ==
  /\ \A s \in Sids : WF_vars(SpawnProgress(s))
  /\ \A d \in Stops : WF_vars(StopProgress(d))
  /\ \A s \in Sids : WF_vars(BotWindsUp(s))
  /\ WF_vars(AnyCallStep)
  /\ WF_vars(AnyCallback)
  /\ WF_vars(SweepProgress)
  /\ \A kind \in {"general", "stopping"} : SF_vars(SweepTick(kind))

FairSpec == Spec /\ Fairness

-----------------------------------------------------------------------------
(* What should hold. *)

\* However often a terminal event is delivered, retried or raced by the runtime
\* or a sweep, the user's webhook hears of the end of a run at most once (app.py,
\* the `change.no_op` paths).  It takes a meeting-api that keeps its records: the
\* row a restart seeds them from may have been overwritten by a late advance.
AnnouncedOnce == faults.restart = 0 => \A s \in Sids : announced[s] <= 1

\* A sweep ends a meeting on its own evidence only: whatever it was told about
\* the workload may be old by the time the event is applied, but the workload
\* is gone and stays gone (reconcile.py, teardown before complete).  A workload
\* the kernel lost track of is another matter: it is presumed lost in the end.
SweepNeverEndsALiveBot ==
  \A c \in calls : c.src = "sweep" /\ c.from # NoSid => ~wl[c.from].alive

\* A terminal row leaves no live bot behind: each bot is gone, has itself come
\* to its end, is unknown to the kernel, or is still being spawned
\* (reconcile.py, "a terminal meeting must never leave a live container").  It
\* takes a meeting-api that lived through the spawn and could write its rows, and
\* a runtime that does not find again what it had lost.
NoLiveBotBehindEnd ==
  row.status \in Terminal /\ faults.restart + faults.db = 0 /\ faults.forget <= 1 =>
    \A s \in Sids : wl[s].alive /\ spawn[s] = "done" =>
                      bot[s].at \in Terminal \/ ~IsKnown(s)

\* A run whose user had asked for the stop before the event came in is not
\* classified `failed`, unless it fails while active (L-0165).  It takes rows
\* that can be read: a failed read of the intent counts as none.
StopIsNotAFailure ==
  faults.db = 0 =>
    \A c \in calls : c.asked /\ c.pc = "persist" /\ c.new.status = "failed"
                       => c.new.stage = "active"

\* Terminal is terminal: no event, late advance, or advance that is taken back
\* because the capture was withdrawn meanwhile (app.py 481) re-opens a record.  A
\* restart empties the store; and of two advances taken back at once the second
\* works on a record that the first has replaced, and puts its old one over
\* whatever the session has come to since.
TerminalRecordIsFinal ==
  [][\A r \in Replicas, s \in Sids :
       rec[r][s].status \in Terminal =>
         \/ rec'[r][s].status = rec[r][s].status
         \/ faults'.restart # faults.restart
         \/ \E c \in calls : /\ c.on = r /\ c.sid = s
                             /\ c.held # NoStatus /\ c.shown = "withdrawn"]_vars

\* The meeting has had a second POST /bots.
Continued == \E s, t \in Sids : s # t /\ "idle" \notin {spawn[s], spawn[t]}

\* Capture once withdrawn, no late report, stop or retry makes the row look live
\* again (app.py, update_meeting_status).  Only a new spawn does, until its bot
\* reports.
WithdrawnNeverLive ==
  row.withdrawn => \/ row.status \in Terminal \cup {"stopping"}
                   \/ row.status = "requested" /\ Continued

\* Evidence about a workload is held against its own run, and no other
\* (reconcile.py; find_by_container and the sweeps take the latest session).
EvidenceNamesItsRun ==
  \A c \in calls : c.from # NoSid => c.sid = c.from

\* A meeting that its user continues when no other POST /bots is under way has one
\* bot at a time (SequentialSpec; bot_spawn/service.py).  Two continuations that
\* read it terminal at once are not among what this is checked or proved of: they
\* run two bots.  It also takes a meeting-api that lived through the spawns, a
\* runtime that loses sight of no bot, and a teardown that works where a write did
\* not.
OneBotPerMeeting ==
  faults.restart + faults.forget = 0 /\ 0 \in {faults.db, faults.runtime} =>
    Cardinality({s \in Sids : wl[s].alive /\ bot[s].at \notin Terminal}) <= 1

BotGone == row.status \in NonTerminal /\ \A s \in Sids : ~wl[s].alive
Resolved ==
  row.status \in Terminal \/ row.stop \/ \E s \in Sids : wl[s].alive

\* A meeting with a session whose bot is gone ends or gets another bot, unless
\* its user stops it: a DELETE writes the status it listed, and may write it
\* over the end (reconcile.py, the general backstop).
GoneSessionEnds == BotGone /\ sessions # <<>> ~> Resolved

\* A stop takes effect: the direct teardown of a bot that was stopped while it
\* booted succeeds in the end (stop_router.py), and so does a stop that reached
\* `stopping`, even if the bot never hears the leave command (reconcile.py, CC6).
StopsTakeEffect ==
  /\ \A d \in Stops : stops[d].pc = "kill" ~> \A s \in Sids : ~wl[s].alive
  /\ row.status = "stopping" ~> \A s \in Sids : ~wl[s].alive
=============================================================================
