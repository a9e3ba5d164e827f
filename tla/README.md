# A TLA+ model of the meeting engine

This project models the part of the repository that decides what happens to a
meeting: how a bot is spawned, how its life is reported, how it is stopped, and
how the services converge when something is lost; and what is made of the
meeting: its webhooks, its transcript, its recording, what the ZAKI Hub is told
of it, and how all of it is erased. It checks that with TLC on small instances,
and proves with TLAPS, for every instance, the safety properties of the passing
runs and that a meeting of one run keeps its promise. Paths are relative to
`src/`; `MA` is
`core/meetings/services/meeting-api/src/meeting_api`, `RK` is
`core/runtime/src/runtime_kernel`, `BOT` is `core/meetings/services/bot/src`.

## The system

| component | state | operations | talks to |
|---|---|---|---|
| status machine, `MA/lifecycle/machine.py` | a record per session, in the memory of one meeting-api process | `rehydrate`, `apply_change`, `replace` | called by the lifecycle callback |
| lifecycle callback, `MA/app.py` `_apply_lifecycle_event` | none of its own; writes the record, then the row | one call per event, with an await between each read, the advance, the write and the webhook | bot, runtime and sweeps call it |
| meeting row, `MA/bot_spawn/adapters.py` | status, `stop_requested`, withdrawal, `bot_container_id`, failure stage, sessions | one transaction each | every handler |
| bot spawn, `MA/bot_spawn/service.py` | where the request is | insert or reopen, create the workload, session, container id, compensation, raced stop | row, runtime |
| stop route, `MA/lifecycle/stop_router.py` | a snapshot of the row | mark the stop, publish the leave command, tear down a booting bot | row, Redis, runtime |
| capture withdrawal, `MA/capture/service.py` | none | one transaction on the row, then the same leave and teardown | row, Redis, runtime |
| reconcile sweeps, `MA/lifecycle/reconcile.py` | the listed row, the untracked window | probe, teardown, synthetic terminal event | row, runtime, lifecycle callback |
| bot, `BOT/orchestrator.ts`, `BOT/adapters/lifecycle-http.ts` | the stage reached | report a stage with bounded retries, obey a leave, exit | lifecycle callback |
| runtime kernel, `RK/kernel.py` | the workloads it knows | create, get, stop, destroy, adopt | meeting-api, Docker |
| runtime callbacks, `RK/callbacks.py` | pending deliveries | deliver once, keep what failed | `/runtime/callback` |
| runtime enforcement and scheduler, `RK/enforcement.py`, `RK/scheduler.py` | deadlines, cron jobs | reap, run | kernel |
| webhooks, `MA/webhooks/` | retry queue, processing list and dead letters in Redis | POST, enqueue, drain, reclaim | subscribers |
| single flight, `MA/sweeps/single_flight.py` | a PostgreSQL advisory lock per sweep | try, run, release | every sweep |
| lifecycle retry, auto-join, calendar | planned meetings | re-spawn, spawn on time | bot spawn |
| collector stream, `MA/collector/ingest.py` | the Redis stream and its consumer group | read, ingest, acknowledge, reclaim, prune, heal, trim | bots, transcript store |
| transcripts, `MA/collector/db_writer.py`, `adapters.py`, `summarizer.py` | a Redis hash and PostgreSQL rows per meeting | append, flush, finalize, summarize | row, lifecycle callback |
| recordings, `MA/recordings/` | objects in storage, the recording JSON of the row | upload a chunk, fold it, assemble and stamp the master | bots, storage, row |
| retention, `MA/retention/` | the erasure plan and the expired scopes in the row | begin, count, delete, commit; expire a scope | storage, row, both stores |
| ZAKI outbox, `MA/zaki_control/callbacks.py` | capture rows, the callback outbox | record, reconcile, drain, settle | lifecycle callback, Hub |
| ZAKI control, `MA/zaki_control/router.py`, `adapters.py` | the operation ledger, the subject's barrier, the capture map | capture, stop, erase, policy | Hub, spawn, retention |
| ZAKI read, gateway, identity, agent, clients, deployment | | | |

The whole is cut at the database transactions, Redis commands, storage calls and
posts where another process may come in. `MeetingLifecycle` is the core: the
other modules see of a meeting's life only that it ends, is stopped, withdrawn,
erased or expired, and each says in its header which of the others stands for
what it abstracts to one step.

What makes the core hard: one meeting is moved by the bot's own reports (retried
and possibly late), by the runtime's callback (sent once), by two sweeps (acting
on rows and probes that may be stale) and by users, all at once. The decision is
taken on an in-memory record, the durable row is written later, in another step,
and everyone else reads the row. meeting-api and the runtime each restart and
forget. What each component must get right:

- status machine: an ended record stays ended; a stop is not a failure.
- callback: one announcement per end; the row follows the record.
- spawn: one bot per meeting; no bot left without an owner; a raced stop is seen.
- stop and withdrawal: the bot goes in the end, even if it never hears the
  command; a withdrawn meeting never looks live again.
- sweeps: never end the meeting of a live bot; never leave a live bot behind an
  ended meeting; end every meeting whose bot is gone.
- across restarts: the verdict (clean, stopped, failed) stays the right one.
- webhooks: no queued webhook is lost, each is tried as often as the schedule
  says, and each is settled in the end, whoever dies.
- collector: every entry of the stream is ingested; what was acknowledged is in
  the hash or in PostgreSQL until it is in PostgreSQL for good.
- recordings: a chunk that is counted is stored, and served by the master.
- retention: what is erased stays erased, whoever was still writing; the receipt
  counts what was there.
- ZAKI outbox: captured seconds are settled with the Hub before the capture is
  deleted; the Hub's refusals do not stop the rest for ever.
- ZAKI control: an operation that is repeated, taken over and resumed has its
  effect once, and its receipt tells the truth.

`PROJECT.json` lists every component with its status and every hazard at its line.

## Modules

| module | what it is |
|---|---|
| `MeetingFSM` | the status machine as operators: `LegalTransitions`, `Rehydrate`, `Outcome` and `ApplyChange` |
| `MeetingLifecycle` | one meeting: row, sessions, stores, calls, bots, workloads, spawns, stops, sweeps |
| `MeetingPromise` | what a user is promised: each run concluded at most once, for the right reason, and told once |
| `MCMeetingLifecycle` | the refinement mapping to `MeetingPromise` and the assumptions some runs make |
| `MeetingLifecycleProofs` | the theorems about `MeetingLifecycle` and `MeetingFSM`, and the refinement of `MeetingPromise` |
| `RuntimeKernel` | one workload of the runtime: its API, its record, its container, the enforcer, restart and adoption |
| `WebhookRetry` | the webhooks of a deployment: first POST, retry lists, drain loops, advisory lock |
| `SegmentStream` | the transcription stream and its consumer group, as replicas read, reclaim, prune, heal and trim it |
| `TranscriptStore` | one meeting's transcript from the collector to PostgreSQL, with the finalizer, the summarizer and what ends it |
| `RecordingStore` | one meeting's recording: uploads, the master, expiry, erasure |
| `CaptureOutbox` | what the Hub is told of one capture, and the settlement before its erasure |
| `CaptureControl` | the signed operations of one subject: captures and account erasure under leases and fences |
| `RuntimeKernelProofs`, `WebhookRetryProofs`, `SegmentStreamProofs`, `TranscriptStoreProofs`, `RecordingStoreProofs`, `CaptureOutboxProofs`, `CaptureControlProofs` | the theorems about the module each is named for |

### State and code: the lifecycle

A spawn attempt, its session (`connection_id`) and its workload are in bijection
in the code, so one set `Sids` names all three.

- `row`, `sessions`: `Meeting` and `MeetingSession`. Each action on them is one
  transaction of `SqlAlchemyMeetingRepo`.
- `rec[r][s]`: the `MeetingRecord` of a session in the `MeetingStore` of a
  replica. Status, stop intent and failure stage; the rest is payload.
- `calls`: invocations of `_apply_lifecycle_event` being served. `pc` is the
  await the call has reached, and the fields are its locals: what it read of the
  row, the record accepted before and advanced after, what the write returned.
  `CallReadStatus`, `CallRehydrate`, `CallReadStop`, `CallApply`, `CallPersist`,
  `CallPersistFails` and `CallSettle` are the stretches between awaits. A local
  that is not read again is reset, so that equal continuations are one state.
- `spawn[s]`: the step of `request_bot`. `SpawnInsert` or `SpawnContinue` and
  `SpawnReopen`, `SpawnCreate`, `SpawnCreateSession`, `SpawnSetContainer` and
  `SpawnRaceCheck` are its path; `SpawnRefused`, `SpawnReject`,
  `SpawnTransportError`, `SpawnDbFault` and `SpawnTeardown` its failures.
- `stops[d]`: a DELETE with the snapshot it keeps working on, or a withdrawal.
- `sweep`, `zombie`: a sweep at work on a listed row, and whether this meeting's
  untracked window is open. The advisory lock of `sweeps/single_flight.py` is
  what makes one variable enough.
- `bot[s]`: the last stage reached, the event being reported, the POSTs made for
  it, and whether the leave command arrived.
- `wl[s]`: is the process alive, does the kernel's store have it (`none`,
  `tracked`, `adopted`, `forgotten`) and has its end been recorded (`over`).
- `cb[s]`: a terminal `RuntimeEvent` on its way.
- `faults`: what went wrong so far, by kind. `announced` and `seated` are history.

### State and code: webhooks (`WebhookRetry`)

- `sent[e]`: how far `WebhookSink.deliver` is with an envelope: the synchronous
  POST (`SendFirst`), then `RetryQueue.enqueue`. Between the two the process may
  die (`SenderCrash`), which forgets the envelope: nothing promises otherwise.
- `queue`, `processing`, `deadLetter`: the three Redis lists, one action per
  command: `ReclaimList`, `ReclaimRequeue` and `ReclaimRemove` are LRANGE, RPUSH
  and LREM of `_reclaim_stale_processing`, which lists the whole processing list
  and passes over (`ReclaimSkip`) what is not `Abandoned`; `Claim` and `Stamp`
  are RPOPLPUSH and LSET; `Reschedule`, `BuryExhausted`, `ResolveAged`,
  `ResolveEarly` and `Acknowledge` end its turn. A burial is an RPUSH and, in
  `Trim`, the LTRIM that makes up for it.
- `worker[w]`: the drain loop of a replica and the command it is at. `lock` is
  the advisory lock of `run_single_flight`; a worker that dies loses it.
- `due`, `aged`, `stale`: what the one reading of the clock at the start of a
  sweep decided. Which entries are due, too old or past their lease is a choice
  that only grows.

### State and code: the segment stream (`SegmentStream`)

- `retained`, `cursor`, `pel`, `known`: the Redis stream, the group's
  last-delivered-id, its pending entries and its consumers.
- `loop[c]`: a tick of the consumer loop of a replica: `Read`, `Ingest` and `Ack`
  are `consume_segments`; `Probe` and `Reset` are `GroupDesyncHealer`; `Reclaim`
  is XAUTOCLAIM, `ListGhosts` and `Prune` are `prune_idle_consumers`. The batch in
  hand is a set of entries, and the oldest is ingested first.
- `trimmer`: the three commands of `_trim_segments_stream`.
- `raced`: entries delivered between the look of a prune or a trim and its blow.

### State and code: transcripts (`TranscriptStore`)

- `row`: what the writers look at under the meeting's lock: the row's presence,
  the tombstone of a withdrawal, an erasure begun, scopes expired.
- `hash`, `fresh`, `stored`: the segment hash with the fields that are too
  young to flush, and the rows of `transcriptions`. A segment is represented by
  its revision; `Blank` revisions have no text yet.
- `ingest[c]`: the message the collector of a replica has in hand. The lock of
  `transcript_write_lease` is shared, so it does not order two collectors, and
  each appends what it was delivered (`Deliver`) or has claimed (`Reclaim`).
  `delivered`, `orphans` and `acked` are the consumer group: what was read of the
  stream, what may be claimed from a collector that died or stalls, and what was
  acknowledged. An orphan may be ingested twice, and after younger revisions.
- `flush[p]`: the periodic tick and the finalizer, which read the hash, write
  PostgreSQL and then delete from the hash as three steps. `summary`: the
  summarizer.
- History: `last[s]` is the revision appended last; `overtaken` has the segments
  over which an older revision was written, `clobbered` those a flusher took back
  or away.

### State and code: recordings (`RecordingStore`)

- `prefix`, `record`: the registered storage prefix and the media file of
  `meetings.data`; `objects` and `master` are what storage holds.
- `upload[u]`: `upload_chunk`, one action per database transaction or storage
  call, with the look whether the object was there (`Look`, `LookFails`) and the
  compensation of what failed (`WriteFails`, `Undo`). A fold may have been
  committed and not answered (`FoldUnanswered`): it is compensated all the same.
  `misled` is history: the chunks whose object an upload may so delete although
  it, or another, has counted them.
- `finalize[f]`: `finalize_master`: look, list, build, stamp. `crossed` is
  history: an assembly put its master between the put and the stamp of another.
- `erase[e]`: `erase_meeting`: barrier, census, deletion, recount, commit; it is
  repeated after every failure. `ExpireAudio` is the retention sweep.

### State and code: ZAKI (`CaptureOutbox`, `CaptureControl`)

- `CaptureOutbox` has one capture: the meeting row as the overlay reads it, the
  capture's own state, the outbox table and the Hub, which may answer the usage
  with a 410 or a 422 and so `refused` it for good. A task is a recording in
  progress (`TaskRead`, `TaskWrite`: the state is read in one transaction and
  advanced in another). A drain posts the batch it read, event by event, and
  judges each answer. The erasure settles first, and its gate is
  `terminal_callbacks_delivered`. The loop works on fifty rows at a time, oldest
  first: while they are those of other captures (`crowded`), it does not come to
  this one.
- `CaptureControl` has one subject: the ledger row of the capture operation and
  of the erasure (status, fence, lease, journal), the subject's barrier, the
  capture and the subject's meetings. The policy that capture operations are
  admitted by may be changed between any two of them, and each execution looks
  at it anew: it may be off, or the one the operation attests, or another. A
  captor or an eraser is an execution of a signed request. Several may run: the
  lease of a slow one expires, and it goes on until a fence stops it.

### State and code: the runtime (`RuntimeKernel`)

- One workload. `objs` are the `WorkloadStatus` objects made for it, `store` says
  which one the in-memory store holds: handlers keep and change the object they
  looked up, and `_persist` (`Write`) puts it back.
- `handle` and `tracked`: the entries of `Runtime._handles` and
  `Enforcer._tracked`. `cont`: the container under the workload's name, with a
  generation, as a name is used again.
- `act[a]`: what a worker thread, or the enforcer's, is in the middle of.
  `CreateLook` to `Track` are POST /workloads, `StopLook` to `Forget` a stop,
  `DestroyLook`, `Cleanup`, `MarkDestroyed`, `Forget` a DELETE, `GetLook` and
  `Reflect` a GET that observes an exit. `EnforcerLook` is a sweep that finds
  the workload due; it goes on with the steps of a stop.
- `SpawnRaises`, `StopRaises` and `LookupRaises`: a call to Docker raises, with
  or without its effect. `Restart`: the store, the handles and the tracks are
  gone, and `adopt` rebuilds them from the containers, unless discovery fails.
- `upset`: which of the races and failures has happened that the code does not
  make good; each property names those it has to except.

### Abstractions

- Time. Grace periods, windows, backoffs and leases are not clocked. A row may be
  stale whenever the code could list it (`Stale` says which spawn steps the
  grace periods rule out), and a sight of an unknown workload that leaves
  everything as it is stands for all those inside the window. Where one reading
  of the clock decides about several things, the decision is kept.
- Values. Reasons, exit codes, error details, bot logs, transition trails, the
  text of a segment, the bytes of a chunk and the payload of a webhook decide
  nothing here; a segment is its revision and a chunk its sequence number.
- The workload of `RuntimeKernel` has a lifetime, as a capture's bot and an agent
  have. A plain meeting bot has none (`profiles.py:138`), and the enforcer leaves
  it to meeting-api.
- The bot reports in order and one at a time. A lost POST and a lost answer look
  the same to it.
- Redis pub/sub reaches some subset of the bots listening now.
- A graceful SIGTERM is not told apart from a kill: after either, the kernel's
  event and the sweeps must conclude the run. The bot's own last report before
  an exit is `BotReport`, `BotPost`, `BotExit`.
- Locks. A transaction, and what runs under an exclusive lock in one
  transaction, is one action; a lock held over several awaits is kept in the
  state (`Leased`, `Shared`, `Locked`, `lock`). A lock is not lost while its
  holder lives.
- External: the Hub follows its contract (`CaptureOutbox`), object storage and
  Redis apply one command at a time, and a storage call that fails may have done
  part of its work.
- Bounds, all CONSTANTS. Lifecycle: `MaxCalls` calls at once, `MaxAttempts`
  POSTs per event (5 in the code), `MaxRestarts`, `MaxForgets`, `MaxDbFaults`,
  `MaxRuntimeFaults` and `MaxWithdrawals` for each kind of failure and
  `MaxFailures` for all of them together; `MaxLoad` for the calls being served
  and the faults so far together (2 in `withdrawal` and `continue`, so that
  calls overlap where nothing has failed; no limit in `live`). The others:
  `Tries`, `DeadLetterMax` and `MaxCrashes` (webhooks), `MaxEntries`, `Batch`
  and `Strikes` (stream), `Collectors` and `MaxRevision` (transcripts),
  `MaxMeetings` (control), `Threads` and `MaxEvents` (runtime: requests,
  restarts and failures) and `MaxFaults`. Not counted in `MaxEvents` is the
  keep-alive of a workload that has reached a limit, served alone (`Uncounted`):
  it may come again without end.

## Runs

`CHECK_DEADLOCK FALSE` throughout: a meeting that has ended, a stream that is
read, a subject that is erased stop for good.

| run | instance | what it shows |
|---|---|---|
| `withdrawal` | a DELETE or a withdrawal; two calls at once, or one around a restart, a forgetting runtime, a failed runtime call or a database fault | `TypeOK`; a stop asked before the event is not classified a failure; a withdrawn row never shows a live status again; the end is announced once; an ended record stays ended, also when an advance is taken back; a sweep ends a meeting only if the workload it names is gone; no known live bot behind an ended row |
| `continue` | a second run on the row of the first, one POST /bots at a time, two POSTs per event, a database fault | evidence is held against the run it is about; one bot at a time, where no two continuations are under way at once |
| `live` | both services restart and a runtime call fails, or a DELETE, which may fail itself | a meeting with a session whose bot is gone ends; a stop takes effect, by the sweeps or by the teardown of a booting bot; the refinement of `MeetingPromise`, by which a bot never admitted never ends clean |
| `webhooks` | two webhooks, two drain loops, two retries each, one dead letter kept, one process dies | the dead letters keep within their cap and what an RPUSH has just added; no queued webhook is lost; it is posted as often as the schedule says; it is settled in the end |
| `stream` | two replicas, two entries, one fault | an entry is lost only if it was delivered while a prune or a trim that had not seen it was under way; the rest is ingested in the end |
| `transcript` | two collectors, a segment in two revisions, the first blank; both kinds of withdrawal, erasure, expiry, one fault | what is erased stays erased; an acknowledged revision, or a younger one, is in the hash or in PostgreSQL, or a flush took it back or an older one was written over it; the last is in PostgreSQL in the end, with the same exceptions; a refused meeting's hash stays empty |
| `recordings` | two chunks, two uploads at once, an assembly, two erasures, two faults | nothing is left in storage of an erased or expired recording; the receipt counts what the barrier shut in; what is folded is stored, unless an upload that was misled undid it; the stamped master has every folded chunk |
| `outbox` | one recording at a time, one drain, an erasure, one fault or crowding | captured seconds are settled, or refused for good, before the capture is deleted; nothing is queued for an erased capture; unless the batches stay crowded, every ended capture is settled and the erasure completes |
| `control` | two executors of one capture, two of one account erasure, two meetings, a policy that is changed, a fault | one bot per operation; the erasure's receipt counts what was deleted; a bot that was started is bound to its capture, unless the policy goes on refusing the repetitions |
| `runtime` | two worker threads and the enforcer, any three requests, failed Docker calls or restarts, and keep-alives without end | a record says stopped or destroyed over a live container only after a race with a create or an unanswered call; a keep-alive replaces no live container but in such a race; a stop or destroy that is answered has ended what it saw, also after a restart, unless Docker did not show it or the record was wrong before; what nobody stops and nobody keeps alive again and again is reaped |
| `adopted_forever` | one thread, the same, violation | see below |
| `slipped_capture` | the instance of `control`, violation | see below |

`slipped_capture` is a disagreement between the code and what it says of itself.
`zaki_control/router.py:1298` puts the barrier up so that "a capture cannot slip
in after this point and evade account erasure". The barrier is looked at when a
capture is admitted and when its row is created, but not when its bot is
spawned: an executor that created its capture before the barrier may call
`request_capture` after the erasure listed its targets. The erasure completes,
and the bot is in the meeting of a subject whose erasure has its receipt.

`adopted_forever` is another. `__main__.py` of the runtime tracks what it adopts
at boot, "rather than leaving them untracked forever" (191). `adopt`
(`kernel.py:128`) makes up the spec of such a workload: profile `adopted`, which
no registry has, and no limits. `_effective_limits` (`enforcement.py:43`) then
has nothing to go by, and the sweep passes a tracked workload over at every tick.

### Why the bounds are enough

The races in the lifecycle are between two events, or an event and a request,
over one record and one row: two calls at once produce every order of their
reads, advances and writes, and a third call is only another one of the two. Two
overlapping calls with a fault between them are not checked (`MaxLoad`): a fault
either replaces what one call reads or takes away what it works on, which one
call and the requests around it show. The
runs leave `awaiting_admission` out because it behaves as `joining` does in every
decision but the stage recorded. One DELETE is enough where no meeting is
continued, since `stop_requested` refuses the second. `live` keeps a stop apart
from every failure but its own (`StopOrFailure`, `OnlyStopsFail`): together, what
a stop owes is less, see below.

Webhooks, stream, recordings and control each have two of the processes that
race (loops, replicas, uploads, executors): a step of one between any two of the
other is what a third would be. Two envelopes overtake each other in the lists,
and a dead-letter list of one drops what it should. Two revisions, the first
blank, are the fewest with an order to get wrong and a text to lose, and two
collectors write them in either order or, after a stall, one of them twice. In
`outbox` the second drain is left out because two of them post the same batch,
which the Hub acknowledges twice; what they do to order is under the
divergences. In `runtime`, three is a create, a stop or destroy, and the create,
restart or failure it races with; what the enforcer does comes on top.
Keep-alives after that are not bounded, or the bound would end what
`ReapedInTheEnd` has to except. One fault (two for recordings) reaches every
recovery path; two are needed there for a compensation that dies and an erasure
that is begun again.

### Fairness

Lifecycle: the event loop serves every call and request it has accepted, the
kernel's worker posts a queued event, a sweep finishes, and the sweep timer
comes round: weak fairness on `AnyCallStep`, `SpawnProgress`, `StopProgress`,
`AnyCallback` and `SweepProgress`. Each tick runs the general sweep and then the
stopping sweep, but either may find the other at work or the row not yet stale,
so `SweepTick` of each kind is strongly fair. `BotWindsUp` is weakly fair: a bot
outside gives up (`waitingRoomTimeout`), one that heard the leave command goes,
and either reports and exits. A bot in its meeting owes nothing, users owe
nothing, and no fault is fair. `LiveSpec` adds that a bot's first report comes
after `request_bot` inserted its session (`SlowBoot`), since booting a browser
takes seconds and two writes do not; without it an early terminal report finds
no row and its retries are no-ops. `SequentialSpec` adds that a meeting is not
continued while another POST /bots is under way.

Webhooks: a failed POST is enqueued, a sweep under way goes on, and a sweep at
which everything waiting is due and every claim past its lease comes round
(`SweepInTime`, strongly fair: the drain is a timer, backoffs and leases are
finite, and nothing extends them). Stream: the loops come round, a dead replica
is restarted by its supervisor, and at some reclaim all that is pending has been
idle long enough. Transcripts: a collector finishes what it takes up, reads on
and claims what is orphaned, bots stop rewriting a segment for thirty seconds,
and the tick comes round; the finalizer owes nothing, since its process may die
for good. Outbox: reconcile and drain are the loop of `__main__`, which comes to
this capture only where the batch is not full of others, so that what is to
happen in the end is stated under `<>[]~crowded`; a meeting being stopped ends
(which `live` shows), and the Hub repeats an erasure without a receipt
(`PersistentHub`, its contract). Control: the Hub repeats a request without a
receipt, what runs goes on, and the lease of an executor that is gone runs out;
nobody owes it a policy that admits the repetition, so `BoundInTheEnd` supposes
`<>[]Admitted`. Runtime: a thread goes on, Docker kills in the end what it was
told to stop, time passes and the enforcer's daemon thread sweeps; no request is
fair, and `ReapedInTheEnd` supposes that keep-alives at a limit cease
(`<>[]~KeptAlive`). No withdrawal, erasure, expiry or fault is fair.

## Theorems

They hold for any sets of actors, any values of the bounds and any number of
faults; they use only the named assumptions on the constants and what a theorem
says it takes. Every one follows the same road: an inductive invariant, a lemma
per action or group of actions that it is kept, the step from it to the
property, and one temporal step. The properties of the runs are
mostly not inductive: what follows says what had to be added, since that is why
the code is right.

**Lifecycle** (`MeetingLifecycleProofs`).

- `TypeCorrect`: `TypeOK`. A read of the row by session must not return
  `absent`, a sweep must have a session to post, and what is persisted must be a
  status: `Shape` adds `RowFirst`, `SweepHasSession` and `AdvanceHasStatus`.
- `TerminalStays`: `apply_change` does not advance a terminal record.
- `SweepSafe`: `SweepNeverEndsALiveBot`. The event of a sweep is served long
  after the sweep looked. What makes it safe is that a workload is started once
  (`OnlyCreateRevives`, `CreatedStays`), so that one found or made dead stays
  dead (`GoneStays`). `Evidence` adds that the row and the sweep name only
  workloads already asked for, that a sweep with a verdict has confirmed it, and
  that so has the call that carries it.
- `TerminalFinal`: `TerminalRecordIsFinal`, with withdrawals. Rehydration seeds
  only empty records, and the one place that puts an older record back
  (`app.py:482`) does so only where the record it worked on has not ended.
  Excepted are a restart, and a call that is taken back over a record which
  another that was taken back has replaced (see the divergences).
- `WithdrawnStaysDown`: `WithdrawnNeverLive`. `Reopening` says that a spawn which
  reopens the row is a second one, and that a withdrawal found a row.
- `StopIsHonoured`: `StopIsNotAFailure`. `AskedFor` follows a call from its
  arrival: the intent was on the row, a row keeps it, and so the read of it before
  the record is advanced has it.
- `EndIsAnnouncedOnce`: `AnnouncedOnce`, for one replica and no withdrawal.
  `EndedByOne`: whoever is about to announce an end has left the record ended,
  and is the only one. A store is per process, so two replicas each end their
  own.
- `EvidenceIsItsRuns`: `SequentialSpec => []EvidenceNamesItsRun`. While one
  POST /bots is under way at a time the row's container is that of the latest
  session, or none (`RowNamesLast`); the sweep's snapshot then agrees with itself
  (`SweepNamesRun`).
- `EndLeavesNoLiveBot` and `OneBotAtATime`: `NoLiveBotBehindEnd` and
  `OneBotPerMeeting` under `SequentialSpec`, for one replica and no withdrawal:
  a meeting is continued any number of times, but not twice at once, which
  the code does not exclude (see the divergences).
  They need each other. `Apart`: one run at a time is being spawned or has a bot
  the runtime knows of, the other runs are concluded, a row that has ended leaves
  nobody behind except a bot about to be compensated, and a terminal event is
  about a run whose bot is gone. It holds in the states without the faults the two
  properties except (`Healthy`), and `Facts` is what holds in all.
- `PromiseKept`: `LiveSpec => KeepsPromise`, the refinement of `MeetingPromise`.
  The initial state maps to an initial one and every step to `Admit`, `Ask`,
  `Conclude`, `Tell`, `Forget` or a stutter (`CallKeepsPromise`,
  `StepKeepsPromise`). `Truthful` is why the verdict is right: nothing that the
  bot, the row, a call or a record says is beyond what happened. A status past
  the lobby is said only of a bot that was admitted, `stopping` only after a
  stop, and a record's verdict agrees with both. It takes one run (`OneRun`: a
  row has one status for all the runs of its meeting), one replica, no
  withdrawal, and no `needs_help`, whose loss the runtime callback takes for a
  clean end (see the divergences). Of `LiveSpec` it uses that a stop does not
  meet a restart or a fault of the runtime (`StopOrFailure`), since a record
  that is rehydrated has forgotten its stage. In the mapping `told` is a set: a
  second announcement is a stutter, and `AnnouncedOnce` is what excludes it.

**Webhooks** (`WebhookRetryProofs`): `TypesHold`, with the bound of the
dead-letter list: one more for a drain between RPUSH and LTRIM and for each process
that died there; `OneDrain`; `NothingIsLost`; `ScheduleIsKept`; and
`NoSecondCopy`, an action property of the proof module. `Position` says what holds
at each command of a sweep: a row leaves the processing list only when its webhook
waits in the queue or needs no more. `Counted` ties the retry number of every copy
to the POSTs made, with crashes; `Calm`, without, has each webhook at one place
only, and the processing list holding what the sweep has in hand. The
lemmas before them are what LREM, LSET, RPOPLPUSH and LTRIM do to a list's entries.

**Segment stream** (`SegmentStreamProofs`): `OnlyARaceLoses`. `NoneLost` is the
property without the loops: what is not done with is retained, and pending or
ahead of the cursor. `LoopsInStep` makes a batch pending and a ghost's entries
seen; `FloorSafe` says of a trim that what lies below its floor was ingested or
delivered since it looked; `YoungAhead` is why a trim does no harm to a stream
whose group ran ahead. `LeastIn`, `GreatestIn` and `OldestFirst` are the order of
XREADGROUP: a read moves the cursor past nothing it does not deliver.

**Transcripts** (`TranscriptStoreProofs`): `ErasureIsFinal`, and `WordsAreKept`
with the types, for any number of collectors in any order. What the hash has of
a segment is what was appended last (`HashIsLast`), and an acknowledged revision
is no younger unless an older one was written over it (`AckedIsWritten`). What a
flusher is about to drop has its text stored, was taken back or is to be gone
(`Taken`, `Dropping`), and it purges only what may not be kept (`Purging`).

**Recordings** (`RecordingStoreProofs`): `TypesKept`, `ErasedStaysErased`,
`ReceiptIsExact`, `FoldedStays`, `StampIsCurrent`. A row that refuses writers has
none at work (`BarrierHolds`), and has the prefix of whatever is stored
(`Registered`): that is why an erasure finds everything. `Receipt` follows the
census from the barrier to the row; `OneWriterPerChunk` and `Stored` keep a
compensation from the object of another upload, except of the chunks that are
`misled`: the store called them absent, or their fold was committed unanswered.
`Whole` and `Vouched` say when a stamp can be believed: every assembly stamps what
it put, if none crossed and no upload was misled.

**ZAKI** (`CaptureOutboxProofs`, `CaptureControlProofs`). Outbox: `QueuedOnce`,
`ErasureWaitsForTheHub`, which speaks of the usage and not of the status events that
the deletion may drop, and `ErasedSaysNothing`, which keeps the queue empty but
not a drain from posting the batch it has read. An end is queued together with its
usage (`Paired`), and a usage that is closed was taken or refused by the Hub
(`Settled`); `Places` and its companions say that inserting missing events
duplicates none. Control: `TypesHold`, `OneBot`, `ReceiptIsExact`. Fences are
handed out one by one, and whoever works under the last has the ledger's journal
(`Holders`, `OneHolder`); what any journal says of a meeting is so
(`JournalsTell`), so an overtaken executor cannot spoil the receipt. A capture
that is taken over has one grant in one row (`OneGrant`) until something of the
subject is erased.

**Runtime** (`RuntimeKernelProofs`): `TypesHold`, `DestroyedIsNoLie`,
`CreateLeavesTheLiving`, `StopIsFinal`. For each thread: a verdict that is due is
about a container that does not run any more, unless a create started one since
(`Verdict`), a create that looks has nothing alive before it (`Looking`), and a
stop that has done its work has ended the generation it saw (`Ended`), unless Docker
hid it, or it was answered from a record that called it gone (`Excused`).

Only model-checked: liveness (`GoneSessionEnds`, `StopsTakeEffect`,
`EventuallySettled`, `EventuallyIngested`, `EventuallyStored`, `EventuallyPurged`,
`EverySettles`, `ErasureCompletes`, `BoundInTheEnd`, `ReapedInTheEnd`), as fairness
and ENABLED are beyond the prover. The two runs that expect a violation show
behaviours. Where a theorem takes one replica or no withdrawal, the runs are what there
is of the rest: `withdrawal` has withdrawals with `AnnouncedOnce`
and `NoLiveBotBehindEnd`, on one replica.

## Known divergences without a run

Met while modelling; each follows from the cited lines and is kept out of the
properties by the bounds or the wording of the runs. Where a definition is
named, TLC finds it violated in the instance given.

Lifecycle:

- Of two advances that a withdrawal takes back, the second puts its old record over
  whatever the session has come to since the first was (`app.py:482`): with two
  POSTs per event (`MaxAttempts = 2`) a record that has ended is open again.
  `TerminalRecordIsFinal` excepts it.
- The write of an older advance may land on the row after the terminal one
  (`app.py:459`); the record is final, so the row stays non-terminal, against
  `reconcile.py:244`.
- A withdrawal writes `stopping` over a pre-active status (`adapters.py:732`),
  which is then taken for a live one, against `machine.py:111`.
- A DELETE of a booting meeting leaves its status, so the check at the end of the
  spawn (`service.py:526`) does not see it, and the DELETE had no workload to
  tear down: the window that `service.py:524` says is closed.
- A failed teardown of a booting bot (`stop_router.py:137`) is not retried: the
  row is not `stopping`, and the sweeps' probe spares the bot, against
  `stop_router.py:139`.
- A DELETE whose meeting ends between its reads and its write sets `stopping`
  over a terminal status; `GoneSessionEnds` exempts stopped meetings for that.
- A restart between `create_session` and `set_bot_container` leaves a row with a
  session and no workload id, ended by a sweep with nothing torn down.
- A transport error of `create_workload` leaves a `requested` row without a
  session, which no sweep lists.
- A terminal event before `create_session` finds no row, and its retries are
  no-ops of the record.
- `needs_help` counts as was-active when a workload dies (`reconcile.py:416`)
  and as pre-active in the sweeps (`reconcile.py:97`).
- Two continuations of one meeting both read it terminal (`service.py:313`), and two
  bots run: `OneBotPerMeeting` under `Spec`.
- A continued meeting keeps `stop_requested`, and its DELETE is refused.
- The cap on a user's bots is counted in one transaction for a fresh meeting and
  in another for a continued one.
- Several replicas seed a session's record once each: both may announce the end.
  So may one process, if it restarts in between, as the row it reads its record
  from may have been overwritten by a late advance.
- A runtime that forgets a bot, lets the sweeps end its meeting as lost and finds
  it again at the next restart has a live bot behind an ended row:
  `NoLiveBotBehindEnd` excepts a second forgetting (`MaxForgets = 2`).
- `OneBotPerMeeting` excepts a restart, which ends a run between its session and
  its container id, and a write that fails together with the teardown that was to
  make up for it: two bots, with three spawns or one database and one runtime fault.
- A failed write of the row is swallowed; the redelivery is then a no-op.
- The sweep over pending callbacks of the runtime is never called.

Runtime (what `upset` excepts):

- A stop, a destroy or an observed exit writes its verdict to the status object it
  looked up, and makes that the record again (`kernel.py:248`): a create that came
  in between is overwritten, and its container runs behind `stopped`. The stop's
  poll kills whatever runs under the name by then (`kernel.py:237`).
- A stop of a record that is wrongly `stopped` so is answered at once
  (`kernel.py:228`) over the live container. `AnsweredMeansDead` excepts it.
- `enforcer.forget` at the end of a stop or destroy (`api.py:150`) drops the track
  of a create that came in between: the new workload is never reaped.
- A create whose last call is not answered records `start_failed` over a
  container that may run.
- A stop that raises leaves `stopping`, which the enforcer passes over
  (`enforcement.py:61`) and a create takes for gone.
- A `find` that raises counts as: no container (`kernel.py:95`), so a destroy
  after a restart may answer over a live one.
- A keep-alive create tracks the workload anew (`api.py:113`) and so restarts the
  lifetime too, which is to run "regardless of activity" (`enforcement.py:33`): one
  at every limit, and the workload is never reaped. `ReapedInTheEnd` excepts it;
  `touch` is called by nobody.

Webhooks:

- A process that dies between a failed POST and the enqueue forgets the webhook,
  and the dead-letter list drops its oldest.
- A drain that lost its advisory lock with its connection goes on, and `LSET 0`
  (`retry.py:265`) then overwrites another's claim.

Stream and transcripts:

- `NothingLost` (`db_writer.py:109`, "NEVER past an entry the collector group has
  not fully consumed"): the trim looks and cuts in three commands, and a
  delivery in between is cut; a prune likewise. The constants of `stream`.
- HDEL deletes a field the collector rewrote since it was read, against
  `db_writer.py:18`, and a flush writes an older revision over a younger one:
  `clobbered`, which the properties except.
- The collectors of two replicas, or the claim of an entry that was delivered
  before (`collector/adapters.py:1454`), put an older revision over a younger,
  which is then what is kept: `overtaken`, which the properties except.
  `ingest.py:319` describes a cursor, the code starts at `0-0` every time.
- Transcript writers look neither at an erasure begun nor at an expired scope: a
  flush after expiry brings the transcript back, and the summary is made anew.
- A read of the transcript takes PostgreSQL first and the hash second and may miss
  what moved in between. `tc:meeting:{id}` is never deleted.
- `capture_stopped` is the only `withdrawal_reason` the code writes; the other is
  what the readers are prepared for.

Recordings:

- An upload whose fold was committed but whose answer was lost is compensated,
  and deletes an object that is counted (`service.py:184`). So does one that the
  store told of an error, taken for an absent object, when its put or fold fails.
  `FoldedIsStored` excepts the chunks (`misled`).
- Two assemblies at a time may put the smaller master last and stamp it, against
  `service.py:226`: `NeverFrozen` with two finalizers and no fault. The property
  of the run excepts just the assemblies that crossed.
- A writer that lost its lock with its connection may put an object after the
  erasure.

ZAKI:

- Reconcile and drain read fifty rows, oldest first (`adapters.py:752`,
  `:1005`), and a capture stopped in the lobby never leaves reconcile's: fifty
  of those, or fifty events the Hub does not take, and the others wait for ever.
  `crowded`, against which the liveness properties of `outbox` are stated.
- A skipped `joining` keeps later steps from the Hub, since reconcile emits only
  from the recorded state; a run stopped in the lobby is never settled:
  `TheLobbySettlesToo` under `Spec`.
- A recording that read the capture before the raw meeting was deleted puts it
  back to a live state, and every retry of the erasure fails: `RetriesFinish`
  under `PersistentHub`, against `adapters.py:871`.
- Two drains overtake each other, as the loop is not single-flighted: an event
  may reach the Hub before the one it follows.
- A 410 or a 422 to the usage closes it like an acknowledgement (`callbacks.py:601`),
  and the erasure goes on, against `router.py:996`: `AcknowledgedBeforeErased`.
- Admission looks at the policy (`router.py:698`, `:716`) before it recovers
  what an execution that died left behind: capture turned off in between, or
  consent given anew, and the bot it started stays in the meeting unbound, since
  every repetition is refused. `RecoveredWithoutConsent` with the constants of
  `control`.
- An overtaken eraser may raise the barrier after the receipt, and nobody lowers
  it: `BarrierComesDown` with one captor, two erasers, one meeting, two faults.
- An overtaken eraser deletes the policy of a subject that has consented anew
  (`adapters.py:350`): `StaleErasesNothing`.
- `erase_subject_control_data` deletes the outbox without the delivery gate; the
  erasure of an unbound capture skips settlement; `create_capture` refuses
  `erasing` and not `erased`; a grant may be used again after its meeting was
  deleted.

## Not modelled, and the plan

Out of a model checker's reach or without decisions to get wrong: browser
automation and signal processing, the Kubernetes and process backends, the
gateway, identity,
clients, deployment, the formatting and reading side of transcripts and of the
ZAKI read API. The agent platform is a system of its own.

In this order:

1. The callback queue of the runtime: deliveries, pending store, the sweep
   nothing calls; and its durable cron (`RK/scheduler.py`).
2. `SpawnGuard`: several meetings of one user, the cap and its dedup window,
   planned rows and auto-join, a stop over a continued meeting.
3. `CaptureOutbox` with two drains, and a Hub that judges order.
4. Theorems: the refinement for several runs of a meeting, whose row tells one
   status for all of them; what a withdrawal leaves of `AnnouncedOnce`.
