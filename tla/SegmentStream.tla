---------------------------- MODULE SegmentStream ----------------------------
(***************************************************************************)
(* The Redis stream "transcription_segments" and its consumer group, as    *)
(* the replicas of meeting-api work on it: every replica reads, ingests    *)
(* and acknowledges, probes for a group that ran ahead of its stream, and  *)
(* now and then takes over what a dead replica left pending and prunes     *)
(* dead consumer names; one replica at a time trims what has aged          *)
(* (collector/ingest.py, db_writer.py, adapters.py RedisStreamBus).        *)
(* One action is one Redis command or one ingested entry.                  *)
(*                                                                         *)
(* Bots append entries 1, 2, ...; what an entry says is left out.          *)
(***************************************************************************)
EXTENDS Naturals, FiniteSets, FiniteSetsExt

CONSTANTS Consumers,  \* consumer names, one per replica
          MaxEntries, \* entries the bots append
          Batch,      \* the COUNT of a read and of a claim
          Strikes,    \* GROUP_DESYNC_CONFIRM_TICKS
          MaxFaults   \* deaths, ingests that raise and streams recreated

ASSUME BoundsAssumption ==
  /\ {MaxEntries, Batch, Strikes} \subseteq Nat \ {0}
  /\ MaxFaults \in Nat

VARIABLES
  added,    \* entries appended so far
  retained, \* entries the stream still holds
  cursor,   \* the group's last-delivered-id
  pel,      \* pel[i]: the consumer entry i is pending for
  known,    \* consumers the group lists
  loop,     \* the segment consumer loops
  trimmer,  \* the retention trim at the end of the db-writer tick
  aged,     \* the newest entry past STREAM_RETENTION_S
  ingested, \* history: entries ingested, or refused by the write barrier
  raced,    \* history: entries a sweep took after it had decided to, delivered meanwhile
  faults    \* deaths, failures and desyncs so far

vars == <<added, retained, cursor, pel, known, loop, trimmer, aged, ingested,
          raced, faults>>

-----------------------------------------------------------------------------
Entries == 1 .. MaxEntries
NoOne == "no one"

ASSUME NoOneAssumption == NoOne \notin Consumers

\* The cursor of a group that outlived its stream: entries-read > entries-added.
Ahead == MaxEntries + 1

\* A loop: where it is, the batch in hand, where it goes after the
\* acknowledgement, the healer's strikes, the ghosts to prune and what was
\* delivered since they were listed.
Idle == [pc |-> "idle", batch |-> {}, acks |-> {}, then |-> "idle",
         strikes |-> 0, ghosts |-> {}, since |-> {}]
Down == [Idle EXCEPT !.pc = "down"]
Resting == [pc |-> "idle", floor |-> 0, since |-> {}]

Pcs == {"down", "idle", "ingest", "ack", "probe", "reset", "reclaim", "list", "prune"}

Pending == {i \in Entries : pel[i] # NoOne}
PendingOf(c) == {i \in Entries : pel[i] = c}
Undelivered == {i \in retained : i > cursor}

\* The first n members of a set of entries, oldest first.
Oldest(S, n) == {i \in S : Cardinality({j \in S : j < i}) < n}

Init ==
  /\ added = 0 /\ retained = {} /\ cursor = 0 /\ aged = 0
  /\ pel = [i \in Entries |-> NoOne]
  /\ known = {}
  /\ loop = [c \in Consumers |-> Idle]
  /\ trimmer = Resting
  /\ ingested = {} /\ raced = {}
  /\ faults = 0

To(c, pc) == loop' = [loop EXCEPT ![c].pc = pc]

\* Entries S are delivered to c: every sweep under way has missed them.
DeliverTo(c, S, then) ==
  /\ known' = known \cup {c}
  /\ loop' = [d \in Consumers |->
       IF d = c
       THEN IF S = {} THEN [loop[c] EXCEPT !.pc = then]
            ELSE [loop[c] EXCEPT !.pc = "ingest", !.batch = S, !.then = then]
       ELSE [loop[d] EXCEPT !.since = IF loop[d].pc = "prune" THEN @ \cup S ELSE @]]
  /\ trimmer' = [trimmer EXCEPT !.since = IF trimmer.pc = "idle" THEN @ ELSE @ \cup S]

-----------------------------------------------------------------------------
(* The bots, the clock and what breaks. *)

Produce ==
  /\ added < MaxEntries
  /\ added' = added + 1
  /\ retained' = retained \cup {added + 1}
  /\ UNCHANGED <<cursor, pel, known, loop, trimmer, aged, ingested, raced, faults>>

\* An hour passes, which no desync outlives: the healers need two ticks.
Age ==
  /\ cursor # Ahead
  /\ \E i \in aged + 1 .. added : aged' = i
  /\ UNCHANGED <<added, retained, cursor, pel, known, loop, trimmer, ingested, raced, faults>>

\* The stream is trimmed away and recreated, and the group's counters stay.
Desync ==
  /\ faults < MaxFaults
  /\ cursor # Ahead /\ Undelivered = {}
  /\ cursor' = Ahead
  /\ faults' = faults + 1
  /\ UNCHANGED <<added, retained, pel, known, loop, trimmer, aged, ingested, raced>>

Crash(c) ==
  /\ faults < MaxFaults
  /\ loop[c].pc # "down"
  /\ loop' = [loop EXCEPT ![c] = Down]
  /\ faults' = faults + 1
  /\ UNCHANGED <<added, retained, cursor, pel, known, trimmer, aged, ingested, raced>>

Restart(c) ==
  /\ loop[c].pc = "down"
  /\ loop' = [loop EXCEPT ![c] = Idle]
  /\ UNCHANGED <<added, retained, cursor, pel, known, trimmer, aged, ingested, raced, faults>>

-----------------------------------------------------------------------------
(* One tick of the consumer loop. *)

\* consume_segments: XREADGROUP ">".
Read(c) ==
  /\ loop[c].pc = "idle"
  /\ LET S == Oldest(Undelivered, Batch) IN
       /\ DeliverTo(c, S, "probe")
       /\ pel' = [i \in Entries |-> IF i \in S THEN c ELSE pel[i]]
       /\ cursor' = IF S = {} THEN cursor ELSE Max(S)
  /\ UNCHANGED <<added, retained, aged, ingested, raced, faults>>

\* ingest of one entry, the batch oldest first; a refusal by the write barrier
\* consumes it as well.
Ingest(c) ==
  /\ loop[c].pc = "ingest"
  /\ LET i == Min(loop[c].batch) IN
       /\ ingested' = ingested \cup {i}
       /\ loop' = [loop EXCEPT
            ![c].batch = @ \ {i}, ![c].acks = @ \cup {i},
            ![c].pc = IF loop[c].batch = {i} THEN "ack" ELSE "ingest"]
  /\ UNCHANGED <<added, retained, cursor, pel, known, trimmer, aged, raced, faults>>

\* An ingest raises: the tick is over and none of the batch is acknowledged.
IngestFails(c) ==
  /\ loop[c].pc = "ingest"
  /\ faults < MaxFaults
  /\ faults' = faults + 1
  /\ loop' = [loop EXCEPT ![c] = [Idle EXCEPT !.strikes = loop[c].strikes]]
  /\ UNCHANGED <<added, retained, cursor, pel, known, trimmer, aged, ingested, raced>>

\* XACK, which takes an entry off the group whoever it is pending for.
Ack(c) ==
  /\ loop[c].pc = "ack"
  /\ pel' = [i \in Entries |-> IF i \in loop[c].acks THEN NoOne ELSE pel[i]]
  /\ loop' = [loop EXCEPT ![c] = [@ EXCEPT !.pc = loop[c].then, !.acks = {}, !.then = "idle"]]
  /\ UNCHANGED <<added, retained, cursor, known, trimmer, aged, ingested, raced, faults>>

\* Mutant of Desynced: only a group with something pending can be out of step.
DesyncedIfPending == retained # {} /\ Pending # {} /\ cursor = Ahead

\* GroupDesyncHealer.tick.
Desynced == retained # {} /\ Pending = {} /\ cursor = Ahead

Probe(c) ==
  /\ loop[c].pc = "probe"
  /\ LET strikes == IF Desynced THEN loop[c].strikes + 1 ELSE 0
     IN  loop' = [loop EXCEPT ![c] =
           [@ EXCEPT !.strikes = strikes,
                     !.pc = IF strikes = Strikes THEN "reset" ELSE "reclaim"]]
  /\ UNCHANGED <<added, retained, cursor, pel, known, trimmer, aged, ingested, raced, faults>>

\* XGROUP SETID 0.
Reset(c) ==
  /\ loop[c].pc = "reset"
  /\ cursor' = 0
  /\ loop' = [loop EXCEPT ![c] = [@ EXCEPT !.strikes = 0, !.pc = "reclaim"]]
  /\ UNCHANGED <<added, retained, pel, known, trimmer, aged, ingested, raced, faults>>

\* reclaim_segments: XAUTOCLAIM takes over the oldest entries idle for long
\* enough, and forgets those the stream no longer holds.  The ticks that do not
\* reclaim are those that find nothing idle, and no ghost after it.
Claim(c, idle) ==
  /\ loop[c].pc = "reclaim"
  /\ LET S == Oldest(idle, Batch) IN
       /\ DeliverTo(c, S \cap retained, "list")
       /\ pel' = [i \in Entries |->
            IF i \notin S THEN pel[i] ELSE IF i \in retained THEN c ELSE NoOne]
  /\ UNCHANGED <<added, retained, cursor, aged, ingested, raced, faults>>

Reclaim(c) == \E idle \in SUBSET Pending : Claim(c, idle)

\* Mutant of ListGhosts: a quiet consumer is a ghost, whatever it holds.
ListQuiet(c) ==
  /\ loop[c].pc = "list"
  /\ \E ghosts \in SUBSET {g \in known \ {c} : loop[g].pc = "down"} :
       loop' = [loop EXCEPT ![c] =
         [@ EXCEPT !.pc = IF ghosts = {} THEN "idle" ELSE "prune",
                   !.ghosts = ghosts, !.since = {}]]
  /\ UNCHANGED <<added, retained, cursor, pel, known, trimmer, aged, ingested, raced, faults>>

\* prune_idle_consumers: XINFO CONSUMERS, then DELCONSUMER for each ghost.
ListGhosts(c) ==
  /\ loop[c].pc = "list"
  /\ LET quiet == {g \in known \ {c} : PendingOf(g) = {} /\ loop[g].pc = "down"}
     IN \E ghosts \in SUBSET quiet :
          loop' = [loop EXCEPT ![c] =
            [@ EXCEPT !.pc = IF ghosts = {} THEN "idle" ELSE "prune",
                      !.ghosts = ghosts, !.since = {}]]
  /\ UNCHANGED <<added, retained, cursor, pel, known, trimmer, aged, ingested, raced, faults>>

\* DELCONSUMER forgets what is pending for the consumer along with its name.
Prune(c) ==
  /\ loop[c].pc = "prune"
  /\ \E g \in loop[c].ghosts :
       /\ known' = known \ {g}
       /\ raced' = raced \cup (PendingOf(g) \cap loop[c].since)
       /\ pel' = [i \in Entries |-> IF pel[i] = g THEN NoOne ELSE pel[i]]
       /\ loop' = [loop EXCEPT ![c] =
            IF loop[c].ghosts = {g} THEN [@ EXCEPT !.pc = "idle", !.ghosts = {}, !.since = {}]
            ELSE [@ EXCEPT !.ghosts = loop[c].ghosts \ {g}]]
  /\ UNCHANGED <<added, retained, cursor, trimmer, aged, ingested, faults>>

-----------------------------------------------------------------------------
(* _trim_segments_stream, under the single flight of the db-writer: three  *)
(* commands, and every one may be the last of a process that dies.         *)

Earlier(a, b) == IF a < b THEN a ELSE b

TrimPending ==
  /\ trimmer.pc = "idle"
  /\ trimmer' = [pc |-> "group", since |-> {},
                 floor |-> IF Pending = {} THEN aged + 1
                           ELSE Earlier(aged + 1, Min(Pending))]
  /\ UNCHANGED <<added, retained, cursor, pel, known, loop, aged, ingested, raced, faults>>

TrimGroup ==
  /\ trimmer.pc = "group"
  /\ trimmer' = [trimmer EXCEPT !.pc = "cut", !.floor = Earlier(@, cursor + 1)]
  /\ UNCHANGED <<added, retained, cursor, pel, known, loop, aged, ingested, raced, faults>>

\* XTRIM MINID ~: everything below the floor, or less.
TrimCut ==
  /\ trimmer.pc = "cut"
  /\ \E least \in 1 .. trimmer.floor :
       LET cut == {i \in retained : i < least} IN
         /\ retained' = retained \ cut
         /\ raced' = raced \cup (cut \cap trimmer.since)
  /\ trimmer' = Resting
  /\ UNCHANGED <<added, cursor, pel, known, loop, aged, ingested, faults>>

TrimCrash ==
  /\ faults < MaxFaults
  /\ trimmer.pc # "idle"
  /\ trimmer' = Resting
  /\ faults' = faults + 1
  /\ UNCHANGED <<added, retained, cursor, pel, known, loop, aged, ingested, raced>>

-----------------------------------------------------------------------------
LoopStep(c) ==
  \/ Read(c) \/ Ingest(c) \/ IngestFails(c) \/ Ack(c) \/ Probe(c) \/ Reset(c)
  \/ Reclaim(c) \/ ListGhosts(c) \/ Prune(c)

Trim == TrimPending \/ TrimGroup \/ TrimCut

Next ==
  \/ Produce \/ Age \/ Desync
  \/ \E c \in Consumers : LoopStep(c) \/ Crash(c) \/ Restart(c)
  \/ Trim \/ TrimCrash

Spec == Init /\ [][Next]_vars

\* The loops come round (500 ms) and a dead replica is restarted; sooner or later
\* all that is pending has been idle for RECLAIM_MIN_IDLE_MS when a loop reclaims.
Fairness ==
  \A c \in Consumers :
    /\ WF_vars(LoopStep(c))
    /\ WF_vars(Restart(c))
    /\ SF_vars(Claim(c, Pending))

FairSpec == Spec /\ Fairness

-----------------------------------------------------------------------------
TypeOK ==
  /\ added \in 0 .. MaxEntries /\ aged \in 0 .. added
  /\ retained \subseteq 1 .. added /\ ingested \subseteq 1 .. added
  /\ raced \subseteq 1 .. added
  /\ cursor \in 0 .. Ahead
  /\ pel \in [Entries -> Consumers \cup {NoOne}]
  /\ known \subseteq Consumers
  /\ loop \in [Consumers ->
       [pc : Pcs, batch : SUBSET Entries, acks : SUBSET Entries,
        then : {"idle", "probe", "list"}, strikes : 0 .. Strikes,
        ghosts : SUBSET Consumers, since : SUBSET Entries]]
  /\ trimmer \in [pc : {"idle", "group", "cut"}, floor : 0 .. Ahead, since : SUBSET Entries]
  /\ faults \in 0 .. MaxFaults

\* Somebody will still ingest entry i.
Reachable(i) ==
  \/ i \in retained /\ (pel[i] # NoOne \/ i > cursor \/ cursor = Ahead)
  \/ \E c \in Consumers : i \in loop[c].batch

\* At-least-once across replicas (ingest.py 312): whoever dies or raises
\* wherever, an entry is ingested or still to be had, unless it was delivered
\* just while the trim or a prune that had not seen it was under way.  (The types
\* hold meanwhile.)
LostOnlyToARace ==
  /\ TypeOK
  /\ \A i \in 1 .. added : i \in ingested \cup raced \/ Reachable(i)

\* Nothing is lost to the trim at all: db_writer.py 109, "NEVER past an entry the
\* collector group has not fully consumed".
NothingLost == \A i \in 1 .. added : i \in ingested \/ Reachable(i)

\* Every entry is ingested in the end.
EventuallyIngested ==
  \A i \in Entries : i <= added ~> i \in ingested \cup raced
=============================================================================
