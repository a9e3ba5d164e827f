------------------------- MODULE CaptureOutboxProofs -------------------------
(***************************************************************************)
(* Theorems about CaptureOutbox, for any number of recordings and drains   *)
(* at a time, any statuses a bot reports and any number of faults.         *)
(***************************************************************************)
EXTENDS CaptureOutbox, FiniteSetTheorems, SequenceTheorems, TLAPS

-----------------------------------------------------------------------------
(* Walks. *)

LEMMA AdjacencyType == \A s \in State : Adjacency[s] \subseteq State
  BY DEF Adjacency, State

LEMMA RecoveryStepsType == \A s \in State : RecoverySteps[s] \in Seq(State)
<1> SUFFICES ASSUME NEW s \in State PROVE RecoverySteps[s] \in Seq(State)
  OBVIOUS
<1>1. CASE s = "requested"
  BY <1>1 DEF RecoverySteps, State
<1>2. CASE s = "awaiting_admission"
  BY <1>2 DEF RecoverySteps, State
<1>3. CASE s = "active"
  BY <1>3 DEF RecoverySteps, State
<1>4. CASE s = "stopping"
  BY <1>4 DEF RecoverySteps, State
<1>5. CASE s = "completed"
  BY <1>5 DEF RecoverySteps, State
<1>6. CASE s \in {"joining", "failed"}
  <2>1. RecoverySteps[s] = <<s>>
    BY <1>6 DEF RecoverySteps, State
  <2> QED
    BY <2>1
<1> QED
  BY <1>1, <1>2, <1>3, <1>4, <1>5, <1>6 DEF State

LEMMA ShortType ==
  ASSUME NEW w \in SeqOf(State, 3)
  PROVE  w \in Seq(State) /\ Len(w) \in 0..3
<1>1. PICK m \in 0..3 : w \in [1..m -> State]
  BY DEF SeqOf
<1>2. w \in Seq(State)
  BY <1>1, SeqDef
<1>3. Len(w) = m
  BY <1>1, <1>2
<1> QED
  BY <1>2, <1>3

\* Where there is a walk, the legal path is one.
Walks(from, to) == {w \in SeqOf(State, 3) :
                      /\ Last(<<from>> \o w) = to
                      /\ \A i \in DOMAIN w : w[i] \in Adjacency[(<<from>> \o w)[i]]}

LEMMA LegalPathIsAWalk ==
  ASSUME NEW from \in State, NEW to \in State, Walks(from, to) # {}
  PROVE  LegalPath(from, to) \in Walks(from, to)
<1> DEFINE W == Walks(from, to)
<1>1. \A w \in W : w \in Seq(State) /\ Len(w) \in 0..3
  BY ShortType DEF Walks
<1>2. LegalPath(from, to) = CHOOSE w \in W : \A v \in W : Len(w) <= Len(v)
  BY DEF LegalPath, Walks
<1> HIDE DEF W
<1>3. \E w \in W : \A v \in W : Len(w) <= Len(v)
  <2>1. CASE \E w \in W : Len(w) = 0
    BY <1>1, <2>1
  <2>2. CASE (\A w \in W : Len(w) # 0) /\ \E w \in W : Len(w) = 1
    BY <1>1, <2>2
  <2>3. CASE (\A w \in W : Len(w) \notin {0, 1}) /\ \E w \in W : Len(w) = 2
    BY <1>1, <2>3
  <2>4. CASE \A w \in W : Len(w) \notin {0, 1, 2}
    BY <1>1, <2>4 DEF W
  <2> QED
    BY <2>1, <2>2, <2>3, <2>4
<1> QED
  BY <1>2, <1>3 DEF W

LEMMA WalkTypes ==
  ASSUME NEW from \in State, NEW to \in State, NEW w \in Walks(from, to)
  PROVE  w \in Seq(State) /\ (from # to => w # <<>>)
<1>1. w \in Seq(State)
  BY ShortType DEF Walks
<1>2. w = <<>> => Last(<<from>> \o w) = from
  BY DEF Last
<1> QED
  BY <1>1, <1>2 DEF Walks

LEMMA Reaches ==
  /\ \A s \in State \ Final : Walks(s, "stopping") # {}
  /\ Walks("stopping", "completed") # {}
<1>1. ASSUME NEW s \in State, NEW t \in State, t \in Adjacency[s]
      PROVE  <<t>> \in Walks(s, t)
  <2>1. <<t>> \in SeqOf(State, 3)
    BY DEF SeqOf
  <2>2. Last(<<s>> \o <<t>>) = t /\ (<<s>> \o <<t>>)[1] = s
    BY DEF Last
  <2>3. <<t>>[1] = t /\ DOMAIN <<t>> = {1}
    OBVIOUS
  <2> QED
    BY <1>1, <2>1, <2>2, <2>3 DEF Walks
<1>2. ASSUME NEW s \in State, NEW a \in Adjacency[s], NEW b \in Adjacency[a]
      PROVE  <<a, b>> \in Walks(s, b)
  <2>1. a \in State /\ b \in State
    BY AdjacencyType
  <2>2. <<a, b>> \in SeqOf(State, 3)
    BY <2>1 DEF SeqOf
  <2>3. Last(<<s>> \o <<a, b>>) = b /\ (<<s>> \o <<a, b>>)[1] = s /\ (<<s>> \o <<a, b>>)[2] = a
    BY DEF Last
  <2> QED
    BY <2>2, <2>3 DEF Walks
<1>3. ASSUME NEW s \in State, NEW a \in Adjacency[s], NEW b \in Adjacency[a],
             NEW c \in Adjacency[b]
      PROVE  <<a, b, c>> \in Walks(s, c)
  <2>1. a \in State /\ b \in State /\ c \in State
    BY AdjacencyType
  <2>2. <<a, b, c>> \in SeqOf(State, 3)
    BY <2>1 DEF SeqOf
  <2>3. /\ Last(<<s>> \o <<a, b, c>>) = c /\ (<<s>> \o <<a, b, c>>)[1] = s
        /\ (<<s>> \o <<a, b, c>>)[2] = a /\ (<<s>> \o <<a, b, c>>)[3] = b
    BY DEF Last
  <2> QED
    BY <2>2, <2>3 DEF Walks
<1>4. Walks("stopping", "stopping") # {}
  <2>1. <<>> \in SeqOf(State, 3)
    BY DEF SeqOf
  <2>2. Last(<<"stopping">> \o <<>>) = "stopping"
    BY DEF Last
  <2>3. DOMAIN <<>> = {}
    OBVIOUS
  <2> QED
    BY <2>1, <2>2, <2>3 DEF Walks
<1>5. /\ "joining" \in Adjacency["requested"] /\ "active" \in Adjacency["joining"]
      /\ "active" \in Adjacency["awaiting_admission"] /\ "stopping" \in Adjacency["active"]
      /\ "completed" \in Adjacency["stopping"]
  BY DEF Adjacency, State
<1>6. \A s \in State \ Final : s \in {"requested", "joining", "awaiting_admission", "active", "stopping"}
  BY DEF State, Final
<1> QED
  BY <1>1, <1>2, <1>3, <1>4, <1>5, <1>6 DEF State

\* The walk of an erasure has steps, and they are states.
LEMMA WithdrawalWalkType ==
  ASSUME NEW s \in State \ Final
  PROVE  WithdrawalWalk[s] \in Seq(State) /\ WithdrawalWalk[s] # <<>>
<1>1. "stopping" \in State /\ "completed" \in State
  BY DEF State
<1>2. LegalPath(s, "stopping") \in Seq(State)
  BY <1>1, Reaches, LegalPathIsAWalk, WalkTypes
<1>3. LegalPath("stopping", "completed") \in Seq(State) /\ LegalPath("stopping", "completed") # <<>>
  BY <1>1, Reaches, LegalPathIsAWalk, WalkTypes
<1>4. WithdrawalWalk[s] = LegalPath(s, "stopping") \o LegalPath("stopping", "completed")
  BY DEF WithdrawalWalk
<1> QED
  BY <1>2, <1>3, <1>4

-----------------------------------------------------------------------------
(* The queue. *)

\* What an insertion leaves: no event twice, and one event more at most.
LEMMA InsertType ==
  ASSUME NEW q \in Seq(Event), IsInjective(q), NEW e \in Event
  PROVE  /\ Insert(q, e) \in Seq(Event) /\ IsInjective(Insert(q, e))
         /\ ToSet(Insert(q, e)) = ToSet(q) \cup {e}
<1>1. CASE e \in ToSet(q)
  BY <1>1 DEF Insert
<1>2. CASE e \notin ToSet(q)
  <2>1. Insert(q, e) = Append(q, e)
    BY <1>2 DEF Insert
  <2>2. /\ Append(q, e) \in Seq(Event) /\ Len(Append(q, e)) = Len(q) + 1
        /\ DOMAIN Append(q, e) = 1..(Len(q) + 1) /\ DOMAIN q = 1..Len(q) /\ Len(q) \in Nat
        /\ Append(q, e)[Len(q) + 1] = e
        /\ \A i \in 1..Len(q) : Append(q, e)[i] = q[i]
    OBVIOUS
  <2>3. ToSet(Append(q, e)) = ToSet(q) \cup {e}
    BY <2>2 DEF ToSet
  <2>4. IsInjective(Append(q, e))
    <3> SUFFICES ASSUME NEW a \in DOMAIN Append(q, e), NEW b \in DOMAIN Append(q, e),
                        Append(q, e)[a] = Append(q, e)[b]
                 PROVE  a = b
      BY DEF IsInjective
    <3>1. \A i \in 1..Len(q) : q[i] # e
      BY <1>2, <2>2 DEF ToSet
    <3>2. CASE a \in 1..Len(q) /\ b \in 1..Len(q)
      BY <2>2, <3>2 DEF IsInjective
    <3>3. CASE a = Len(q) + 1 \/ b = Len(q) + 1
      BY <2>2, <3>1, <3>3
    <3> QED
      BY <2>2, <3>2, <3>3
  <2> QED
    BY <2>1, <2>2, <2>3, <2>4
<1> QED
  BY <1>1, <1>2

\* In a finite set of numbers the places are 1, 2, ...: some element has each.
LEMMA Places ==
  ASSUME NEW S, NEW n \in Nat, S \subseteq 1..n, NEW k \in 1..Cardinality(S)
  PROVE  \E i \in S : Cardinality({j \in S : j <= i}) = k
<1> DEFINE C == Cardinality(S)
           Upto(i) == {j \in S : j <= i}
           f == [i \in S |-> Cardinality(Upto(i))]
<1>1. IsFiniteSet(S) /\ C \in Nat
  <2>1. IsFiniteSet(1..n)
    BY FS_Interval
  <2>2. S \in SUBSET (1..n)
    OBVIOUS
  <2>3. IsFiniteSet(S)
    BY <2>1, <2>2, FS_Subset
  <2> QED
    BY <2>3, FS_CardinalityType
<1>2. \A i \in S : IsFiniteSet(Upto(i)) /\ Cardinality(Upto(i)) \in Nat /\ Cardinality(Upto(i)) <= C
  <2> SUFFICES ASSUME NEW i \in S
               PROVE  IsFiniteSet(Upto(i)) /\ Cardinality(Upto(i)) \in Nat /\ Cardinality(Upto(i)) <= C
    OBVIOUS
  <2>1. Upto(i) \in SUBSET S
    OBVIOUS
  <2> QED
    BY <1>1, <2>1, FS_Subset, FS_CardinalityType
<1>3. \A i \in S : Cardinality(Upto(i)) # 0
  <2> SUFFICES ASSUME NEW i \in S, Cardinality(Upto(i)) = 0 PROVE FALSE
    OBVIOUS
  <2>1. Upto(i) = {}
    BY <1>2, FS_EmptySet
  <2>2. i \in Upto(i)
    OBVIOUS
  <2> QED
    BY <2>1, <2>2
<1>4. f \in [S -> 1..C]
  BY <1>1, <1>2, <1>3
<1>5. ASSUME NEW a \in S, NEW b \in S, a < b PROVE f[a] # f[b]
  <2>1. Upto(a) \in SUBSET Upto(b)
    <3> SUFFICES ASSUME NEW j \in Upto(a) PROVE j \in Upto(b)
      OBVIOUS
    <3>1. j \in 1..n /\ a \in 1..n /\ b \in 1..n /\ j \in S /\ j <= a
      OBVIOUS
    <3>2. j <= b
      BY <1>5, <3>1
    <3> QED
      BY <3>1, <3>2
  <2>2. b \in Upto(b) /\ b \notin Upto(a)
    BY <1>5
  <2>3. Upto(a) # Upto(b)
    BY <2>2
  <2> HIDE DEF Upto
  <2> QED
    BY <1>2, <2>1, <2>3, FS_Subset
<1>6. f \in Injection(S, 1..C)
  <2>1. ASSUME NEW a \in S, NEW b \in S, f[a] = f[b] PROVE a = b
    <3>1. a \in Nat /\ b \in Nat
      OBVIOUS
    <3>2. ~(a < b) /\ ~(b < a)
      BY <1>5, <2>1
    <3> QED
      BY <3>1, <3>2
  <2> QED
    BY <1>4, <2>1 DEF Injection, IsInjective
<1>7. IsFiniteSet(1..C) /\ Cardinality(1..C) = C
  BY <1>1, FS_Interval
<1>8. f \in Surjection(S, 1..C)
  BY <1>6, <1>7, FS_Injection
<1>9. PICK i \in S : f[i] = k
  BY <1>8 DEF Surjection
<1> QED
  BY <1>9

\* A batch is made of events of the queue.
LEMMA PendingType ==
  ASSUME outbox.queue \in Seq(Event)
  PROVE  Pending \in Seq(Event)
<1> DEFINE P(k) == CHOOSE i \in Open : Cardinality({j \in Open : j <= i}) = k
<1>1. Len(outbox.queue) \in Nat /\ DOMAIN outbox.queue = 1..Len(outbox.queue)
  OBVIOUS
<1>2. Open \subseteq 1..Len(outbox.queue)
  BY <1>1 DEF Open
<1>3. IsFiniteSet(Open) /\ Cardinality(Open) \in Nat
  <2>1. IsFiniteSet(1..Len(outbox.queue))
    BY <1>1, FS_Interval
  <2>2. Open \in SUBSET (1..Len(outbox.queue))
    BY <1>2
  <2>3. IsFiniteSet(Open)
    BY <2>1, <2>2, FS_Subset
  <2> QED
    BY <2>3, FS_CardinalityType
<1>4. ASSUME NEW k \in 1..Cardinality(Open) PROVE P(k) \in Open
  <2>1. \E i \in Open : Cardinality({j \in Open : j <= i}) = k
    BY <1>1, <1>2, Places
  <2> QED
    BY <2>1
<1> HIDE DEF P
<1>5. \A k \in 1..Cardinality(Open) : outbox.queue[P(k)] \in Event
  <2>1. \A i \in 1..Len(outbox.queue) : outbox.queue[i] \in Event
    OBVIOUS
  <2> QED
    BY <1>2, <1>4, <2>1
<1>6. Pending = [k \in 1..Cardinality(Open) |-> outbox.queue[P(k)]]
  BY DEF Pending, P
<1>7. Pending \in [1..Cardinality(Open) -> Event]
  BY <1>5, <1>6
<1> QED
  BY <1>3, <1>7, SeqDef

-----------------------------------------------------------------------------
(* The invariant. *)

Rows ==
  /\ row \in [status : State \cup {"gone"}, lobby : BOOLEAN]
  /\ crowded \in BOOLEAN /\ faults \in 0..MaxFaults

\* A recording that is about to write has a step to write.
Recordings ==
  /\ task \in [Tasks -> TaskRecord]
  /\ \A t \in Tasks : task[t].pc \in {"write", "withdraw"} => task[t].path # <<>>

\* A drain at work has an event to post, and the answer it has yet to judge is
\* what the Hub said.
Judged(d) ==
  /\ drain[d].pc # "idle" => drain[d].batch # <<>>
  /\ drain[d].pc = "judge" /\ drain[d].answer = "ack" => Head(drain[d].batch) \in hub.took
  /\ drain[d].pc = "judge" /\ drain[d].answer = "refused" => hub.refused

Passes == drain \in [Drains -> DrainRecord] /\ \A d \in Drains : Judged(d)

Erasing == erase \in EraseRecord /\ (erase.pc = "emit" => erase.path # <<>>)

Records ==
  /\ capture \in [there : BOOLEAN, bound : BOOLEAN, state : State]
  /\ outbox \in [queue : Seq(Event), done : SUBSET Event]
  /\ hub \in [state : State, took : SUBSET Event, refused : BOOLEAN]

\* Nothing is queued twice, and what is done was queued.
Once == IsInjective(outbox.queue) /\ outbox.done \subseteq ToSet(outbox.queue)

\* An end is queued with the usage of the capture.
Paired == ToSet(outbox.queue) \cap Final # {} => Usage \in ToSet(outbox.queue)

\* The Hub has the usage, or said that it never will.
Told == Usage \in hub.took \/ hub.refused

Settled ==
  /\ Usage \in outbox.done => Told
  /\ ~capture.there => outbox.queue = <<>> /\ Told

Book == Records /\ Once /\ Paired /\ Settled

Inv == Rows /\ Recordings /\ Passes /\ Erasing /\ Book

-----------------------------------------------------------------------------
(* What a step writes. *)

LEMMA SameBook ==
  ASSUME Book, UNCHANGED <<capture, outbox, hub>>
  PROVE  Book'
  BY DEF Book, Records, Once, Paired, Settled, Told

LEMMA SamePasses ==
  ASSUME Passes, UNCHANGED <<drain, hub>>
  PROVE  Passes'
  BY DEF Passes, Judged

LEMMA TaskSet ==
  ASSUME Recordings, NEW t \in Tasks, NEW r \in TaskRecord,
         r.pc \in {"write", "withdraw"} => r.path # <<>>,
         task' = [task EXCEPT ![t] = r]
  PROVE  Recordings'
  BY DEF Recordings

LEMMA DrainSet ==
  ASSUME Passes, NEW d \in Drains, NEW r \in DrainRecord,
         drain' = [drain EXCEPT ![d] = r],
         hub.took \subseteq hub'.took, hub.refused => hub'.refused,
         r.pc # "idle" => r.batch # <<>>,
         r.pc = "judge" /\ r.answer = "ack" => Head(r.batch) \in hub'.took,
         r.pc = "judge" /\ r.answer = "refused" => hub'.refused
  PROVE  Passes'
<1>1. drain' \in [Drains -> DrainRecord]
  BY DEF Passes
<1>2. drain'[d] = r
  BY DEF Passes
<1>3. ASSUME NEW c \in Drains PROVE Judged(c)'
  <2>1. CASE c = d
    BY <1>2, <2>1 DEF Judged
  <2>2. CASE c # d
    <3>1. drain'[c] = drain[c] /\ Judged(c)
      BY <2>2 DEF Passes
    <3> QED
      BY <3>1 DEF Judged
  <2> QED
    BY <2>1, <2>2
<1> QED
  BY <1>1, <1>3 DEF Passes

LEMMA Idle ==
  /\ NoTask \in TaskRecord /\ NoTask.pc = "idle"
  /\ NoDrain \in DrainRecord /\ NoDrain.pc = "idle"
<1>1. <<>> \in Seq(State) /\ <<>> \in Seq(Event)
  OBVIOUS
<1>2. "requested" \in State
  BY DEF State
<1> QED
  BY <1>1, <1>2 DEF NoTask, NoDrain, TaskRecord, DrainRecord

\* A recording leaves the books in order.
LEMMA TransitionKeeps ==
  ASSUME Book, NEW s \in State, Transition(s), UNCHANGED hub
  PROVE  Book'
<1>1. CASE ~capture.there
  BY <1>1, SameBook DEF Transition
<1>2. CASE capture.there
  <2> DEFINE q == outbox.queue
             n == IF s \in Final THEN Insert(Insert(q, s), Usage) ELSE Insert(q, s)
  <2>1. q \in Seq(Event) /\ IsInjective(q) /\ s \in Event /\ Usage \in Event
    BY DEF Book, Records, Once, Event
  <2>2. n \in Seq(Event) /\ IsInjective(n)
    BY <2>1, InsertType
  <2>3. ToSet(n) = ToSet(q) \cup {s} \cup (IF s \in Final THEN {Usage} ELSE {})
    BY <2>1, InsertType
  <2> HIDE DEF n
  <2>4. outbox' = [outbox EXCEPT !.queue = n] /\ capture' = [capture EXCEPT !.state = s]
    BY <1>2 DEF Transition, Enqueue, n
  <2>5. outbox'.queue = n /\ outbox'.done = outbox.done /\ capture'.there
    BY <1>2, <2>4 DEF Book, Records
  <2>6. Records'
    BY <2>2, <2>4 DEF Book, Records
  <2>7. Once'
    BY <2>2, <2>3, <2>5 DEF Book, Once
  <2>8. Paired'
    BY <2>3, <2>5 DEF Book, Paired
  <2>9. Settled'
    BY <2>5 DEF Book, Settled, Told
  <2> QED
    BY <2>6, <2>7, <2>8, <2>9 DEF Book
<1> QED
  BY <1>1, <1>2

LEMMA OverlayType ==
  ASSUME Rows, Book
  PROVE  Overlay \in State
  BY DEF Rows, Book, Records, Overlay

LEMMA HubStateForType ==
  ASSUME NEW r \in [status : State, lobby : BOOLEAN]
  PROVE  HubStateFor(r) \in State
<1>1. r.status \in State /\ "failed" \in State
  BY DEF State
<1> QED
  BY <1>1 DEF HubStateFor

LEMMA WithdrawnType ==
  ASSUME Rows
  PROVE  Withdrawn \in [status : State \cup {"gone"}, lobby : BOOLEAN]
<1>1. "stopping" \in State
  BY DEF State
<1> QED
  BY <1>1 DEF Rows, Withdrawn, RowAt

-----------------------------------------------------------------------------
(* The steps. *)

LEMMA InitInv == ASSUME Init PROVE Inv
<1>1. "requested" \in State /\ <<>> \in Seq(State) /\ <<>> \in Seq(Event) /\ ToSet(<<>>) = {}
  BY DEF State, ToSet
<1>2. Rows
  <2>1. row \in [status : State \cup {"gone"}, lobby : BOOLEAN]
    BY <1>1 DEF Init
  <2>2. crowded \in BOOLEAN
    BY DEF Init
  <2>3. faults \in 0..MaxFaults
    BY BoundsAssumption DEF Init
  <2> QED
    BY <2>1, <2>2, <2>3 DEF Rows
<1>3. Recordings
  BY Idle DEF Init, Recordings
<1>4. Passes
  BY Idle DEF Init, Passes, Judged
<1>5. Erasing
  BY <1>1 DEF Init, Erasing, EraseRecord, NotErasing
<1>6. Records
  BY <1>1 DEF Init, Records
<1>7. Once
  BY <1>1 DEF Init, Once, IsInjective
<1>8. Paired /\ Settled
  BY <1>1 DEF Init, Paired, Settled
<1> QED
  BY <1>2, <1>3, <1>4, <1>5, <1>6, <1>7, <1>8 DEF Inv, Book

LEMMA FaultKeeps ==
  ASSUME Rows, UNCHANGED <<row, crowded>>, Fault
  PROVE  Rows'
  BY BoundsAssumption DEF Rows, Fault

LEMMA RecordingOf ==
  ASSUME Recordings, NEW t \in Tasks
  PROVE  /\ task[t] \in TaskRecord /\ task[t].path \in Seq(State)
         /\ task[t].seen \in State
  BY DEF Recordings, TaskRecord

LEMMA TaskReadKeeps == ASSUME Inv, NEW t \in Tasks, TaskRead(t) PROVE Inv'
<1> DEFINE r == IF task[t].path # <<>> /\ capture.there /\ capture.bound
                THEN [task[t] EXCEPT !.pc = "write", !.seen = Overlay] ELSE NoTask
<1>1. task' = [task EXCEPT ![t] = r]
  BY DEF TaskRead
<1>2. r \in TaskRecord /\ (r.pc \in {"write", "withdraw"} => r.path # <<>>)
  <2>1. CASE task[t].path # <<>> /\ capture.there /\ capture.bound
    BY <2>1, RecordingOf, OverlayType DEF Inv, TaskRecord
  <2>2. CASE ~(task[t].path # <<>> /\ capture.there /\ capture.bound)
    BY <2>2, Idle
  <2> QED
    BY <2>1, <2>2
<1> HIDE DEF r
<1>3. Recordings'
  BY <1>1, <1>2, TaskSet DEF Inv
<1>4. Book' /\ Passes'
  BY SameBook, SamePasses DEF Inv, TaskRead
<1>5. Rows' /\ Erasing'
  BY DEF Inv, TaskRead, Rows, Erasing
<1> QED
  BY <1>3, <1>4, <1>5 DEF Inv

LEMMA TaskWriteKeeps == ASSUME Inv, NEW t \in Tasks, TaskWrite(t) PROVE Inv'
<1> DEFINE step == Head(task[t].path)
           rest == Tail(task[t].path)
           r == IF rest = <<>> THEN NoTask ELSE [NoTask EXCEPT !.pc = "read", !.path = rest]
<1>1. task' = [task EXCEPT ![t] = r]
  BY DEF TaskWrite
<1>2. task[t].path \in Seq(State) /\ task[t].path # <<>>
  BY RecordingOf DEF Inv, Recordings, TaskWrite
<1>3. step \in State /\ rest \in Seq(State)
  BY <1>2
<1>4. r \in TaskRecord /\ r.pc \notin {"write", "withdraw"}
  <2>1. CASE rest = <<>>
    BY <2>1, Idle
  <2>2. CASE rest # <<>>
    BY <2>2, <1>3, Idle DEF TaskRecord, NoTask
  <2> QED
    BY <2>1, <2>2
<1>5. Recordings'
  BY <1>1, <1>4, TaskSet DEF Inv
<1>6. Book'
  <2>1. CASE step = task[t].seen \/ step \in Adjacency[task[t].seen]
    <3>1. Transition(step) /\ UNCHANGED hub
      BY <2>1 DEF TaskWrite
    <3> QED
      BY <1>3, <3>1, TransitionKeeps DEF Inv
  <2>2. CASE ~(step = task[t].seen \/ step \in Adjacency[task[t].seen])
    BY <2>2, SameBook DEF Inv, TaskWrite
  <2> QED
    BY <2>1, <2>2
<1>7. Passes'
  BY SamePasses DEF Inv, TaskWrite
<1>8. Rows' /\ Erasing'
  BY DEF Inv, TaskWrite, Rows, Erasing
<1> QED
  BY <1>5, <1>6, <1>7, <1>8 DEF Inv

LEMMA TaskFailsKeeps == ASSUME Inv, NEW t \in Tasks, TaskFails(t) PROVE Inv'
<1>1. Recordings'
  BY Idle, TaskSet DEF Inv, TaskFails
<1>2. Book' /\ Passes'
  BY SameBook, SamePasses DEF Inv, TaskFails
<1>3. Rows'
  BY FaultKeeps DEF Inv, TaskFails
<1>4. Erasing'
  BY DEF Inv, TaskFails, Erasing
<1> QED
  BY <1>1, <1>2, <1>3, <1>4 DEF Inv

\* What sets a recording off: it is to read first, and its steps are states.
LEMMA ToRead ==
  ASSUME NEW p \in Seq(State)
  PROVE  LET r == [NoTask EXCEPT !.pc = "read", !.path = p]
         IN  r \in TaskRecord /\ r.pc = "read"
  BY Idle DEF NoTask, TaskRecord

LEMMA AdvanceKeeps == ASSUME Inv, NEW t \in Tasks, Advance(t) PROVE Inv'
<1>1. row' \in [status : State, lobby : BOOLEAN]
  <2>1. row.status \in State /\ row.lobby \in BOOLEAN
    BY DEF Inv, Rows, Advance
  <2>2. Adjacency[row.status] \subseteq State /\ "completed" \in State
    BY <2>1, AdjacencyType DEF State
  <2>3. CASE row' \in {RowAt(s, FALSE) : s \in Adjacency[row.status] \cap (Stages \cup Final)}
    <3>1. PICK s \in Adjacency[row.status] \cap (Stages \cup Final) : row' = RowAt(s, FALSE)
      BY <2>3
    <3> QED
      BY <2>2, <3>1 DEF RowAt
  <2>4. CASE row' \in {RowAt("completed", l) : l \in IF row.status \in PreActive THEN {TRUE} ELSE {row.lobby, FALSE}}
    <3>1. PICK l \in IF row.status \in PreActive THEN {TRUE} ELSE {row.lobby, FALSE} :
            row' = RowAt("completed", l)
      BY <2>4
    <3>2. l \in BOOLEAN
      BY <2>1
    <3> QED
      BY <2>2, <3>1, <3>2 DEF RowAt
  <2> QED
    BY <2>3, <2>4 DEF Advance, NextRow
<1> DEFINE p == <<HubStateFor(row')>>
           r == [NoTask EXCEPT !.pc = "read", !.path = p]
<1>2. p \in Seq(State)
  BY <1>1, HubStateForType
<1>3. task' = [task EXCEPT ![t] = r]
  BY DEF Advance
<1>4. Recordings'
  <2>1. r \in TaskRecord /\ r.pc = "read"
    BY <1>2, ToRead
  <2> HIDE DEF r
  <2> QED
    BY <1>3, <2>1, TaskSet DEF Inv
<1>5. Book' /\ Passes'
  BY SameBook, SamePasses DEF Inv, Advance
<1>6. Rows'
  BY <1>1 DEF Inv, Rows, Advance
<1>7. Erasing'
  BY DEF Inv, Advance, Erasing
<1> QED
  BY <1>4, <1>5, <1>6, <1>7 DEF Inv

LEMMA UserStopKeeps == ASSUME Inv, UserStop PROVE Inv'
<1>1. Rows'
  BY DEF Inv, Rows, UserStop, RowAt, State
<1>2. Book' /\ Passes'
  BY SameBook, SamePasses DEF Inv, UserStop
<1>3. Recordings' /\ Erasing'
  BY DEF Inv, UserStop, Recordings, Erasing
<1> QED
  BY <1>1, <1>2, <1>3 DEF Inv

LEMMA CrowdKeeps == ASSUME Inv, Crowd \/ Clear PROVE Inv'
<1>1. Rows'
  <2>1. UNCHANGED row /\ crowded' \in BOOLEAN
    BY DEF Crowd, Clear
  <2>2. faults' \in 0..MaxFaults
    BY BoundsAssumption DEF Inv, Rows, Crowd, Clear, Fault
  <2> QED
    BY <2>1, <2>2 DEF Inv, Rows
<1>2. Book' /\ Passes'
  BY SameBook, SamePasses DEF Inv, Crowd, Clear
<1>3. Recordings' /\ Erasing'
  BY DEF Inv, Crowd, Clear, Recordings, Erasing
<1> QED
  BY <1>1, <1>2, <1>3 DEF Inv

LEMMA StopReadKeeps == ASSUME Inv, NEW t \in Tasks, StopRead(t) PROVE Inv'
<1> DEFINE r == [pc |-> "withdraw", path |-> <<"stopping">>, seen |-> Overlay]
<1>1. r \in TaskRecord /\ r.path # <<>>
  <2>1. "stopping" \in State /\ Overlay \in State
    BY OverlayType DEF Inv, State
  <2> QED
    BY <2>1 DEF TaskRecord
<1>2. task' = [task EXCEPT ![t] = r]
  BY DEF StopRead
<1> HIDE DEF r
<1>3. Recordings'
  BY <1>1, <1>2, TaskSet DEF Inv
<1>4. Book' /\ Passes'
  BY SameBook, SamePasses DEF Inv, StopRead
<1>5. Rows' /\ Erasing'
  BY DEF Inv, StopRead, Rows, Erasing
<1> QED
  BY <1>3, <1>4, <1>5 DEF Inv

LEMMA StopWithdrawKeeps == ASSUME Inv, NEW t \in Tasks, StopWithdraw(t) PROVE Inv'
<1> DEFINE r == IF row.status = "gone" THEN NoTask ELSE [task[t] EXCEPT !.pc = "write"]
<1>1. task' = [task EXCEPT ![t] = r]
  BY DEF StopWithdraw
<1>2. task[t] \in TaskRecord /\ task[t].path # <<>>
  BY RecordingOf DEF Inv, Recordings, StopWithdraw
<1>3. r \in TaskRecord /\ (r.pc \in {"write", "withdraw"} => r.path # <<>>)
  <2>1. CASE row.status = "gone"
    BY <2>1, Idle
  <2>2. CASE row.status # "gone"
    BY <1>2, <2>2 DEF TaskRecord
  <2> QED
    BY <2>1, <2>2
<1> HIDE DEF r
<1>4. Recordings'
  BY <1>1, <1>3, TaskSet DEF Inv
<1>5. Book' /\ Passes'
  BY SameBook, SamePasses DEF Inv, StopWithdraw
<1>6. Rows'
  BY WithdrawnType DEF Inv, StopWithdraw, Rows
<1>7. Erasing'
  BY DEF Inv, StopWithdraw, Erasing
<1> QED
  BY <1>4, <1>5, <1>6, <1>7 DEF Inv

\* The walk of a recovery.
LEMMA RecoveryOf ==
  ASSUME Rows, row.status # "gone"
  PROVE  RecoverySteps[HubStateFor(row)] \in Seq(State)
<1>1. row \in [status : State, lobby : BOOLEAN]
  BY DEF Rows
<1> QED
  BY <1>1, HubStateForType, RecoveryStepsType

LEMMA BindKeeps == ASSUME Inv, NEW t \in Tasks, Bind(t) PROVE Inv'
<1> DEFINE r == [NoTask EXCEPT !.pc = "read", !.path = RecoverySteps[HubStateFor(row)]]
<1>1. r \in TaskRecord /\ r.pc = "read"
  BY RecoveryOf, ToRead DEF Inv, Bind
<1>2. task' = [task EXCEPT ![t] = r] \/ task' = task
  BY DEF Bind
<1> HIDE DEF r
<1>3. Recordings'
  <2>1. CASE task' = [task EXCEPT ![t] = r]
    BY <1>1, <2>1, TaskSet DEF Inv
  <2>2. CASE task' = task
    BY <2>2 DEF Inv, Recordings
  <2> QED
    BY <1>2, <2>1, <2>2
<1>4. Book'
  <2>1. capture' = [capture EXCEPT !.bound = TRUE, !.state = "requested"] /\ UNCHANGED <<outbox, hub>>
    BY DEF Bind
  <2>2. "requested" \in State
    BY DEF State
  <2>3. Records' /\ capture'.there = capture.there
    BY <2>1, <2>2 DEF Inv, Book, Records
  <2> QED
    BY <2>1, <2>3 DEF Inv, Book, Once, Paired, Settled, Told
<1>5. Passes'
  BY SamePasses DEF Inv, Bind
<1>6. Rows' /\ Erasing'
  BY DEF Inv, Bind, Rows, Erasing
<1> QED
  BY <1>3, <1>4, <1>5, <1>6 DEF Inv

LEMMA ReconcileKeeps == ASSUME Inv, NEW t \in Tasks, Reconcile(t) PROVE Inv'
<1> DEFINE r == [NoTask EXCEPT !.pc = "read", !.path = RecoverySteps[HubStateFor(row)]]
<1>1. r \in TaskRecord /\ r.pc = "read"
  BY RecoveryOf, ToRead DEF Inv, Reconcile, NeedsReconciliation
<1>2. task' = [task EXCEPT ![t] = r]
  BY DEF Reconcile
<1> HIDE DEF r
<1>3. Recordings'
  BY <1>1, <1>2, TaskSet DEF Inv
<1>4. Book' /\ Passes'
  BY SameBook, SamePasses DEF Inv, Reconcile
<1>5. Rows' /\ Erasing'
  BY DEF Inv, Reconcile, Rows, Erasing
<1> QED
  BY <1>3, <1>4, <1>5 DEF Inv

LEMMA DrainOf ==
  ASSUME Passes, NEW d \in Drains
  PROVE  drain[d] \in DrainRecord /\ Judged(d)
  BY DEF Passes

LEMMA DrainReadKeeps == ASSUME Inv, NEW d \in Drains, DrainRead(d) PROVE Inv'
<1> DEFINE r == [pc |-> "post", batch |-> Pending, answer |-> "none"]
<1>1. r \in DrainRecord /\ r.batch # <<>> /\ r.pc = "post"
  BY PendingType DEF Inv, Book, Records, DrainRead, DrainRecord
<1>2. drain' = [drain EXCEPT ![d] = r]
  BY DEF DrainRead
<1> HIDE DEF r
<1>3. Passes'
  <2>1. hub' = hub
    BY DEF DrainRead
  <2> QED
    BY <1>1, <1>2, <2>1, DrainSet DEF Inv
<1>4. Book'
  BY SameBook DEF Inv, DrainRead
<1>5. Rows' /\ Recordings' /\ Erasing'
  BY DEF Inv, DrainRead, Rows, Recordings, Erasing
<1> QED
  BY <1>3, <1>4, <1>5 DEF Inv

\* What the Hub took it keeps, and what it refused it goes on refusing.
LEMMA HubKeeps ==
  ASSUME Book, UNCHANGED <<capture, outbox>>,
         hub' \in [state : State, took : SUBSET Event, refused : BOOLEAN],
         hub.took \subseteq hub'.took, hub.refused => hub'.refused
  PROVE  Book'
<1>1. Told => Told'
  BY DEF Told
<1> QED
  BY <1>1 DEF Book, Records, Once, Paired, Settled

\* An answer of the Hub.
LEMMA AnswerKeeps ==
  ASSUME Inv, NEW d \in Drains, drain[d].pc = "post",
         NEW a \in {"ack", "409", "lost", "refused"}, Answered(d, a),
         hub' \in [state : State, took : SUBSET Event, refused : BOOLEAN],
         hub.took \subseteq hub'.took, hub.refused => hub'.refused,
         a = "ack" => Head(drain[d].batch) \in hub'.took, a = "refused" => hub'.refused
  PROVE  Passes'
<1> DEFINE r == [drain[d] EXCEPT !.pc = "judge", !.answer = a]
<1>1. drain[d] \in DrainRecord /\ drain[d].batch # <<>>
  BY DrainOf DEF Inv, Judged
<1>2. /\ r \in DrainRecord /\ r.pc = "judge" /\ r.answer = a /\ r.batch = drain[d].batch
  BY <1>1 DEF DrainRecord
<1>3. drain' = [drain EXCEPT ![d] = r]
  BY <1>1 DEF Answered, DrainRecord
<1> HIDE DEF r
<1> QED
  BY <1>1, <1>2, <1>3, DrainSet DEF Inv

LEMMA HubTakesType ==
  ASSUME Book, NEW e \in Event, HubTakes(e)
  PROVE  /\ hub' \in [state : State, took : SUBSET Event, refused : BOOLEAN]
         /\ hub.took \subseteq hub'.took /\ hub'.refused = hub.refused /\ e \in hub'.took
<1>1. hub \in [state : State, took : SUBSET Event, refused : BOOLEAN]
  BY DEF Book, Records
<1> DEFINE n == IF e \in hub.took \cup {Usage} THEN hub.state ELSE e
<1>2. n \in State
  BY <1>1 DEF Event
<1> HIDE DEF n
<1>3. hub' = [hub EXCEPT !.state = n, !.took = @ \cup {e}]
  BY DEF HubTakes, n
<1> QED
  BY <1>1, <1>2, <1>3

LEMMA DrainPostKeeps == ASSUME Inv, NEW d \in Drains, DrainPost(d) PROVE Inv'
<1> DEFINE e == Head(drain[d].batch)
           H == [state : State, took : SUBSET Event, refused : BOOLEAN]
<1>1. drain[d].pc = "post" /\ UNCHANGED <<row, capture, outbox, task, erase, crowded>>
  BY DEF DrainPost
<1>2. e \in Event
  BY <1>1, DrainOf DEF Inv, Judged, DrainRecord
<1>3. hub \in H
  BY DEF Inv, Book, Records
<1>4. /\ hub' \in H /\ hub.took \subseteq hub'.took /\ (hub.refused => hub'.refused)
      /\ Passes' /\ (UNCHANGED faults \/ Fault)
  <2>1. CASE HubTakes(e) /\ Answered(d, "ack") /\ UNCHANGED faults
    BY <1>1, <1>2, <2>1, HubTakesType, AnswerKeeps DEF Inv
  <2>2. CASE Answered(d, "409") /\ UNCHANGED <<hub, faults>>
    BY <1>1, <1>3, <2>2, AnswerKeeps
  <2>3. CASE HubTakes(e) /\ Answered(d, "lost") /\ Fault
    BY <1>1, <1>2, <2>3, HubTakesType, AnswerKeeps DEF Inv
  <2>4. CASE Answered(d, "lost") /\ Fault /\ UNCHANGED hub
    BY <1>1, <1>3, <2>4, AnswerKeeps
  <2>5. CASE Answered(d, "409") /\ Fault /\ UNCHANGED hub
    BY <1>1, <1>3, <2>5, AnswerKeeps
  <2>6. CASE hub' = [hub EXCEPT !.refused = TRUE] /\ Answered(d, "refused") /\ Fault
    <3>1. hub' \in H /\ hub'.took = hub.took /\ hub'.refused
      BY <1>3, <2>6
    <3> QED
      BY <1>1, <2>6, <3>1, AnswerKeeps
  <2> QED
    BY <2>1, <2>2, <2>3, <2>4, <2>5, <2>6 DEF DrainPost
<1>5. Book'
  BY <1>1, <1>4, HubKeeps DEF Inv
<1>6. Rows'
  BY <1>1, <1>4, FaultKeeps DEF Inv, Rows
<1>7. Recordings' /\ Erasing'
  BY <1>1 DEF Inv, Recordings, Erasing
<1> QED
  BY <1>4, <1>5, <1>6, <1>7 DEF Inv

LEMMA DrainJudgeKeeps == ASSUME Inv, NEW d \in Drains, DrainJudge(d) PROVE Inv'
<1> DEFINE e == Head(drain[d].batch)
           rest == Tail(drain[d].batch)
           closed == \/ drain[d].answer \in {"ack", "refused"}
                     \/ drain[d].answer = "409" /\ Conflict409IsFinal(e)
           r == IF closed /\ rest # <<>> THEN [pc |-> "post", batch |-> rest, answer |-> "none"]
                ELSE NoDrain
<1>1. drain[d].pc = "judge" /\ UNCHANGED <<row, capture, hub, task, erase, crowded, faults>>
  BY DEF DrainJudge
<1>2. drain[d] \in DrainRecord /\ Judged(d)
  BY DrainOf DEF Inv
<1>3. e \in Event /\ rest \in Seq(Event)
  BY <1>1, <1>2 DEF Judged, DrainRecord
<1>4. r \in DrainRecord /\ r.pc # "judge" /\ (r.pc # "idle" => r.batch # <<>>)
  <2>1. CASE closed /\ rest # <<>>
    BY <1>3, <2>1 DEF DrainRecord
  <2>2. CASE ~(closed /\ rest # <<>>)
    BY <2>2, Idle
  <2> QED
    BY <2>1, <2>2
<1>5. drain' = [drain EXCEPT ![d] = r]
  BY DEF DrainJudge
<1>6. Passes'
  <2> HIDE DEF r
  <2> QED
    BY <1>1, <1>4, <1>5, DrainSet DEF Inv
<1>7. closed /\ e = Usage => Told
  BY <1>1, <1>2 DEF Judged, Told, Conflict409IsFinal
<1>8. Book'
  <2>1. CASE closed /\ e \in ToSet(outbox.queue)
    <3> HIDE DEF closed, e
    <3>1. outbox' = [outbox EXCEPT !.done = @ \cup {e}]
      BY <2>1 DEF DrainJudge, closed, e
    <3>2. Records' /\ outbox'.queue = outbox.queue /\ outbox'.done = outbox.done \cup {e}
      BY <1>1, <1>3, <3>1 DEF Inv, Book, Records
    <3>3. Once' /\ Paired'
      BY <2>1, <3>2 DEF Inv, Book, Once, Paired
    <3>4. Settled'
      BY <1>1, <1>7, <2>1, <3>2 DEF Inv, Book, Settled, Told
    <3> QED
      BY <3>2, <3>3, <3>4 DEF Book
  <2>2. CASE ~(closed /\ e \in ToSet(outbox.queue))
    <3>1. UNCHANGED outbox
      BY <2>2 DEF DrainJudge
    <3> QED
      BY <1>1, <3>1, SameBook DEF Inv
  <2> QED
    BY <2>1, <2>2
<1>9. Rows' /\ Recordings' /\ Erasing'
  BY <1>1 DEF Inv, Rows, Recordings, Erasing
<1> QED
  BY <1>6, <1>8, <1>9 DEF Inv

LEMMA DrainDiesKeeps == ASSUME Inv, NEW d \in Drains, DrainDies(d) PROVE Inv'
<1>1. Passes'
  <2>1. hub' = hub /\ drain' = [drain EXCEPT ![d] = NoDrain]
    BY DEF DrainDies
  <2> QED
    BY <2>1, Idle, DrainSet DEF Inv
<1>2. Book'
  BY SameBook DEF Inv, DrainDies
<1>3. Rows'
  BY FaultKeeps DEF Inv, DrainDies
<1>4. Recordings' /\ Erasing'
  BY DEF Inv, DrainDies, Recordings, Erasing
<1> QED
  BY <1>1, <1>2, <1>3, <1>4 DEF Inv

-----------------------------------------------------------------------------
(* The erasure. *)

LEMMA EraseBeginKeeps == ASSUME Inv, EraseBegin PROVE Inv'
<1>1. \E pc \in {"withdraw", "settle", "finalize"} : EraseTo(pc)
  BY DEF EraseBegin
<1>2. Erasing'
  BY <1>1 DEF Inv, Erasing, EraseTo, EraseRecord
<1>3. Book' /\ Passes'
  BY SameBook, SamePasses DEF Inv, EraseBegin
<1>4. Rows' /\ Recordings'
  BY DEF Inv, EraseBegin, Rows, Recordings
<1> QED
  BY <1>2, <1>3, <1>4 DEF Inv

LEMMA EraseWithdrawKeeps == ASSUME Inv, EraseWithdraw PROVE Inv'
<1>1. \E pc \in {"retry", "settle"} : EraseTo(pc)
  BY DEF EraseWithdraw
<1>2. Erasing'
  BY <1>1 DEF Inv, Erasing, EraseTo, EraseRecord
<1>3. Book' /\ Passes'
  BY SameBook, SamePasses DEF Inv, EraseWithdraw
<1>4. Rows'
  BY WithdrawnType DEF Inv, EraseWithdraw, Rows
<1>5. Recordings'
  BY DEF Inv, EraseWithdraw, Recordings
<1> QED
  BY <1>2, <1>3, <1>4, <1>5 DEF Inv

LEMMA EraseSettleKeeps == ASSUME Inv, EraseSettle PROVE Inv'
<1> DEFINE p == IF Overlay \in Final THEN <<Overlay>> ELSE WithdrawalWalk[Overlay]
<1>1. p \in Seq(State) /\ p # <<>>
  <2>1. Overlay \in State
    BY OverlayType DEF Inv
  <2>2. CASE Overlay \in Final
    BY <2>1, <2>2
  <2>3. CASE Overlay \notin Final
    BY <2>1, <2>3, WithdrawalWalkType
  <2> QED
    BY <2>2, <2>3
<1>2. erase' = [erase EXCEPT !.pc = "emit", !.path = p]
  BY DEF EraseSettle
<1> HIDE DEF p
<1>3. Erasing'
  BY <1>1, <1>2 DEF Inv, Erasing, EraseRecord
<1>4. Book' /\ Passes'
  BY SameBook, SamePasses DEF Inv, EraseSettle
<1>5. Rows' /\ Recordings'
  BY DEF Inv, EraseSettle, Rows, Recordings
<1> QED
  BY <1>3, <1>4, <1>5 DEF Inv

LEMMA EraseEmitKeeps == ASSUME Inv, EraseEmit PROVE Inv'
<1> DEFINE rest == Tail(erase.path)
<1>1. erase \in EraseRecord /\ erase.path \in Seq(State) /\ erase.path # <<>>
  BY DEF Inv, Erasing, EraseRecord, EraseEmit
<1>2. Head(erase.path) \in State /\ rest \in Seq(State)
  BY <1>1
<1>3. erase' = [erase EXCEPT !.path = rest, !.pc = IF rest = <<>> THEN "gate" ELSE "emit"]
  BY DEF EraseEmit
<1>4. Erasing'
  <2> HIDE DEF rest
  <2> QED
    BY <1>1, <1>2, <1>3 DEF Erasing, EraseRecord
<1>5. Book'
  BY <1>2, TransitionKeeps DEF Inv, EraseEmit
<1>6. Passes'
  BY SamePasses DEF Inv, EraseEmit
<1>7. Rows' /\ Recordings'
  BY DEF Inv, EraseEmit, Rows, Recordings
<1> QED
  BY <1>4, <1>5, <1>6, <1>7 DEF Inv

LEMMA EraseRawKeeps == ASSUME Inv, EraseRaw PROVE Inv'
<1>1. \E pc \in {"retry", "checkpoint"} : EraseTo(pc)
  BY DEF EraseRaw
<1>2. Erasing'
  BY <1>1 DEF Inv, Erasing, EraseTo, EraseRecord
<1>3. Book' /\ Passes'
  BY SameBook, SamePasses DEF Inv, EraseRaw
<1>4. Rows'
  <2>1. row' = row \/ row' = [status |-> "gone", lobby |-> FALSE]
    BY DEF EraseRaw, RowAt
  <2>2. UNCHANGED <<crowded, faults>>
    BY DEF EraseRaw
  <2>3. row' \in [status : State \cup {"gone"}, lobby : BOOLEAN]
    <3>1. CASE row' = row
      BY <3>1 DEF Inv, Rows
    <3>2. CASE row' = [status |-> "gone", lobby |-> FALSE]
      BY <3>2
    <3> QED
      BY <2>1, <3>1, <3>2
  <2> QED
    BY <2>2, <2>3 DEF Inv, Rows
<1>5. Recordings'
  BY DEF Inv, EraseRaw, Recordings
<1> QED
  BY <1>2, <1>3, <1>4, <1>5 DEF Inv

LEMMA EraseCheckpointKeeps == ASSUME Inv, EraseCheckpoint PROVE Inv'
<1>1. Erasing'
  BY DEF Inv, EraseCheckpoint, Erasing, EraseRecord
<1>2. Book' /\ Passes'
  BY SameBook, SamePasses DEF Inv, EraseCheckpoint
<1>3. Rows' /\ Recordings'
  BY DEF Inv, EraseCheckpoint, Rows, Recordings
<1> QED
  BY <1>1, <1>2, <1>3 DEF Inv

\* The gate: an end that is done was queued with a usage that is done as well.
LEMMA GateIsTold ==
  ASSUME Book, TerminalsDelivered
  PROVE  Told
<1>1. Usage \in ToSet(outbox.queue)
  BY DEF Book, Paired, TerminalsDelivered, TerminalEvents
<1> QED
  BY <1>1 DEF Book, Settled, TerminalsDelivered, TerminalEvents

LEMMA EraseFinalizeKeeps == ASSUME Inv, EraseFinalize PROVE Inv'
<1>1. \E pc \in {"retry", "done"} : EraseTo(pc)
  BY DEF EraseFinalize
<1>2. Erasing'
  BY <1>1 DEF Inv, Erasing, EraseTo, EraseRecord
<1>3. Book'
  <2>1. CASE TerminalsDelivered
    <3>1. /\ capture' = [capture EXCEPT !.there = FALSE]
          /\ outbox' = [queue |-> <<>>, done |-> {}] /\ UNCHANGED hub
      BY <2>1 DEF EraseFinalize
    <3>2. Told /\ <<>> \in Seq(Event) /\ ToSet(<<>>) = {}
      BY <2>1, GateIsTold DEF Inv, ToSet
    <3>3. Records'
      BY <3>1, <3>2 DEF Inv, Book, Records
    <3>4. Once' /\ Paired' /\ Settled'
      BY <3>1, <3>2 DEF Once, IsInjective, Paired, Settled, Told
    <3> QED
      BY <3>3, <3>4 DEF Book
  <2>2. CASE ~TerminalsDelivered
    BY <2>2, SameBook DEF Inv, EraseFinalize
  <2> QED
    BY <2>1, <2>2
<1>4. Passes'
  BY SamePasses DEF Inv, EraseFinalize
<1>5. Rows' /\ Recordings'
  BY DEF Inv, EraseFinalize, Rows, Recordings
<1> QED
  BY <1>2, <1>3, <1>4, <1>5 DEF Inv

LEMMA EraseFailsKeeps == ASSUME Inv, EraseFails PROVE Inv'
<1>1. Erasing'
  <2>1. erase \in EraseRecord /\ <<>> \in Seq(State)
    BY DEF Inv, Erasing
  <2>2. erase' = [erase EXCEPT !.pc = "retry", !.path = <<>>]
    BY DEF EraseFails
  <2>3. erase' \in EraseRecord /\ erase'.pc = "retry"
    BY <2>1, <2>2 DEF EraseRecord
  <2> QED
    BY <2>3 DEF Erasing
<1>2. Book' /\ Passes'
  BY SameBook, SamePasses DEF Inv, EraseFails
<1>3. Rows'
  BY FaultKeeps DEF Inv, EraseFails
<1>4. Recordings'
  BY DEF Inv, EraseFails, Recordings
<1> QED
  BY <1>1, <1>2, <1>3, <1>4 DEF Inv

-----------------------------------------------------------------------------
(* Theorems. *)

LEMMA StepInv == ASSUME Inv, [Next]_vars PROVE Inv'
<1>1. CASE UserStop \/ Crowd \/ Clear
  BY <1>1, UserStopKeeps, CrowdKeeps
<1>2. ASSUME NEW t \in Tasks,
             \/ TaskRead(t) \/ TaskWrite(t) \/ TaskFails(t)
             \/ Advance(t) \/ StopRead(t) \/ StopWithdraw(t) \/ Bind(t) \/ Reconcile(t)
      PROVE  Inv'
  BY <1>2, TaskReadKeeps, TaskWriteKeeps, TaskFailsKeeps, AdvanceKeeps, StopReadKeeps,
     StopWithdrawKeeps, BindKeeps, ReconcileKeeps
<1>3. ASSUME NEW d \in Drains, DrainRead(d) \/ DrainPost(d) \/ DrainJudge(d) \/ DrainDies(d)
      PROVE  Inv'
  BY <1>3, DrainReadKeeps, DrainPostKeeps, DrainJudgeKeeps, DrainDiesKeeps
<1>4. CASE EraseBegin \/ EraseWithdraw \/ EraseSettle \/ EraseEmit
  BY <1>4, EraseBeginKeeps, EraseWithdrawKeeps, EraseSettleKeeps, EraseEmitKeeps
<1>5. CASE EraseRaw \/ EraseCheckpoint \/ EraseFinalize \/ EraseFails
  BY <1>5, EraseRawKeeps, EraseCheckpointKeeps, EraseFinalizeKeeps, EraseFailsKeeps
<1>6. CASE UNCHANGED vars
  <2>1. Book' /\ Passes'
    BY <1>6, SameBook, SamePasses DEF Inv, vars
  <2>2. Rows' /\ Recordings' /\ Erasing'
    BY <1>6 DEF Inv, vars, Rows, Recordings, Erasing
  <2> QED
    BY <2>1, <2>2 DEF Inv
<1> QED
  BY <1>1, <1>2, <1>3, <1>4, <1>5, <1>6 DEF Next

LEMMA Always == Spec => []Inv
<1>1. Init => Inv
  BY InitInv
<1>2. Inv /\ [Next]_vars => Inv'
  BY StepInv
<1> QED
  BY <1>1, <1>2, PTL DEF Spec

\* The rows, the Hub, every recording, drain and erasure under way keep their types,
\* however many there are: no event of the capture is queued twice
\* (record_capture_transition).
THEOREM QueuedOnce == Spec => []TypeOK
<1>1. Inv => TypeOK
  <2> SUFFICES ASSUME Inv PROVE TypeOK
    OBVIOUS
  <2>1. ToSet(outbox.queue) \subseteq Event
    BY DEF Inv, Book, Records, ToSet
  <2> QED
    BY <2>1 DEF Inv, Rows, Recordings, Passes, Erasing, Book, Records, Once, TypeOK
<1> QED
  BY <1>1, Always, PTL

\* A capture is deleted only when the Hub has taken its usage, or has refused it for
\* good; of its other events this says nothing (_withdraw_for_erasure, terminal_callbacks_delivered).
THEOREM ErasureWaitsForTheHub == Spec => []SettledBeforeErased
<1>1. Inv => SettledBeforeErased
  BY DEF Inv, Book, Settled, Told, SettledBeforeErased
<1> QED
  BY <1>1, Always, PTL

\* Nothing is queued for a capture that is deleted, and nothing comes to be: no
\* recording that read it before writes an event after (record_capture_transition,
\* finalize_erased_capture).  A drain that read its batch before may still post it.
THEOREM ErasedSaysNothing == Spec => []NothingAfterErasure
<1>1. Inv => NothingAfterErasure
  BY DEF Inv, Book, Settled, NothingAfterErasure
<1> QED
  BY <1>1, Always, PTL
=============================================================================
