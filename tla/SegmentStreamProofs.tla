------------------------- MODULE SegmentStreamProofs -------------------------
(***************************************************************************)
(* The segment stream hands every entry to somebody who ingests it, or to  *)
(* a sweep that took it in the moment between its look and its blow.       *)
(***************************************************************************)
EXTENDS SegmentStream, FiniteSetTheorems, TLAPS

-----------------------------------------------------------------------------
(* The least and the greatest of a set of entries, and the oldest of them.   *)

LEMMA LeastIn ==
  ASSUME NEW S \in SUBSET Nat, S # {}
  PROVE  Min(S) \in S /\ \A y \in S : Min(S) <= y
<1>1. \E x \in S : \A y \in S : x <= y
  <2> SUFFICES ASSUME \A x \in S : \E y \in S : y < x
               PROVE  FALSE
    OBVIOUS
  <2> DEFINE below == {n \in Nat : \A y \in S : n < y}
             next  == [n \in below |-> n + 1]
  <2>1. PICK t \in S : TRUE
    OBVIOUS
  <2>2. IsFiniteSet(below)
    BY <2>1, FS_BoundedSetOfNaturals
  <2>3. 0 \in below
    OBVIOUS
  <2>4. ASSUME NEW n \in below
        PROVE  n + 1 \in below
    <3>1. ASSUME NEW y \in S
          PROVE  n + 1 < y
      <4>1. PICK z \in S : z < y
        OBVIOUS
      <4> QED
        BY <4>1
    <3> QED
      BY <3>1
  <2>5. next \in Injection(below, below)
    BY <2>4 DEF Injection, IsInjective
  <2>6. next \in Surjection(below, below)
    BY <2>2, <2>5, FS_Injection
  <2>7. PICK n \in below : next[n] = 0
    BY <2>3, <2>6 DEF Surjection
  <2> QED
    BY <2>7
<1> QED
  BY <1>1 DEF Min

LEMMA GreatestIn ==
  ASSUME NEW n \in Nat, NEW S \in SUBSET (1 .. n), S # {}
  PROVE  Max(S) \in S /\ \A y \in S : y <= Max(S)
<1> DEFINE mirror == {k \in 0 .. n : n - k \in S}
<1>1. mirror \in SUBSET Nat /\ mirror # {}
  <2>1. PICK s \in S : TRUE
    OBVIOUS
  <2>2. s \in 1 .. n
    BY <2>1
  <2>3. n - s \in 0 .. n /\ n - (n - s) = s
    BY <2>2
  <2>4. n - s \in mirror
    BY <2>1, <2>3
  <2>5. mirror \in SUBSET Nat
    OBVIOUS
  <2> HIDE DEF mirror
  <2> QED
    BY <2>4, <2>5
<1>2. Min(mirror) \in mirror /\ \A k \in mirror : Min(mirror) <= k
  BY <1>1, LeastIn
<1>3. ASSUME NEW y \in S
      PROVE  y <= n - Min(mirror)
  <2>1. n - y \in mirror
    OBVIOUS
  <2> QED
    BY <1>2, <2>1
<1>4. n - Min(mirror) \in S
  BY <1>2
<1>5. \E x \in S : \A y \in S : x >= y
  BY <1>2, <1>3, <1>4
<1> QED
  BY <1>5 DEF Max

\* Whoever takes the oldest leaves nothing behind that is older.
LEMMA OldestFirst ==
  ASSUME NEW n \in Nat, NEW S \in SUBSET (1 .. n), NEW k \in Nat,
         NEW i \in S \ Oldest(S, k), NEW m \in Oldest(S, k)
  PROVE  m < i
<1> DEFINE Before(j) == {h \in S : h < j}
<1>1. IsFiniteSet(S)
  <2>1. IsFiniteSet(1 .. n)
    BY FS_Interval
  <2> QED
    BY <2>1, FS_Subset
<1>2. ~(Cardinality(Before(i)) < k) /\ Cardinality(Before(m)) < k /\ m \in S
  BY DEF Oldest
<1>3. SUFFICES ASSUME i <= m PROVE FALSE
  BY <1>2
<1>4. Before(i) \in SUBSET Before(m) /\ Before(m) \in SUBSET S
  <2>1. i \in Nat /\ m \in Nat /\ \A h \in S : h \in Nat
    BY <1>2
  <2>2. \A h \in S : h < i => h < m
    BY <1>3, <2>1
  <2> QED
    BY <2>2
<1> HIDE DEF Before
<1>5. IsFiniteSet(Before(m))
  BY <1>1, <1>4, FS_Subset
<1>6. Cardinality(Before(i)) <= Cardinality(Before(m)) /\ IsFiniteSet(Before(i))
  BY <1>4, <1>5, FS_Subset
<1>7. Cardinality(Before(i)) \in Nat /\ Cardinality(Before(m)) \in Nat
  BY <1>5, <1>6, FS_CardinalityType
<1> QED
  BY <1>2, <1>6, <1>7

-----------------------------------------------------------------------------
(* The invariant.  An entry is done with, or the stream still has it and     *)
(* somebody will be given it.                                                *)

Loop == [pc : Pcs, batch : SUBSET Entries, acks : SUBSET Entries,
         then : {"idle", "probe", "list"}, strikes : 0 .. Strikes,
         ghosts : SUBSET Consumers, since : SUBSET Entries]

Trimmer == [pc : {"idle", "group", "cut"}, floor : 0 .. Ahead, since : SUBSET Entries]

\* Nobody speaks of an entry before it was appended.
Appended ==
  /\ Pending \subseteq 1 .. added
  /\ \A c \in Consumers : loop[c].batch \subseteq 1 .. added
  /\ trimmer.floor <= aged + 1
  /\ cursor = Ahead \/ cursor <= added

Shape == TypeOK /\ Appended

Done(i)  == i \in ingested \cup raced
Taken(i) == i \in retained /\ pel[i] # NoOne

\* What a loop has in hand is pending, what it acknowledges is ingested, and a
\* ghost it is about to delete has nothing it has not seen arrive.
InStep(l) ==
  /\ l.pc = "ingest" => l.batch # {}
  /\ l.strikes = Strikes => l.pc = "reset"
  /\ l.acks \subseteq ingested
  /\ \A i \in l.batch : Done(i) \/ Taken(i)
  /\ l.pc = "prune" => \A g \in l.ghosts : PendingOf(g) \subseteq l.since

LoopsInStep == \A c \in Consumers : InStep(loop[c])

\* A group that ran ahead of its stream ignores only what has not aged.
YoungAhead ==
  cursor = Ahead => \A i \in retained : Done(i) \/ pel[i] # NoOne \/ i > aged

\* What the trim is about to cut was ingested, or delivered behind its back.
FloorSafe ==
  /\ trimmer.pc = "group" =>
       \A i \in retained : i < trimmer.floor => Done(i) \/ i \in trimmer.since \/ i > cursor
  /\ trimmer.pc = "cut" =>
       \A i \in retained : i < trimmer.floor => Done(i) \/ i \in trimmer.since

NoneLost ==
  \A i \in 1 .. added :
    Done(i) \/ (i \in retained /\ (pel[i] # NoOne \/ i > cursor \/ cursor = Ahead))

Inv == Shape /\ LoopsInStep /\ YoungAhead /\ FloorSafe /\ NoneLost

LEMMA InvInit == Init => Inv
<1> SUFFICES ASSUME Init PROVE Inv
  OBVIOUS
<1>1. MaxEntries \in Nat \ {0} /\ Strikes \in Nat \ {0} /\ MaxFaults \in Nat
  BY BoundsAssumption
<1>2. Shape
  BY <1>1 DEF Init, Shape, TypeOK, Appended, Pending, Idle, Resting, Ahead, Entries, Pcs
<1>3. LoopsInStep
  BY <1>1 DEF Init, LoopsInStep, InStep, Idle
<1>4. YoungAhead /\ FloorSafe /\ NoneLost
  BY <1>1 DEF Init, YoungAhead, FloorSafe, NoneLost, Resting
<1> QED
  BY <1>2, <1>3, <1>4 DEF Inv

\* A step that only moves one loop.
LEMMA LoopMoves ==
  ASSUME Inv, NEW c \in Consumers, NEW l \in Loop, InStep(l), l.batch \subseteq 1 .. added,
         loop' = [loop EXCEPT ![c] = l], faults' \in 0 .. MaxFaults,
         UNCHANGED <<added, retained, cursor, pel, known, trimmer, aged, ingested, raced>>
  PROVE  Inv'
<1>1. loop \in [Consumers -> Loop]
  BY DEF Inv, Shape, TypeOK, Loop
<1>2. \A d \in Consumers : loop'[d] = IF d = c THEN l ELSE loop[d]
  BY <1>1
<1>3. loop' \in [Consumers -> Loop]
  BY <1>1
<1>4. Shape'
  BY <1>2, <1>3 DEF Inv, Shape, TypeOK, Appended, Pending, Loop
<1>5. LoopsInStep'
  BY <1>2 DEF Inv, LoopsInStep, InStep, Done, Taken, PendingOf
<1>6. YoungAhead' /\ FloorSafe' /\ NoneLost'
  BY DEF Inv, YoungAhead, FloorSafe, NoneLost, Done
<1> QED
  BY <1>4, <1>5, <1>6 DEF Inv

\* A loop that a step leaves alone stays in step.
LEMMA StaysInStep ==
  ASSUME Inv, NEW d \in Consumers, loop'[d] = loop[d],
         ingested \subseteq ingested', raced \subseteq raced',
         \A i \in Entries : Taken(i) => Taken(i)' \/ Done(i)',
         \A g \in Consumers : PendingOf(g)' \subseteq PendingOf(g)
  PROVE  InStep(loop[d])'
<1>1. InStep(loop[d]) /\ loop[d] \in Loop
  BY DEF Inv, Shape, TypeOK, LoopsInStep, Loop
<1>2. \A i \in loop[d].batch : Done(i)' \/ Taken(i)'
  BY <1>1 DEF InStep, Done, Loop
<1>3. \A g \in loop[d].ghosts : g \in Consumers
  BY <1>1 DEF Loop
<1> HIDE DEF Taken, PendingOf
<1> QED
  BY <1>1, <1>2, <1>3 DEF InStep

-----------------------------------------------------------------------------
(* The bots, the clock and the desync.                                       *)

LEMMA NextProduce == Inv /\ Produce => Inv'
<1> SUFFICES ASSUME Inv, Produce PROVE Inv'
  OBVIOUS
<1>1. MaxEntries \in Nat \ {0} /\ added \in Nat /\ added' = added + 1 /\ added' \in 0 .. MaxEntries
  BY BoundsAssumption DEF Inv, Shape, TypeOK, Produce
<1>2. Shape'
  <2>1. TypeOK'
    BY <1>1 DEF Inv, Shape, TypeOK, Produce, Entries
  <2>2. Appended'
    BY <1>1 DEF Inv, Shape, TypeOK, Appended, Pending, Produce, Ahead
  <2> QED
    BY <2>1, <2>2 DEF Shape
<1>3. LoopsInStep'
  <2> SUFFICES ASSUME NEW d \in Consumers PROVE InStep(loop[d])'
    BY DEF LoopsInStep
  <2> QED
    BY StaysInStep DEF Produce, Taken, PendingOf
<1>4. added + 1 > aged /\ trimmer.floor <= aged + 1 /\ aged \in Nat /\ trimmer.floor \in Nat
  BY <1>1 DEF Inv, Shape, TypeOK, Appended, Ahead
<1>5. YoungAhead' /\ FloorSafe'
  BY <1>1, <1>4 DEF Inv, YoungAhead, FloorSafe, Done, Produce
<1>6. NoneLost'
  <2>1. cursor = Ahead \/ added + 1 > cursor
    BY <1>1 DEF Inv, Shape, TypeOK, Appended, Ahead
  <2> QED
    BY <1>1, <2>1 DEF Inv, NoneLost, Done, Produce
<1> QED
  BY <1>2, <1>3, <1>5, <1>6 DEF Inv

LEMMA NextAge == Inv /\ Age => Inv'
<1> SUFFICES ASSUME Inv, Age PROVE Inv'
  OBVIOUS
<1>1. added \in Nat /\ aged \in 0 .. added /\ aged' \in 0 .. added /\ aged' >= aged
  BY BoundsAssumption DEF Inv, Shape, TypeOK, Age
<1>2. Shape'
  <2>1. TypeOK'
    BY <1>1 DEF Inv, Shape, TypeOK, Age, Entries
  <2>2. trimmer.floor \in Nat
    BY BoundsAssumption DEF Inv, Shape, TypeOK, Ahead
  <2>3. Appended'
    BY <1>1, <2>2 DEF Inv, Shape, Appended, Pending, Age
  <2> QED
    BY <2>1, <2>3 DEF Shape
<1>3. LoopsInStep'
  <2> SUFFICES ASSUME NEW d \in Consumers PROVE InStep(loop[d])'
    BY DEF LoopsInStep
  <2> QED
    BY StaysInStep DEF Age, Taken, PendingOf
<1>4. YoungAhead' /\ FloorSafe' /\ NoneLost'
  BY DEF Inv, YoungAhead, FloorSafe, NoneLost, Done, Age
<1> QED
  BY <1>2, <1>3, <1>4 DEF Inv

LEMMA NextDesync == Inv /\ Desync => Inv'
<1> SUFFICES ASSUME Inv, Desync PROVE Inv'
  OBVIOUS
<1>1. /\ MaxEntries \in Nat /\ MaxFaults \in Nat /\ added \in 0 .. MaxEntries
      /\ cursor \in Nat /\ cursor # Ahead /\ cursor' = Ahead
      /\ faults' \in 0 .. MaxFaults
  BY BoundsAssumption DEF Inv, Shape, TypeOK, Desync, Ahead
<1>2. Shape'
  <2>1. TypeOK'
    BY <1>1 DEF Inv, Shape, TypeOK, Desync, Ahead
  <2>2. Appended'
    BY <1>1 DEF Inv, Shape, Appended, Pending, Desync
  <2> QED
    BY <2>1, <2>2 DEF Shape
<1>3. LoopsInStep'
  <2> SUFFICES ASSUME NEW d \in Consumers PROVE InStep(loop[d])'
    BY DEF LoopsInStep
  <2> QED
    BY StaysInStep DEF Desync, Taken, PendingOf
<1>4. \A i \in retained : ~(i > cursor) /\ i \in 1 .. added
  BY DEF Inv, Shape, TypeOK, Desync, Undelivered
<1>5. YoungAhead' /\ FloorSafe' /\ NoneLost'
  BY <1>1, <1>4 DEF Inv, YoungAhead, FloorSafe, NoneLost, Done, Desync
<1> QED
  BY <1>2, <1>3, <1>5 DEF Inv

-----------------------------------------------------------------------------
(* Reading and claiming: the entries are handed to a loop, and every sweep   *)
(* under way has them as missed.                                             *)

LEMMA Handed ==
  ASSUME Inv, NEW c \in Consumers, NEW S \in SUBSET retained, NEW then \in {"probe", "list"},
         loop[c].pc \in {"idle", "reclaim"}, DeliverTo(c, S, then),
         pel' \in [Entries -> Consumers \cup {NoOne}],
         \A i \in Entries : Taken(i) => Taken(i)',
         \A i \in S : pel'[i] # NoOne,
         \A g \in Consumers : PendingOf(g)' \subseteq PendingOf(g) \cup S,
         Pending' \subseteq 1 .. added,
         cursor' \in 0 .. Ahead, cursor' = Ahead \/ cursor' <= added,
         UNCHANGED <<added, retained, aged, ingested, raced, faults>>
  PROVE  /\ Shape' /\ LoopsInStep'
         /\ trimmer'.pc = trimmer.pc /\ trimmer'.floor = trimmer.floor
         /\ trimmer.pc # "idle" => trimmer'.since = trimmer.since \cup S
<1>1. /\ loop \in [Consumers -> Loop] /\ trimmer \in Trimmer
      /\ MaxEntries \in Nat /\ added \in 0 .. MaxEntries
      /\ S \subseteq 1 .. added /\ S \subseteq Entries
  BY BoundsAssumption DEF Inv, Shape, TypeOK, Loop, Trimmer, Entries
<1>2. trimmer' \in Trimmer /\ trimmer'.pc = trimmer.pc /\ trimmer'.floor = trimmer.floor
      /\ (trimmer.pc # "idle" => trimmer'.since = trimmer.since \cup S)
  BY <1>1 DEF DeliverTo, Trimmer
<1>3. ASSUME NEW d \in Consumers
      PROVE  /\ loop'[d] \in Loop /\ loop'[d].batch \subseteq 1 .. added
             /\ InStep(loop[d])'
  <2>1. /\ loop[d] \in Loop /\ InStep(loop[d]) /\ loop[d].batch \subseteq 1 .. added
        /\ loop[d].ghosts \subseteq Consumers /\ loop[d].batch \subseteq Entries
    BY <1>1 DEF Inv, Shape, Appended, LoopsInStep, Loop
  <2>2. \A i \in loop[d].batch : Done(i)' \/ Taken(i)'
    BY <2>1 DEF InStep, Done
  <2>3. CASE d = c /\ S = {}
    <3>1. loop'[d] = [loop[d] EXCEPT !.pc = then]
      BY <2>3 DEF DeliverTo
    <3> HIDE DEF Taken, Done
    <3> QED
      BY <2>1, <2>2, <2>3, <3>1 DEF InStep, Loop, Pcs
  <2>4. CASE d = c /\ S # {}
    <3>1. loop'[d] = [loop[d] EXCEPT !.pc = "ingest", !.batch = S, !.then = then]
      BY <2>4 DEF DeliverTo
    <3>2. \A i \in S : Taken(i)'
      BY DEF Taken
    <3>3. /\ loop'[d] \in Loop /\ loop'[d].batch = S /\ loop'[d].pc = "ingest"
          /\ loop'[d].acks = loop[d].acks /\ loop'[d].strikes = loop[d].strikes
      BY <1>1, <2>1, <3>1 DEF Loop, Pcs
    <3>4. loop[d].strikes # Strikes /\ loop[d].acks \subseteq ingested
      BY <2>1, <2>4 DEF InStep
    <3> HIDE DEF Taken, Done
    <3> QED
      BY <1>1, <2>4, <3>2, <3>3, <3>4 DEF InStep
  <2>5. CASE d # c /\ loop[d].pc = "prune"
    <3>1. loop'[d] = [loop[d] EXCEPT !.since = @ \cup S]
      BY <2>5 DEF DeliverTo
    <3>2. \A g \in loop[d].ghosts : PendingOf(g)' \subseteq loop[d].since \cup S
      BY <2>1, <2>5 DEF InStep
    <3>3. /\ loop'[d] \in Loop /\ loop'[d].since = loop[d].since \cup S
          /\ loop'[d].batch = loop[d].batch /\ loop'[d].pc = "prune"
          /\ loop'[d].acks = loop[d].acks /\ loop'[d].strikes = loop[d].strikes
          /\ loop'[d].ghosts = loop[d].ghosts
      BY <1>1, <2>1, <2>5, <3>1 DEF Loop
    <3>4. loop[d].strikes # Strikes /\ loop[d].acks \subseteq ingested
      BY <2>1, <2>5 DEF InStep
    <3> HIDE DEF Taken, Done, PendingOf
    <3> QED
      BY <2>1, <2>2, <3>2, <3>3, <3>4 DEF InStep
  <2>6. CASE d # c /\ loop[d].pc # "prune"
    <3>1. loop'[d] = loop[d]
      BY <2>1, <2>6 DEF DeliverTo, Loop
    <3> HIDE DEF Taken, Done, PendingOf
    <3> QED
      BY <2>1, <2>2, <2>6, <3>1 DEF InStep
  <2> QED
    BY <2>3, <2>4, <2>5, <2>6
<1>4. loop' \in [Consumers -> Loop]
  BY <1>3 DEF DeliverTo
<1>5. TypeOK'
  BY <1>2, <1>4 DEF Inv, Shape, TypeOK, Loop, Trimmer, DeliverTo
<1>6. Appended'
  BY <1>2, <1>3 DEF Inv, Shape, Appended
<1> QED
  BY <1>2, <1>3, <1>5, <1>6 DEF Shape, LoopsInStep

LEMMA NextRead == ASSUME Inv, NEW c \in Consumers, Read(c) PROVE Inv'
<1> DEFINE S == Oldest(Undelivered, Batch)
<1>1. /\ DeliverTo(c, S, "probe") /\ loop[c].pc = "idle"
      /\ pel' = [i \in Entries |-> IF i \in S THEN c ELSE pel[i]]
      /\ cursor' = IF S = {} THEN cursor ELSE Max(S)
      /\ UNCHANGED <<added, retained, aged, ingested, raced, faults>>
  BY DEF Read
<1>2. /\ MaxEntries \in Nat /\ added \in 0 .. MaxEntries /\ added \in Nat
      /\ Batch \in Nat
      /\ Undelivered \in SUBSET (1 .. added) /\ S \in SUBSET Undelivered
      /\ S \in SUBSET (1 .. added)
      /\ retained \subseteq 1 .. added
      /\ pel \in [Entries -> Consumers \cup {NoOne}] /\ cursor \in 0 .. Ahead
      /\ 1 .. added \subseteq Entries
  <2>1. /\ MaxEntries \in Nat /\ added \in 0 .. MaxEntries /\ added \in Nat
        /\ Batch \in Nat /\ retained \subseteq 1 .. added
        /\ pel \in [Entries -> Consumers \cup {NoOne}] /\ cursor \in 0 .. Ahead
        /\ 1 .. added \subseteq Entries
    BY BoundsAssumption DEF Inv, Shape, TypeOK, Entries
  <2>2. S \in SUBSET Undelivered
    BY DEF Oldest
  <2>3. Undelivered \in SUBSET (1 .. added)
    BY <2>1 DEF Undelivered
  <2> HIDE DEF S
  <2>4. S \in SUBSET (1 .. added)
    BY <2>2, <2>3
  <2> QED
    BY <2>1, <2>2, <2>3, <2>4
<1>3. S \subseteq retained /\ \A i \in S : i > cursor
  BY <1>2 DEF Undelivered
<1>4. \A i \in retained : i > cursor => i \in S \/ i > cursor'
  <2>1. SUFFICES ASSUME NEW i \in retained, i > cursor, i \notin S, S # {}
                 PROVE  i > Max(S)
    BY <1>1
  <2>2. \A m \in S : m < i
    <3>1. i \in Undelivered \ Oldest(Undelivered, Batch)
      BY <2>1 DEF Undelivered
    <3>2. Undelivered \in SUBSET (1 .. added) /\ added \in Nat /\ Batch \in Nat
      BY <1>2
    <3> QED
      BY <3>1, <3>2, OldestFirst
  <2> HIDE DEF S
  <2>3. Max(S) \in S
    BY <1>2, <2>1, GreatestIn
  <2>4. Max(S) < i
    BY <2>2, <2>3
  <2> QED
    BY <1>2, <2>3, <2>4
<1>5. /\ cursor' \in 0 .. Ahead /\ (cursor' = Ahead \/ cursor' <= added)
      /\ cursor' = Ahead => cursor = Ahead
  <2>1. CASE S = {}
    BY <1>1, <2>1 DEF Inv, Shape, TypeOK, Appended
  <2>2. CASE S # {}
    <3> HIDE DEF S
    <3>1. Max(S) \in 1 .. added
      BY <1>2, <2>2, GreatestIn
    <3>2. cursor' \in 1 .. added
      BY <1>1, <2>2, <3>1
    <3> QED
      BY <1>2, <3>2 DEF Ahead
  <2> QED
    BY <2>1, <2>2
<1>6. c # NoOne /\ c \in Consumers
  BY NoOneAssumption
<1> HIDE DEF S
<1>7. /\ pel' \in [Entries -> Consumers \cup {NoOne}]
      /\ \A i \in Entries : pel'[i] = IF i \in S THEN c ELSE pel[i]
  BY <1>1, <1>2
<1>8. /\ \A i \in Entries : Taken(i) => Taken(i)'
      /\ \A i \in S : pel'[i] # NoOne
      /\ \A g \in Consumers : PendingOf(g)' \subseteq PendingOf(g) \cup S
      /\ Pending' \subseteq 1 .. added
  BY <1>1, <1>2, <1>6, <1>7 DEF Taken, PendingOf, Pending, Inv, Shape, Appended
<1>9. /\ Shape' /\ LoopsInStep'
      /\ trimmer'.pc = trimmer.pc /\ trimmer'.floor = trimmer.floor
      /\ trimmer.pc # "idle" => trimmer'.since = trimmer.since \cup S
  <2>1. S \in SUBSET retained /\ "probe" \in {"probe", "list"} /\ loop[c].pc \in {"idle", "reclaim"}
    BY <1>1, <1>3
  <2> QED
    BY <1>1, <1>5, <1>7, <1>8, <2>1, Handed
<1>10. \A i \in retained : i \in Entries /\ (pel[i] # NoOne => pel'[i] # NoOne)
  BY <1>2, <1>6, <1>7
<1>11. YoungAhead'
  BY <1>1, <1>5, <1>10 DEF Inv, YoungAhead, Done
<1>12. FloorSafe'
  BY <1>1, <1>4, <1>9 DEF Inv, FloorSafe, Done
<1>13. NoneLost'
  <2> SUFFICES ASSUME NEW i \in 1 .. added
               PROVE  Done(i)' \/ (i \in retained /\ (pel'[i] # NoOne \/ i > cursor' \/ cursor' = Ahead))
    BY <1>1 DEF NoneLost
  <2>1. CASE Done(i)
    BY <1>1, <2>1 DEF Done
  <2>2. CASE i \in retained /\ (pel[i] # NoOne \/ i > cursor)
    BY <1>4, <1>8, <1>10, <2>2
  <2>3. CASE cursor = Ahead /\ i \in retained
    <3>1. S = {}
      BY <1>2, <1>3, <2>3 DEF Ahead
    <3> QED
      BY <1>1, <2>3, <3>1
  <2> QED
    BY <2>1, <2>2, <2>3 DEF Inv, NoneLost
<1> QED
  BY <1>9, <1>11, <1>12, <1>13 DEF Inv

LEMMA NextClaim ==
  ASSUME Inv, NEW c \in Consumers, NEW idle \in SUBSET Pending, Claim(c, idle)
  PROVE  Inv'
<1> DEFINE S == Oldest(idle, Batch)
<1>1. /\ DeliverTo(c, S \cap retained, "list") /\ loop[c].pc = "reclaim"
      /\ pel' = [i \in Entries |->
            IF i \notin S THEN pel[i] ELSE IF i \in retained THEN c ELSE NoOne]
      /\ UNCHANGED <<added, retained, cursor, aged, ingested, raced, faults>>
  BY DEF Claim
<1>2. /\ MaxEntries \in Nat /\ added \in 0 .. MaxEntries
      /\ S \subseteq Pending /\ Pending \subseteq 1 .. added /\ retained \subseteq 1 .. added
      /\ pel \in [Entries -> Consumers \cup {NoOne}]
      /\ 1 .. added \subseteq Entries
      /\ cursor \in 0 .. Ahead /\ (cursor = Ahead \/ cursor <= added)
  <2>1. S \subseteq Pending
    BY DEF Oldest
  <2> HIDE DEF S
  <2> QED
    BY BoundsAssumption, <2>1 DEF Inv, Shape, TypeOK, Appended, Entries
<1>3. c # NoOne /\ c \in Consumers
  BY NoOneAssumption
<1> HIDE DEF S
<1>4. /\ pel' \in [Entries -> Consumers \cup {NoOne}]
      /\ \A i \in Entries : pel'[i] = IF i \notin S THEN pel[i]
                                      ELSE IF i \in retained THEN c ELSE NoOne
  BY <1>1, <1>2
<1>5. /\ \A i \in Entries : Taken(i) => Taken(i)'
      /\ \A i \in S \cap retained : pel'[i] # NoOne
      /\ \A g \in Consumers : PendingOf(g)' \subseteq PendingOf(g) \cup (S \cap retained)
      /\ Pending' \subseteq 1 .. added
  <2>1. Pending' \subseteq Pending
    BY <1>2, <1>4 DEF Pending
  <2>2. \A g \in Consumers : g # NoOne
    BY NoOneAssumption
  <2> QED
    BY <1>1, <1>2, <1>3, <1>4, <2>1, <2>2 DEF Taken, PendingOf
<1>6. /\ Shape' /\ LoopsInStep'
      /\ trimmer'.pc = trimmer.pc /\ trimmer'.floor = trimmer.floor
      /\ trimmer.pc # "idle" => trimmer'.since = trimmer.since \cup (S \cap retained)
  BY <1>1, <1>2, <1>4, <1>5, Handed
<1>7. \A i \in retained : pel[i] # NoOne => pel'[i] # NoOne
  BY <1>2, <1>3, <1>4
<1>8. YoungAhead' /\ NoneLost'
  BY <1>1, <1>7 DEF Inv, YoungAhead, NoneLost, Done
<1>9. FloorSafe'
  BY <1>1, <1>6 DEF Inv, FloorSafe, Done
<1> QED
  BY <1>6, <1>8, <1>9 DEF Inv

-----------------------------------------------------------------------------
(* The other steps of a loop.                                                *)

LEMMA NextIngest == ASSUME Inv, NEW c \in Consumers, Ingest(c) PROVE Inv'
<1> DEFINE l == loop[c]
           i == Min(l.batch)
           next == [l EXCEPT !.batch = l.batch \ {i}, !.acks = l.acks \cup {i},
                             !.pc = IF l.batch = {i} THEN "ack" ELSE "ingest"]
<1>1. /\ l \in Loop /\ InStep(l) /\ l.batch \subseteq 1 .. added /\ l.pc = "ingest"
      /\ loop \in [Consumers -> Loop] /\ MaxEntries \in Nat /\ added \in 0 .. MaxEntries
  BY BoundsAssumption DEF Inv, Shape, TypeOK, Appended, LoopsInStep, Loop, Ingest
<1>2. i \in l.batch
  <2>1. l.batch # {} /\ l.batch \in SUBSET Nat
    BY <1>1 DEF InStep
  <2> HIDE DEF l
  <2> QED
    BY <2>1, LeastIn
<1>3. /\ ingested' = ingested \cup {i} /\ loop' = [loop EXCEPT ![c] = next]
      /\ UNCHANGED <<added, retained, cursor, pel, known, trimmer, aged, raced, faults>>
  BY <1>1 DEF Ingest, Loop
<1> HIDE DEF i
<1>4. next \in Loop /\ next.batch \subseteq 1 .. added
  BY <1>1, <1>2 DEF Loop, Pcs
<1>5. loop' \in [Consumers -> Loop] /\ \A d \in Consumers : loop'[d] = IF d = c THEN next ELSE loop[d]
  BY <1>1, <1>3, <1>4
<1>6. Shape'
  <2>1. ingested' \subseteq 1 .. added
    BY <1>1, <1>2, <1>3 DEF Inv, Shape, TypeOK
  <2>2. TypeOK'
    BY <1>3, <1>5, <2>1 DEF Inv, Shape, TypeOK, Loop
  <2>3. \A d \in Consumers : loop'[d].batch \subseteq 1 .. added
    BY <1>4, <1>5 DEF Inv, Shape, Appended
  <2>4. Appended'
    BY <1>3, <2>3 DEF Inv, Shape, Appended, Pending
  <2> QED
    BY <2>2, <2>4 DEF Shape
<1>7. /\ next.pc # "prune" /\ next.strikes # Strikes /\ next.acks \subseteq ingested'
      /\ next.pc = "ingest" => next.batch # {}
      /\ \A e \in next.batch : Done(e)' \/ Taken(e)'
  <2>1. /\ next.pc \in {"ingest", "ack"} /\ (next.pc = "ingest" => next.batch # {})
        /\ next.strikes = l.strikes /\ next.acks = l.acks \cup {i}
        /\ next.batch \subseteq l.batch
    BY <1>1, <1>2 DEF Loop
  <2>2. \A e \in l.batch : Done(e)' \/ Taken(e)'
    BY <1>1, <1>3 DEF InStep, Done, Taken
  <2>3. l.strikes # Strikes /\ l.acks \subseteq ingested
    BY <1>1 DEF InStep
  <2> HIDE DEF next
  <2> QED
    BY <1>3, <2>1, <2>2, <2>3
<1>8. LoopsInStep'
  <2> SUFFICES ASSUME NEW d \in Consumers PROVE InStep(loop[d])'
    BY DEF LoopsInStep
  <2>1. CASE d = c
    <3>1. loop'[d] = next
      BY <1>5, <2>1
    <3> HIDE DEF next
    <3> QED
      BY <1>7, <3>1 DEF InStep, Done, Taken, PendingOf
  <2>2. CASE d # c
    BY <1>3, <1>5, <2>2, StaysInStep DEF Taken, PendingOf
  <2> QED
    BY <2>1, <2>2
<1>9. YoungAhead' /\ FloorSafe' /\ NoneLost'
  BY <1>3 DEF Inv, YoungAhead, FloorSafe, NoneLost, Done
<1> QED
  BY <1>6, <1>8, <1>9 DEF Inv

LEMMA NextAck == ASSUME Inv, NEW c \in Consumers, Ack(c) PROVE Inv'
<1> DEFINE l == loop[c]
           next == [l EXCEPT !.pc = l.then, !.acks = {}, !.then = "idle"]
<1>1. /\ l \in Loop /\ InStep(l) /\ l.batch \subseteq 1 .. added /\ l.pc = "ack"
      /\ loop \in [Consumers -> Loop] /\ pel \in [Entries -> Consumers \cup {NoOne}]
      /\ Pending \subseteq 1 .. added
  BY DEF Inv, Shape, TypeOK, Appended, LoopsInStep, Loop, Ack
<1>2. /\ loop' = [loop EXCEPT ![c] = next]
      /\ pel' = [i \in Entries |-> IF i \in l.acks THEN NoOne ELSE pel[i]]
      /\ UNCHANGED <<added, retained, cursor, known, trimmer, aged, ingested, raced, faults>>
  BY DEF Ack
<1>3. next \in Loop /\ next.batch = l.batch /\ next.pc = l.then /\ next.acks = {}
      /\ next.strikes = l.strikes /\ next.pc \in {"idle", "probe", "list"}
  BY <1>1 DEF Loop, Pcs
<1> HIDE DEF next
<1>4. /\ loop' \in [Consumers -> Loop]
      /\ \A d \in Consumers : loop'[d] = IF d = c THEN next ELSE loop[d]
  BY <1>1, <1>2, <1>3
<1>5. /\ pel' \in [Entries -> Consumers \cup {NoOne}]
      /\ \A e \in Entries : pel'[e] = IF e \in l.acks THEN NoOne ELSE pel[e]
      /\ l.acks \subseteq ingested /\ l.strikes # Strikes
  BY <1>1, <1>2 DEF InStep
<1>6. /\ \A e \in Entries : Taken(e) => Taken(e)' \/ Done(e)'
      /\ \A g \in Consumers : PendingOf(g)' \subseteq PendingOf(g)
      /\ Pending' \subseteq Pending
      /\ \A e \in Entries : pel[e] # NoOne => pel'[e] # NoOne \/ Done(e)'
  BY NoOneAssumption, <1>2, <1>5 DEF Taken, Done, PendingOf, Pending
<1>7. Shape'
  <2>1. TypeOK'
    BY <1>2, <1>4, <1>5 DEF Inv, Shape, TypeOK, Loop
  <2>2. Appended'
    BY <1>1, <1>2, <1>3, <1>4, <1>6 DEF Inv, Shape, Appended
  <2> QED
    BY <2>1, <2>2 DEF Shape
<1>8. LoopsInStep'
  <2> SUFFICES ASSUME NEW d \in Consumers PROVE InStep(loop[d])'
    BY DEF LoopsInStep
  <2>1. CASE d = c
    <3>1. \A e \in l.batch : Done(e)' \/ Taken(e)'
      BY <1>1, <1>2, <1>6 DEF InStep, Loop, Done
    <3> HIDE DEF l, Done, Taken
    <3> QED
      BY <1>3, <1>4, <1>5, <2>1, <3>1 DEF InStep
  <2>2. CASE d # c
    BY <1>2, <1>4, <1>6, <2>2, StaysInStep
  <2> QED
    BY <2>1, <2>2
<1>9. /\ retained \subseteq Entries /\ 1 .. added \subseteq Entries
  BY BoundsAssumption DEF Inv, Shape, TypeOK, Entries
<1>10. YoungAhead' /\ FloorSafe' /\ NoneLost'
  BY <1>2, <1>6, <1>9 DEF Inv, YoungAhead, FloorSafe, NoneLost, Done
<1> QED
  BY <1>7, <1>8, <1>10 DEF Inv

LEMMA NextReset == ASSUME Inv, NEW c \in Consumers, Reset(c) PROVE Inv'
<1> DEFINE l == loop[c]
           next == [l EXCEPT !.strikes = 0, !.pc = "reclaim"]
<1>1. /\ l \in Loop /\ InStep(l) /\ l.batch \subseteq 1 .. added
      /\ loop \in [Consumers -> Loop] /\ Strikes \in Nat \ {0} /\ MaxEntries \in Nat
      /\ added \in Nat /\ retained \subseteq 1 .. added
  BY BoundsAssumption DEF Inv, Shape, TypeOK, Appended, LoopsInStep, Loop
<1>2. /\ loop' = [loop EXCEPT ![c] = next] /\ cursor' = 0
      /\ UNCHANGED <<added, retained, pel, known, trimmer, aged, ingested, raced, faults>>
  BY DEF Reset
<1>3. next \in Loop /\ next.batch = l.batch /\ next.acks = l.acks
      /\ next.strikes = 0 /\ next.pc = "reclaim"
  <2>1. 0 \in 0 .. Strikes /\ "reclaim" \in Pcs
    BY <1>1 DEF Pcs
  <2> QED
    BY <1>1, <2>1 DEF Loop
<1> HIDE DEF next
<1>4. /\ loop' \in [Consumers -> Loop]
      /\ \A d \in Consumers : loop'[d] = IF d = c THEN next ELSE loop[d]
  BY <1>1, <1>2, <1>3
<1>5. Shape'
  <2>1. TypeOK'
    BY <1>1, <1>2, <1>4 DEF Inv, Shape, TypeOK, Loop, Ahead
  <2>2. Appended'
    BY <1>1, <1>2, <1>3, <1>4 DEF Inv, Shape, Appended, Pending
  <2> QED
    BY <2>1, <2>2 DEF Shape
<1>6. LoopsInStep'
  <2> SUFFICES ASSUME NEW d \in Consumers PROVE InStep(loop[d])'
    BY DEF LoopsInStep
  <2>1. CASE d = c
    BY <1>1, <1>2, <1>3, <1>4, <2>1 DEF InStep, Done, Taken
  <2>2. CASE d # c
    BY <1>2, <1>4, <2>2, StaysInStep DEF Taken, PendingOf
  <2> QED
    BY <2>1, <2>2
<1>7. YoungAhead' /\ FloorSafe' /\ NoneLost'
  BY <1>1, <1>2 DEF Inv, YoungAhead, FloorSafe, NoneLost, Done, Ahead
<1> QED
  BY <1>5, <1>6, <1>7 DEF Inv

\* A ghost that is deleted takes along only what arrived behind the sweep's back.
LEMMA NextPrune == ASSUME Inv, NEW c \in Consumers, Prune(c) PROVE Inv'
<1> DEFINE l == loop[c]
<1>1. PICK g \in l.ghosts :
       /\ known' = known \ {g}
       /\ raced' = raced \cup (PendingOf(g) \cap l.since)
       /\ pel' = [i \in Entries |-> IF pel[i] = g THEN NoOne ELSE pel[i]]
       /\ loop' = [loop EXCEPT ![c] =
            IF l.ghosts = {g} THEN [l EXCEPT !.pc = "idle", !.ghosts = {}, !.since = {}]
            ELSE [l EXCEPT !.ghosts = l.ghosts \ {g}]]
  BY DEF Prune
<1> DEFINE next == IF l.ghosts = {g} THEN [l EXCEPT !.pc = "idle", !.ghosts = {}, !.since = {}]
                   ELSE [l EXCEPT !.ghosts = l.ghosts \ {g}]
<1>2. /\ l.pc = "prune"
      /\ UNCHANGED <<added, retained, cursor, trimmer, aged, ingested, faults>>
  BY DEF Prune
<1>3. /\ l \in Loop /\ InStep(l) /\ l.batch \subseteq 1 .. added
      /\ loop \in [Consumers -> Loop] /\ pel \in [Entries -> Consumers \cup {NoOne}]
      /\ Pending \subseteq 1 .. added
  BY DEF Inv, Shape, TypeOK, Appended, LoopsInStep, Loop
<1>4. PendingOf(g) \subseteq l.since /\ g \in Consumers /\ g # NoOne
      /\ l.acks \subseteq ingested /\ l.strikes # Strikes
  BY <1>2, <1>3, NoOneAssumption DEF InStep, Loop
<1>5. next \in Loop /\ next.batch = l.batch /\ next.acks = l.acks /\ next.strikes = l.strikes
      /\ next.pc \in {"idle", "prune"}
      /\ (next.pc = "prune" => next.ghosts \subseteq l.ghosts /\ next.since = l.since)
  BY <1>2, <1>3 DEF Loop, Pcs
<1>6. /\ loop' \in [Consumers -> Loop]
      /\ \A d \in Consumers : loop'[d] = IF d = c THEN next ELSE loop[d]
  <2> HIDE DEF next
  <2>1. loop' = [loop EXCEPT ![c] = next]
    BY <1>1 DEF next
  <2> QED
    BY <1>3, <1>5, <2>1
<1> HIDE DEF next
<1>7. /\ pel' \in [Entries -> Consumers \cup {NoOne}]
      /\ \A e \in Entries : pel'[e] = IF pel[e] = g THEN NoOne ELSE pel[e]
      /\ raced' = raced \cup PendingOf(g)
  BY <1>1, <1>3, <1>4
<1>8. /\ \A e \in Entries : Taken(e) => Taken(e)' \/ Done(e)'
      /\ \A h \in Consumers : PendingOf(h)' \subseteq PendingOf(h)
      /\ Pending' \subseteq Pending
      /\ \A e \in Entries : pel[e] # NoOne => pel'[e] # NoOne \/ Done(e)'
  BY NoOneAssumption, <1>2, <1>7 DEF Taken, Done, PendingOf, Pending
<1>9. Shape'
  <2>1. PendingOf(g) \subseteq 1 .. added
    BY <1>3, <1>4 DEF PendingOf, Pending
  <2>2. TypeOK'
    BY <1>1, <1>2, <1>6, <1>7, <2>1 DEF Inv, Shape, TypeOK, Loop
  <2>3. Appended'
    BY <1>2, <1>3, <1>5, <1>6, <1>8 DEF Inv, Shape, Appended
  <2> QED
    BY <2>2, <2>3 DEF Shape
<1>10. LoopsInStep'
  <2> SUFFICES ASSUME NEW d \in Consumers PROVE InStep(loop[d])'
    BY DEF LoopsInStep
  <2>1. CASE d = c
    <3>1. \A e \in l.batch : Done(e)' \/ Taken(e)'
      BY <1>2, <1>3, <1>7, <1>8 DEF InStep, Loop, Done
    <3>2. next.pc = "prune" => \A h \in next.ghosts : PendingOf(h)' \subseteq next.since
      BY <1>2, <1>3, <1>5, <1>8 DEF InStep, Loop
    <3> HIDE DEF l, Done, Taken, PendingOf
    <3> QED
      BY <1>2, <1>4, <1>5, <1>6, <2>1, <3>1, <3>2 DEF InStep
  <2>2. CASE d # c
    BY <1>2, <1>6, <1>7, <1>8, <2>2, StaysInStep
  <2> QED
    BY <2>1, <2>2
<1>11. /\ retained \subseteq Entries /\ 1 .. added \subseteq Entries
  BY BoundsAssumption DEF Inv, Shape, TypeOK, Entries
<1>12. \A e \in Entries : Done(e) => Done(e)'
  BY <1>2, <1>7 DEF Done
<1>13. YoungAhead' /\ FloorSafe' /\ NoneLost'
  BY <1>2, <1>8, <1>11, <1>12 DEF Inv, YoungAhead, FloorSafe, NoneLost
<1> QED
  BY <1>9, <1>10, <1>13 DEF Inv

-----------------------------------------------------------------------------
(* The trim.                                                                 *)

\* A step of the trim moves no loop and no pending entry.
LEMMA TrimMoves ==
  ASSUME Inv, TypeOK', trimmer'.floor <= aged + 1, FloorSafe', raced \subseteq raced',
         \A i \in retained : i \in retained' \/ Done(i)',
         UNCHANGED <<added, cursor, pel, known, loop, aged, ingested>>,
         retained' \subseteq retained
  PROVE  Inv'
<1>1. Shape'
  BY DEF Inv, Shape, Appended, Pending
<1>2. LoopsInStep'
  <2> SUFFICES ASSUME NEW d \in Consumers PROVE InStep(loop[d])'
    BY DEF LoopsInStep
  <2>1. \A i \in Entries : Taken(i) => Taken(i)' \/ Done(i)'
    BY DEF Taken
  <2>2. \A g \in Consumers : PendingOf(g)' \subseteq PendingOf(g)
    BY DEF PendingOf
  <2> QED
    BY <2>1, <2>2, StaysInStep
<1>3. \A i : Done(i) => Done(i)'
  BY DEF Done
<1>4. YoungAhead' /\ NoneLost'
  BY <1>3 DEF Inv, YoungAhead, NoneLost
<1> QED
  BY <1>1, <1>2, <1>4 DEF Inv

\* What is older than all that is pending and old enough was ingested, unless
\* the group has still to deliver it.
LEMMA NextTrimPending == Inv /\ TrimPending => Inv'
<1> SUFFICES ASSUME Inv, TrimPending PROVE Inv'
  OBVIOUS
<1>1. /\ MaxEntries \in Nat /\ added \in 0 .. MaxEntries /\ aged \in 0 .. added
      /\ retained \subseteq 1 .. added /\ Pending \subseteq 1 .. added /\ 1 .. added \subseteq Entries
  BY BoundsAssumption DEF Inv, Shape, TypeOK, Appended, Entries
<1>2. Pending # {} => Min(Pending) \in 1 .. added /\ \A y \in Pending : Min(Pending) <= y
  <2>1. Pending \in SUBSET Nat
    BY <1>1
  <2> QED
    BY <1>1, <2>1, LeastIn
<1>3. /\ trimmer'.pc = "group" /\ trimmer'.since = {}
      /\ trimmer'.floor = IF Pending = {} THEN aged + 1
                          ELSE Earlier(aged + 1, Min(Pending))
      /\ trimmer' \in [pc : {"idle", "group", "cut"}, floor : {trimmer'.floor}, since : SUBSET Entries]
      /\ UNCHANGED <<added, retained, cursor, pel, known, loop, aged, ingested, raced, faults>>
  BY DEF TrimPending
<1>4. /\ trimmer'.floor \in 0 .. Ahead /\ trimmer'.floor <= aged + 1
      /\ \A i \in 1 .. added : i < trimmer'.floor => i <= aged /\ i \notin Pending
  <2>1. CASE Pending = {}
    BY <1>1, <1>3, <2>1 DEF Ahead
  <2>2. CASE Pending # {}
    <3> DEFINE least == Min(Pending)
    <3>1. least \in 1 .. added /\ \A y \in Pending : least <= y
      BY <1>2, <2>2
    <3>2. trimmer'.floor = Earlier(aged + 1, least)
      BY <1>3, <2>2
    <3> HIDE DEF least
    <3>3. trimmer'.floor \in 1 .. added /\ trimmer'.floor <= aged + 1 /\ trimmer'.floor <= least
      BY <1>1, <3>1, <3>2 DEF Earlier
    <3> QED
      BY <1>1, <3>1, <3>3 DEF Ahead
  <2> QED
    BY <2>1, <2>2
<1>5. TypeOK'
  <2>1. trimmer' \in Trimmer
    BY <1>3, <1>4 DEF Trimmer
  <2> QED
    BY <1>3, <2>1 DEF Inv, Shape, TypeOK, Trimmer
<1>6. FloorSafe'
  <2>1. SUFFICES ASSUME NEW i \in retained, i < trimmer'.floor
                 PROVE  Done(i) \/ i > cursor
    BY <1>3 DEF FloorSafe, Done
  <2>2. i \in 1 .. added /\ i <= aged /\ pel[i] = NoOne
    BY <1>1, <1>4, <2>1 DEF Pending
  <2>3. ~(i > aged)
    BY <1>1, <2>2
  <2> QED
    BY <2>2, <2>3 DEF Inv, NoneLost, YoungAhead
<1> QED
  BY <1>3, <1>4, <1>5, <1>6, TrimMoves

LEMMA NextTrimGroup == Inv /\ TrimGroup => Inv'
<1> SUFFICES ASSUME Inv, TrimGroup PROVE Inv'
  OBVIOUS
<1>1. /\ trimmer \in Trimmer /\ MaxEntries \in Nat /\ aged \in Nat
      /\ cursor \in 0 .. Ahead /\ retained \subseteq 1 .. added /\ added \in Nat
      /\ trimmer.floor <= aged + 1
  BY BoundsAssumption DEF Inv, Shape, Appended, TypeOK, Trimmer
<1>2. /\ trimmer' = [trimmer EXCEPT !.pc = "cut", !.floor = Earlier(trimmer.floor, cursor + 1)]
      /\ trimmer.pc = "group"
      /\ UNCHANGED <<added, retained, cursor, pel, known, loop, aged, ingested, raced, faults>>
  BY DEF TrimGroup
<1>3. /\ trimmer' \in Trimmer /\ trimmer'.pc = "cut" /\ trimmer'.since = trimmer.since
      /\ trimmer'.floor <= aged + 1
      /\ \A i \in Nat : i < trimmer'.floor => i < trimmer.floor /\ ~(i > cursor)
  <2> DEFINE low == Earlier(trimmer.floor, cursor + 1)
  <2>1. trimmer.floor \in 0 .. Ahead /\ cursor \in Nat
    BY <1>1 DEF Trimmer, Ahead
  <2>2. low \in 0 .. Ahead /\ low <= trimmer.floor /\ low <= cursor + 1
    BY <1>1, <2>1 DEF Earlier, Ahead
  <2> HIDE DEF low
  <2>3. /\ trimmer' \in Trimmer /\ trimmer'.pc = "cut" /\ trimmer'.since = trimmer.since
        /\ trimmer'.floor = low
    <3>1. trimmer' = [trimmer EXCEPT !.pc = "cut", !.floor = low]
      BY <1>2 DEF low
    <3> QED
      BY <1>1, <2>2, <3>1 DEF Trimmer
  <2> QED
    BY <1>1, <2>1, <2>2, <2>3 DEF Ahead
<1>4. TypeOK'
  BY <1>2, <1>3 DEF Inv, Shape, TypeOK, Trimmer
<1>5. FloorSafe'
  BY <1>1, <1>2, <1>3 DEF Inv, FloorSafe, Done
<1> QED
  BY <1>2, <1>3, <1>4, <1>5, TrimMoves

LEMMA NextTrimCut == Inv /\ TrimCut => Inv'
<1> SUFFICES ASSUME Inv, TrimCut PROVE Inv'
  OBVIOUS
<1>1. PICK least \in 1 .. trimmer.floor :
        LET cut == {i \in retained : i < least} IN
          /\ retained' = retained \ cut
          /\ raced' = raced \cup (cut \cap trimmer.since)
  BY DEF TrimCut
<1>2. /\ trimmer \in Trimmer /\ MaxEntries \in Nat /\ aged \in Nat
      /\ retained \subseteq 1 .. added /\ added \in Nat /\ raced \subseteq 1 .. added
      /\ trimmer.pc = "cut"
      /\ trimmer' = Resting
      /\ UNCHANGED <<added, cursor, pel, known, loop, aged, ingested, faults>>
  BY BoundsAssumption DEF Inv, Shape, TypeOK, Trimmer, TrimCut
<1>3. /\ trimmer' \in Trimmer /\ trimmer'.pc = "idle" /\ trimmer'.floor <= aged + 1
  BY <1>2 DEF Resting, Trimmer, Ahead
<1>4. \A i \in retained : i \in retained' \/ Done(i)'
  <2> SUFFICES ASSUME NEW i \in retained, i < least
               PROVE  i \in ingested \/ i \in raced'
    BY <1>1, <1>2 DEF Done
  <2>1. i < trimmer.floor
    BY <1>2 DEF Trimmer, Ahead
  <2>2. Done(i) \/ i \in trimmer.since
    BY <1>2, <2>1 DEF Inv, FloorSafe
  <2> QED
    BY <1>1, <2>2 DEF Done
<1>5. TypeOK'
  <2>1. retained' \subseteq 1 .. added /\ raced' \subseteq 1 .. added /\ raced \subseteq raced'
    BY <1>1, <1>2
  <2> QED
    BY <1>2, <1>3, <2>1 DEF Inv, Shape, TypeOK, Trimmer
<1>6. FloorSafe'
  BY <1>3 DEF FloorSafe
<1> QED
  BY <1>1, <1>2, <1>3, <1>4, <1>5, <1>6, TrimMoves

LEMMA NextTrimCrash == Inv /\ TrimCrash => Inv'
<1> SUFFICES ASSUME Inv, TrimCrash PROVE Inv'
  OBVIOUS
<1>1. /\ MaxEntries \in Nat /\ MaxFaults \in Nat /\ aged \in Nat
      /\ trimmer' = Resting /\ faults' \in 0 .. MaxFaults
      /\ UNCHANGED <<added, retained, cursor, pel, known, loop, aged, ingested, raced>>
  BY BoundsAssumption DEF Inv, Shape, TypeOK, TrimCrash
<1>2. /\ trimmer' \in Trimmer /\ trimmer'.pc = "idle" /\ trimmer'.floor <= aged + 1
  BY <1>1 DEF Resting, Trimmer, Ahead
<1>3. TypeOK' /\ FloorSafe'
  BY <1>1, <1>2 DEF Inv, Shape, TypeOK, Trimmer, FloorSafe
<1> QED
  BY <1>1, <1>2, <1>3, TrimMoves

-----------------------------------------------------------------------------
(* Every step.                                                               *)

\* The steps that only move the program counter, the strikes or the ghosts of a loop.
LEMMA NextLoopOnly ==
  ASSUME Inv, NEW c \in Consumers,
         Crash(c) \/ Restart(c) \/ IngestFails(c) \/ Probe(c) \/ ListGhosts(c)
  PROVE  Inv'
<1> DEFINE l == loop[c]
<1>1. /\ l \in Loop /\ InStep(l) /\ l.batch \subseteq 1 .. added
      /\ loop \in [Consumers -> Loop] /\ Strikes \in Nat \ {0} /\ MaxFaults \in Nat
      /\ faults \in 0 .. MaxFaults /\ known \subseteq Consumers
  BY BoundsAssumption DEF Inv, Shape, TypeOK, Appended, LoopsInStep, Loop
<1>2. Idle \in Loop /\ Down \in Loop /\ Idle.batch = {} /\ Down.batch = {}
  BY <1>1 DEF Idle, Down, Loop, Pcs
<1>3. InStep(Idle) /\ InStep(Down)
  BY <1>1 DEF Idle, Down, InStep
<1>4. CASE Crash(c)
  <2>1. faults' \in 0 .. MaxFaults /\ loop' = [loop EXCEPT ![c] = Down]
    BY <1>1, <1>4 DEF Crash
  <2> QED
    BY <1>2, <1>3, <1>4, <2>1, LoopMoves DEF Crash
<1>5. CASE Restart(c)
  BY <1>1, <1>2, <1>3, <1>5, LoopMoves DEF Restart
<1>6. CASE IngestFails(c)
  <2> DEFINE next == [Idle EXCEPT !.strikes = l.strikes]
  <2>1. next \in Loop /\ next.batch = {} /\ next.acks = {} /\ next.pc = "idle"
        /\ next.strikes = l.strikes
    BY <1>1, <1>2 DEF Loop, Idle
  <2>2. l.strikes # Strikes
    BY <1>1, <1>6 DEF InStep, IngestFails
  <2> HIDE DEF next
  <2>3. InStep(next)
    BY <2>1, <2>2 DEF InStep
  <2>4. loop' = [loop EXCEPT ![c] = next] /\ faults' \in 0 .. MaxFaults
    BY <1>1, <1>6 DEF IngestFails, next
  <2> QED
    BY <1>6, <2>1, <2>3, <2>4, LoopMoves DEF IngestFails
<1>7. CASE Probe(c)
  <2> DEFINE strikes == IF Desynced THEN l.strikes + 1 ELSE 0
             next == [l EXCEPT !.strikes = strikes,
                               !.pc = IF strikes = Strikes THEN "reset" ELSE "reclaim"]
  <2>1. l.strikes # Strikes /\ l.acks \subseteq ingested /\ \A i \in l.batch : Done(i) \/ Taken(i)
    BY <1>1, <1>7 DEF InStep, Probe
  <2>2. strikes \in 0 .. Strikes
    BY <1>1, <2>1 DEF Loop
  <2>3. loop' = [loop EXCEPT ![c] = next] /\ UNCHANGED faults
    BY <1>7 DEF Probe
  <2> HIDE DEF strikes
  <2>4. next \in Loop /\ next.batch = l.batch /\ next.acks = l.acks /\ next.strikes = strikes
        /\ next.pc = IF strikes = Strikes THEN "reset" ELSE "reclaim"
    BY <1>1, <2>2 DEF Loop, Pcs
  <2> HIDE DEF next
  <2>5. InStep(next)
    BY <2>1, <2>4 DEF InStep
  <2>6. next \in Loop /\ next.batch \subseteq 1 .. added /\ faults' \in 0 .. MaxFaults
    BY <1>1, <2>3, <2>4
  <2>7. UNCHANGED <<added, retained, cursor, pel, known, trimmer, aged, ingested, raced>>
    BY <1>7 DEF Probe
  <2> QED
    BY <2>3, <2>5, <2>6, <2>7, LoopMoves
<1>8. CASE ListGhosts(c)
  <2>1. PICK ghosts \in SUBSET {g \in known \ {c} : PendingOf(g) = {} /\ loop[g].pc = "down"} :
          loop' = [loop EXCEPT ![c] =
            [l EXCEPT !.pc = IF ghosts = {} THEN "idle" ELSE "prune",
                      !.ghosts = ghosts, !.since = {}]]
    BY <1>8 DEF ListGhosts
  <2> DEFINE next == [l EXCEPT !.pc = IF ghosts = {} THEN "idle" ELSE "prune",
                               !.ghosts = ghosts, !.since = {}]
  <2>2. l.strikes # Strikes /\ l.acks \subseteq ingested /\ \A i \in l.batch : Done(i) \/ Taken(i)
    BY <1>1, <1>8 DEF InStep, ListGhosts
  <2>3. ghosts \subseteq Consumers /\ \A g \in ghosts : PendingOf(g) = {}
    BY <1>1
  <2>4. next \in Loop /\ next.batch = l.batch /\ next.acks = l.acks /\ next.strikes = l.strikes
        /\ next.ghosts = ghosts /\ next.since = {} /\ next.pc \in {"idle", "prune"}
    BY <1>1, <2>3 DEF Loop, Pcs
  <2>5. loop' = [loop EXCEPT ![c] = next]
    BY <2>1
  <2> HIDE DEF next
  <2>6. InStep(next)
    BY <2>2, <2>3, <2>4 DEF InStep
  <2> QED
    BY <1>1, <1>8, <2>4, <2>5, <2>6, LoopMoves DEF ListGhosts
<1> QED
  BY <1>4, <1>5, <1>6, <1>7, <1>8

LEMMA InvNext == Inv /\ [Next]_vars => Inv'
<1> SUFFICES ASSUME Inv, [Next]_vars PROVE Inv'
  OBVIOUS
<1>1. CASE Produce
  BY <1>1, NextProduce
<1>2. CASE Age
  BY <1>2, NextAge
<1>3. CASE Desync
  BY <1>3, NextDesync
<1>4. ASSUME NEW c \in Consumers, LoopStep(c) \/ Crash(c) \/ Restart(c)
      PROVE  Inv'
  <2>1. CASE Reclaim(c)
    BY <2>1, NextClaim DEF Reclaim
  <2> QED
    BY <1>4, <2>1, NextRead, NextIngest, NextAck, NextReset, NextPrune, NextLoopOnly DEF LoopStep
<1>5. CASE Trim
  BY <1>5, NextTrimPending, NextTrimGroup, NextTrimCut DEF Trim
<1>6. CASE TrimCrash
  BY <1>6, NextTrimCrash
<1>7. CASE UNCHANGED vars
  BY <1>7 DEF vars, Inv, Shape, TypeOK, Appended, Pending, LoopsInStep, InStep, Done, Taken,
              PendingOf, YoungAhead, FloorSafe, NoneLost
<1> QED
  BY <1>1, <1>2, <1>3, <1>4, <1>5, <1>6, <1>7 DEF Next

\* At-least-once across any number of replicas, however often they die, raise or
\* find the stream recreated: an entry that was appended was ingested, can still
\* be had, or was delivered while a trim or a prune that had not seen it was
\* under way (ingest.py reclaim_segments, adapters.py RedisStreamBus).
THEOREM OnlyARaceLoses == Spec => []LostOnlyToARace
<1>1. Inv => LostOnlyToARace
  BY DEF Inv, Shape, NoneLost, Done, LostOnlyToARace, Reachable
<1> QED
  BY <1>1, InvInit, InvNext, PTL DEF Spec
=============================================================================
