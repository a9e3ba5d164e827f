------------------------- MODULE WebhookRetryProofs -------------------------
(***************************************************************************)
(* Theorems about WebhookRetry, for any number of webhooks and of replicas *)
(* that drain, any backoff schedule, any room for dead letters and any     *)
(* number of crashes.                                                      *)
(***************************************************************************)
EXTENDS WebhookRetry, FiniteSetTheorems, SequenceTheorems, TLAPS

-----------------------------------------------------------------------------
(* The invariant. *)

Histories ==
  /\ posts \in [Envelopes -> Nat] /\ answers \in [Envelopes -> Nat]
  /\ buried \in [Envelopes -> {"no", "aged", "exhausted"}]
  /\ crashes \in Nat

\* A drain loop that does not hold the lock has nothing under way.
SingleFlight ==
  \A w \in Workers : IF lock = w THEN worker[w].pc # "idle" ELSE worker[w] = Idle

\* What is kept at each command of a sweep: a row is taken off the processing list
\* only when its webhook waits in the queue or needs no more.
Holding == {"stamp", "resolve", "failed", "trim", "remove"}

Position(w) ==
  LET me == worker[w] IN
  /\ IF me.pc \in Holding THEN me.held \in Row ELSE me.held = NoRow
  /\ me.pc = "claim" => me.left > 0
  /\ me.pc = "unlist" => /\ me.listed # <<>>
                         /\ InQueue(Head(me.listed).entry.envelope)
  /\ me.pc = "stamp" => processing # <<>> /\ processing[1] = me.held
  /\ me.pc = "trim" => Settled(InHand(w).envelope)
  /\ me.pc = "remove" => \/ Settled(InHand(w).envelope)
                         \/ InQueue(InHand(w).envelope)

Positions == \A w \in Workers : Position(w)

\* A webhook at its n-th retry has been posted n times before, the first time
\* included.
Backed(entry) == posts[entry.envelope] > entry.attempt

Counted ==
  /\ \A x \in Range(queue) : Backed(x)
  /\ \A r \in Range(processing) : Backed(r.entry)
  /\ \A w \in Workers : \A r \in Range(worker[w].listed) : Backed(r.entry)
  /\ \A w \in Workers : worker[w].pc \in Holding => Backed(InHand(w))
  /\ \A w \in Workers : worker[w].pc = "failed" =>
       posts[InHand(w).envelope] > InHand(w).attempt + 1
  /\ \A e \in Envelopes : sent[e] = "failed" => posts[e] > 0
  /\ \A e \in Envelopes : buried[e] = "exhausted" => posts[e] >= Tries + 1

\* The envelope a drain loop is about to decide on.
Live(w, e) ==
  worker[w].pc \in {"stamp", "resolve", "failed"} /\ InHand(w).envelope = e

Distinct(q) == \A i, j \in DOMAIN q : q[i].envelope = q[j].envelope => i = j

\* What an envelope is owed: while it is in the queue or in a loop's hand it is
\* there once, and as many POSTs were made as its entry says.
Once(e) ==
  /\ posts[e] <= Tries + 1
  /\ sent[e] = "new" => posts[e] = 0 /\ ~Settled(e)
  /\ sent[e] = "failed" => posts[e] = 1 /\ ~Settled(e)
  /\ InQueue(e) => sent[e] = "queued" /\ ~Settled(e)
  /\ \A w \in Workers : Live(w, e) =>
       /\ sent[e] = "queued" /\ ~Settled(e) /\ ~InQueue(e)
       /\ posts[e] = InHand(w).attempt + (IF worker[w].pc = "failed" THEN 2 ELSE 1)

\* As long as no process died, the processing list holds what the sweep in
\* progress has in hand.
Calm ==
  /\ \A e \in Envelopes : Once(e)
  /\ Distinct(queue)
  /\ \A x \in Range(queue) : posts[x.envelope] = x.attempt + 1
  /\ \A w \in Workers : worker[w].listed = <<>>
  /\ \A w \in Workers : worker[w].pc \in Holding => processing = <<worker[w].held>>
  /\ (\A w \in Workers : worker[w].pc \notin Holding) => processing = <<>>

Inv ==
  /\ TypeOK /\ Histories /\ SingleFlight
  /\ Positions /\ NoEnvelopeLost /\ Counted
  /\ crashes = 0 => Calm

\* Webhooks are delivered at least once, deduplicated by event_id (retry.py 191):
\* only a crash brings the second copy.  Without one, a webhook that was answered
\* or dead-lettered is not posted again.
NotPostedAgain ==
  [][\A e \in Envelopes : crashes = 0 /\ Settled(e) => posts'[e] = posts[e]]_vars

-----------------------------------------------------------------------------
(* Numbers. *)

\* The least of a set of naturals: were there none, the numbers below all of the
\* set would be closed under successor, a finite set that maps into itself by an
\* injection that misses 0.
LEMMA LeastOf ==
  ASSUME NEW T \in SUBSET Nat, T # {}
  PROVE  \E x \in T : \A y \in T : x <= y
<1> SUFFICES ASSUME \A x \in T : \E y \in T : y < x
             PROVE  FALSE
  OBVIOUS
<1> DEFINE D == {n \in Nat : \A y \in T : n < y}
           f == [n \in D |-> n + 1]
<1>1. PICK t \in T : TRUE
  OBVIOUS
<1>2. IsFiniteSet(D)
  <2>1. D \in SUBSET Nat /\ t \in Nat /\ \A n \in D : n <= t
    BY <1>1
  <2> QED
    BY <2>1, FS_BoundedSetOfNaturals
<1>3. 0 \in D
  BY DEF D
<1>4. ASSUME NEW n \in D PROVE n + 1 \in D
  <2>1. ASSUME NEW y \in T PROVE n + 1 < y
    <3>1. PICK z \in T : z < y
      OBVIOUS
    <3>2. n < z /\ z \in Nat /\ y \in Nat /\ n \in Nat
      BY <3>1
    <3> QED
      BY <3>1, <3>2
  <2> QED
    BY <2>1
<1>5. f \in Injection(D, D)
  BY <1>4 DEF Injection, IsInjective
<1>6. f \in Surjection(D, D)
  BY <1>2, <1>5, FS_Injection
<1>7. PICK n \in D : f[n] = 0
  BY <1>3, <1>6 DEF Surjection
<1> QED
  BY <1>7

-----------------------------------------------------------------------------
(* Lists. *)

LEMMA ListFacts ==
  ASSUME NEW S, NEW s \in Seq(S)
  PROVE  /\ DOMAIN s = 1 .. Len(s) /\ Len(s) \in Nat
         /\ \A i \in 1 .. Len(s) : s[i] \in S /\ s[i] \in Range(s)
         /\ \A x \in Range(s) : \E i \in 1 .. Len(s) : s[i] = x
         /\ Range(s) \subseteq S
  BY DEF Range

LEMMA AppendRange ==
  ASSUME NEW S, NEW s \in Seq(S), NEW e \in S
  PROVE  Append(s, e) \in Seq(S) /\ Range(Append(s, e)) = Range(s) \cup {e}
<1>1. /\ Append(s, e) \in Seq(S) /\ Len(Append(s, e)) = Len(s) + 1
      /\ \A i \in 1 .. Len(s) : Append(s, e)[i] = s[i]
      /\ Append(s, e)[Len(s) + 1] = e
  BY AppendProperties
<1>2. DOMAIN Append(s, e) = 1 .. Len(s) + 1 /\ DOMAIN s = 1 .. Len(s) /\ Len(s) \in Nat
  BY <1>1, ListFacts
<1> QED
  BY <1>1, <1>2 DEF Range

LEMMA ConsRange ==
  ASSUME NEW S, NEW s \in Seq(S), NEW e \in S
  PROVE  /\ Cons(e, s) \in Seq(S) /\ Len(Cons(e, s)) = Len(s) + 1
         /\ Cons(e, s)[1] = e
         /\ \A i \in 1 .. Len(s) : Cons(e, s)[i + 1] = s[i]
         /\ Range(Cons(e, s)) = Range(s) \cup {e}
<1>0. /\ <<e>> \in Seq(S) /\ Len(<<e>>) = 1 /\ <<e>>[1] = e /\ Len(s) \in Nat
      /\ DOMAIN s = 1 .. Len(s)
  BY ListFacts
<1>1. /\ <<e>> \o s \in Seq(S) /\ Len(<<e>> \o s) = 1 + Len(s)
      /\ \A i \in 1 .. 1 + Len(s) :
           (<<e>> \o s)[i] = IF i <= 1 THEN <<e>>[i] ELSE s[i - 1]
  BY <1>0, ConcatProperties
<1> DEFINE t == <<e>> \o s
<1> HIDE DEF t
<1>2. /\ t \in Seq(S) /\ Len(t) = Len(s) + 1 /\ DOMAIN t = 1 .. Len(s) + 1 /\ t[1] = e
      /\ \A i \in 1 .. Len(s) : t[i + 1] = s[i]
  <2>1. t \in Seq(S) /\ Len(t) = Len(s) + 1
    BY <1>0, <1>1 DEF t
  <2>2. DOMAIN t = 1 .. Len(t)
    BY <2>1, ListFacts
  <2>3. t[1] = e
    BY <1>0, <1>1 DEF t
  <2>4. ASSUME NEW i \in 1 .. Len(s) PROVE t[i + 1] = s[i]
    <3>1. i + 1 \in 1 .. 1 + Len(s) /\ ~(i + 1 <= 1) /\ i + 1 - 1 = i
      BY <1>0
    <3> QED
      BY <1>1, <3>1 DEF t
  <2> QED
    BY <2>1, <2>2, <2>3, <2>4
<1>3. Range(t) = Range(s) \cup {e}
  <2>1. \A j \in 1 .. Len(s) + 1 : j = 1 \/ (j - 1 \in 1 .. Len(s) /\ j - 1 + 1 = j)
    BY <1>0
  <2>2. \A i \in 1 .. Len(s) : i + 1 \in 1 .. Len(s) + 1
    BY <1>0
  <2>3. Range(t) \subseteq Range(s) \cup {e}
    <3> SUFFICES ASSUME NEW j \in 1 .. Len(s) + 1 PROVE t[j] \in Range(s) \cup {e}
      BY <1>2 DEF Range
    <3>1. CASE j = 1
      BY <1>2, <3>1
    <3>2. CASE j - 1 \in 1 .. Len(s) /\ j - 1 + 1 = j
      <4>1. t[j - 1 + 1] = s[j - 1]
        BY <1>2, <3>2
      <4>2. s[j - 1] \in Range(s)
        BY <3>2, ListFacts
      <4> QED
        BY <3>2, <4>1, <4>2
    <3> QED
      BY <2>1, <3>1, <3>2
  <2>4. Range(s) \cup {e} \subseteq Range(t)
    <3>1. 1 \in 1 .. Len(s) + 1
      BY <1>0
    <3> QED
      BY <1>0, <1>2, <2>2, <3>1 DEF Range
  <2> QED
    BY <2>3, <2>4
<1> QED
  BY <1>2, <1>3 DEF Cons, t

LEMMA FrontRange ==
  ASSUME NEW S, NEW s \in Seq(S), s # <<>>
  PROVE  /\ Front(s) \in Seq(S) /\ Last(s) \in S /\ Last(s) \in Range(s)
         /\ Len(Front(s)) = Len(s) - 1 /\ Last(s) = s[Len(s)] /\ Len(s) > 0
         /\ \A i \in 1 .. Len(s) - 1 : Front(s)[i] = s[i]
         /\ Range(s) = Range(Front(s)) \cup {Last(s)}
<1>0. Len(s) \in Nat \ {0} /\ DOMAIN s = 1 .. Len(s)
  BY EmptySeq, ListFacts
<1>1. /\ Front(s) \in Seq(S) /\ Len(Front(s)) = Len(s) - 1
      /\ \A i \in 1 .. Len(s) - 1 : Front(s)[i] = s[i]
  BY <1>0 DEF Front
<1>2. DOMAIN Front(s) = 1 .. Len(s) - 1
  BY <1>1
<1> QED
  BY <1>0, <1>1, <1>2 DEF Last, Range

LEMMA TailRange ==
  ASSUME NEW S, NEW s \in Seq(S), s # <<>>
  PROVE  /\ Tail(s) \in Seq(S) /\ Head(s) \in S
         /\ Range(Tail(s)) \subseteq Range(s) /\ Head(s) \in Range(s)
         /\ Len(Tail(s)) = Len(s) - 1
<1>0. Len(s) \in Nat \ {0} /\ DOMAIN s = 1 .. Len(s) /\ Head(s) = s[1]
  BY EmptySeq, ListFacts
<1>1. /\ Tail(s) \in Seq(S) /\ Len(Tail(s)) = Len(s) - 1
      /\ \A i \in 1 .. Len(s) - 1 : Tail(s)[i] = s[i + 1]
  BY <1>0
<1>2. DOMAIN Tail(s) = 1 .. Len(s) - 1
  BY <1>1
<1> QED
  BY <1>0, <1>1, <1>2 DEF Range

LEMMA ReplaceHead ==
  ASSUME NEW S, NEW s \in Seq(S), s # <<>>, NEW e \in S
  PROVE  /\ ReplaceAt(s, 1, e) \in Seq(S) /\ ReplaceAt(s, 1, e) # <<>>
         /\ ReplaceAt(s, 1, e)[1] = e
         /\ Range(s) \subseteq Range(ReplaceAt(s, 1, e)) \cup {s[1]}
         /\ Range(ReplaceAt(s, 1, e)) \subseteq Range(s) \cup {e}
         /\ e \in Range(ReplaceAt(s, 1, e))
         /\ Len(s) = 1 => ReplaceAt(s, 1, e) = <<e>>
<1>0. Len(s) \in Nat \ {0} /\ DOMAIN s = 1 .. Len(s) /\ 1 \in 1 .. Len(s)
  BY EmptySeq, ListFacts
<1>1. /\ ReplaceAt(s, 1, e) \in Seq(S) /\ Len(ReplaceAt(s, 1, e)) = Len(s)
      /\ \A j \in 1 .. Len(s) : ReplaceAt(s, 1, e)[j] = IF j = 1 THEN e ELSE s[j]
  BY <1>0, ExceptSeq DEF ReplaceAt
<1>2. DOMAIN ReplaceAt(s, 1, e) = 1 .. Len(s)
  BY <1>1
<1> DEFINE t == ReplaceAt(s, 1, e)
<1> HIDE DEF t
<1>3. Len(s) = 1 => t = <<e>>
  <2> SUFFICES ASSUME Len(s) = 1 PROVE t = <<e>>
    OBVIOUS
  <2>1. t \in Seq(S) /\ Len(t) = 1 /\ t[1] = e
    BY <1>1 DEF t
  <2>2. <<e>> \in Seq(S) /\ Len(<<e>>) = 1 /\ <<e>>[1] = e
    OBVIOUS
  <2> QED
    BY <2>1, <2>2, SeqEqual
<1>4. t # <<>> /\ t[1] = e
  BY <1>0, <1>1 DEF t
<1> QED
  BY <1>0, <1>1, <1>2, <1>3, <1>4 DEF Range, t

\* What is left of a list after the first row like e was taken off.
LEMMA RemoveFirstRange ==
  ASSUME NEW S, NEW s \in Seq(S), NEW e \in S
  PROVE  /\ RemoveFirst(s, e) \in Seq(S)
         /\ Range(RemoveFirst(s, e)) \subseteq Range(s)
         /\ Range(s) \ {e} \subseteq Range(RemoveFirst(s, e))
         /\ s = <<e>> => RemoveFirst(s, e) = <<>>
<1>0. Len(s) \in Nat /\ DOMAIN s = 1 .. Len(s)
  BY ListFacts
<1>1. CASE ~ \E i \in 1 .. Len(s) : s[i] = e
  <2>1. RemoveFirst(s, e) = s
    BY <1>1 DEF RemoveFirst
  <2>2. s # <<e>>
    BY <1>1
  <2> QED
    BY <2>1, <2>2
<1>2. CASE \E i \in 1 .. Len(s) : s[i] = e
  <2> DEFINE I == {i \in 1 .. Len(s) : s[i] = e}
             k == Min(I)
             a == SubSeq(s, 1, k - 1)
             b == SubSeq(s, k + 1, Len(s))
  <2>1. I # {} /\ I \subseteq Nat
    BY <1>0, <1>2
  <2>2. k \in I
    <3>1. \E x \in I : \A y \in I : x <= y
      BY <2>1, LeastOf
    <3> QED
      BY <3>1 DEF Min
  <2>3. RemoveFirst(s, e) = a \o b
    BY <1>2, <2>1 DEF RemoveFirst, RemoveAt, SelectInSeq
  <2>4. k \in 1 .. Len(s) /\ s[k] = e
    BY <2>2
  <2> HIDE DEF k, I
  <2>5. /\ a \in Seq(S) /\ Len(a) = k - 1
        /\ \A i \in 1 .. k - 1 : a[i] = s[i]
    BY <1>0, <2>4
  <2>6. /\ b \in Seq(S) /\ Len(b) = Len(s) - k
        /\ \A i \in 1 .. Len(s) - k : b[i] = s[i + k]
    <3>1. /\ k + 1 \in Int /\ Len(s) \in Int
          /\ \A i \in k + 1 .. Len(s) : s[i] \in S
      BY <1>0, <2>4
    <3>2. /\ b \in Seq(S)
          /\ Len(b) = IF k + 1 <= Len(s) THEN Len(s) - (k + 1) + 1 ELSE 0
          /\ \A i \in 1 .. Len(s) - (k + 1) + 1 : b[i] = s[k + 1 + i - 1]
      BY <3>1, SubSeqProperties
    <3> HIDE DEF b
    <3>3. Len(b) = Len(s) - k /\ Len(s) - (k + 1) + 1 = Len(s) - k
      <4>1. Len(s) \in Nat /\ k \in Nat /\ 1 <= k /\ k <= Len(s)
        BY <1>0, <2>4
      <4>2. Len(s) - (k + 1) + 1 = Len(s) - k
        BY <4>1
      <4>3. CASE k + 1 <= Len(s)
        BY <3>2, <4>1, <4>3
      <4>4. CASE ~(k + 1 <= Len(s))
        BY <3>2, <4>1, <4>4
      <4> QED
        BY <4>2, <4>3, <4>4
    <3>4. \A i \in 1 .. Len(s) - k : k + 1 + i - 1 = i + k
      BY <1>0, <2>4
    <3> QED
      BY <3>2, <3>3, <3>4
  <2> DEFINE t == a \o b
  <2> HIDE DEF a, b
  <2>7. /\ t \in Seq(S) /\ Len(t) = Len(s) - 1
        /\ \A i \in 1 .. Len(s) - 1 : t[i] = IF i < k THEN s[i] ELSE s[i + 1]
    <3>1. /\ t \in Seq(S) /\ Len(t) = Len(a) + Len(b)
          /\ \A i \in 1 .. Len(a) + Len(b) :
               t[i] = IF i <= Len(a) THEN a[i] ELSE b[i - Len(a)]
      BY <2>5, <2>6, ConcatProperties
    <3> HIDE DEF t
    <3>2. Len(a) + Len(b) = Len(s) - 1
      BY <1>0, <2>4, <2>5, <2>6
    <3>3. ASSUME NEW i \in 1 .. Len(s) - 1, i < k PROVE t[i] = s[i]
      <4>1. i \in 1 .. k - 1 /\ i <= Len(a)
        BY <1>0, <2>4, <2>5, <3>3
      <4> QED
        BY <2>5, <3>1, <3>2, <4>1
    <3>4. ASSUME NEW i \in 1 .. Len(s) - 1, ~(i < k) PROVE t[i] = s[i + 1]
      <4>1. /\ ~(i <= Len(a)) /\ i - Len(a) \in 1 .. Len(s) - k
            /\ i - Len(a) + k = i + 1
        BY <1>0, <2>4, <2>5, <3>4
      <4>2. t[i] = b[i - Len(a)]
        BY <3>1, <3>2, <4>1
      <4>3. b[i - Len(a)] = s[i - Len(a) + k]
        BY <2>6, <4>1
      <4> QED
        BY <4>1, <4>2, <4>3
    <3> QED
      BY <3>1, <3>2, <3>3, <3>4
  <2> HIDE DEF t
  <2>8. DOMAIN t = 1 .. Len(s) - 1
    BY <2>7
  <2>9. Range(t) \subseteq Range(s)
    <3> SUFFICES ASSUME NEW i \in 1 .. Len(s) - 1 PROVE t[i] \in Range(s)
      BY <2>8 DEF Range
    <3>1. i \in 1 .. Len(s) /\ i + 1 \in 1 .. Len(s)
      BY <1>0
    <3> QED
      BY <1>0, <2>7, <3>1 DEF Range
  <2>10. Range(s) \ {e} \subseteq Range(t)
    <3> SUFFICES ASSUME NEW i \in 1 .. Len(s), s[i] # e
                 PROVE  \E j \in 1 .. Len(s) - 1 : t[j] = s[i]
      BY <1>0, <2>8 DEF Range
    <3>0. i # k
      BY <2>4
    <3>1. CASE i < k
      BY <1>0, <2>4, <2>7, <3>1
    <3>2. CASE i > k
      <4>1. i - 1 \in 1 .. Len(s) - 1 /\ ~(i - 1 < k) /\ i - 1 + 1 = i
        BY <1>0, <2>4, <3>2
      <4>2. t[i - 1] = s[i - 1 + 1]
        BY <2>7, <4>1
      <4> QED
        BY <4>1, <4>2
    <3>3. k \in Nat /\ i \in Nat
      BY <2>4
    <3>4. i < k \/ i > k
      BY <3>0, <3>3
    <3> QED
      BY <3>1, <3>2, <3>4
  <2>11. s = <<e>> => t = <<>>
    <3> SUFFICES ASSUME s = <<e>> PROVE t = <<>>
      OBVIOUS
    <3>1. Len(t) = 0
      BY <2>7
    <3> QED
      BY <2>7, <3>1, EmptySeq
  <2> QED
    BY <2>3, <2>7, <2>9, <2>10, <2>11 DEF t
<1> QED
  BY <1>1, <1>2

\* There is a claim token that no row bears: there are more tokens than rows.
LEMMA FreshClaimType ==
  ASSUME processing \in Seq(Row)
  PROVE  FreshClaim \in Nat
<1> DEFINE n == Len(processing)
           Free(t) == \A i \in 1 .. n : processing[i].claim # t
<1>0. n \in Nat
  OBVIOUS
<1>1. \E t \in 1 .. n + 1 : Free(t)
  <2> SUFFICES ASSUME \A t \in 1 .. n + 1 : ~Free(t) PROVE FALSE
    OBVIOUS
  <2> DEFINE f == [t \in 1 .. n + 1 |-> CHOOSE i \in 1 .. n : processing[i].claim = t]
  <2>1. \A t \in 1 .. n + 1 : f[t] \in 1 .. n /\ processing[f[t]].claim = t
    OBVIOUS
  <2>2. f \in [1 .. n + 1 -> 1 .. n]
    BY <2>1
  <2> HIDE DEF f, n
  <2>3. IsFiniteSet(1 .. n) /\ Cardinality(1 .. n) = n
    BY <1>0, FS_Interval
  <2>4. Cardinality(1 .. n + 1) = n + 1
    <3> DEFINE m == n + 1
    <3>1. m \in Nat /\ m > 0
      BY <1>0
    <3> HIDE DEF m
    <3>2. Cardinality(1 .. m) = m
      BY <3>1, FS_Interval
    <3> QED
      BY <3>2 DEF m
  <2>5. f \in Injection(1 .. n + 1, 1 .. n)
    BY <2>1, <2>2 DEF Injection, IsInjective
  <2>6. Cardinality(1 .. n + 1) <= Cardinality(1 .. n)
    BY <2>3, <2>5, FS_Injection
  <2> QED
    BY <1>0, <2>3, <2>4, <2>6
<1>2. FreshClaim \in 1 .. n + 1
  BY <1>1 DEF FreshClaim
<1> QED
  BY <1>0, <1>2

-----------------------------------------------------------------------------
(* Types, and who holds the lock. *)

Loop == [pc : Pcs, left : Nat, listed : Seq(Row), held : Row \cup {NoRow}]

LEMMA BoundsTypes == Tries \in Nat \ {0} /\ DeadLetterMax \in Nat \ {0} /\ MaxCrashes \in Nat
  BY BoundsAssumption

LEMMA IdleType == Idle \in Loop /\ Idle.pc = "idle" /\ Idle.held = NoRow /\ Idle.listed = <<>>
  BY EmptySeq DEF Idle, Loop, Pcs

\* Only the holder of the lock is at work.
LEMMA Alone ==
  ASSUME SingleFlight, NEW w \in Workers, worker[w].pc # "idle"
  PROVE  lock = w /\ \A v \in Workers : v # w => worker[v] = Idle
  BY IdleType DEF SingleFlight

\* A step of the holder's that keeps the lock.
LEMMA Turn ==
  ASSUME TypeOK, SingleFlight, NEW w \in Workers, worker[w].pc # "idle",
         NEW x \in Loop, x.pc # "idle",
         worker' = [worker EXCEPT ![w] = x], lock' = lock
  PROVE  /\ worker' \in [Workers -> Loop] /\ lock' \in Workers \cup {Nobody}
         /\ SingleFlight' /\ worker'[w] = x
<1>1. worker \in [Workers -> Loop] /\ lock \in Workers \cup {Nobody}
  BY DEF TypeOK, Loop
<1>2. lock = w /\ \A v \in Workers : v # w => worker[v] = Idle
  BY Alone
<1>3. worker'[w] = x /\ \A v \in Workers : v # w => worker'[v] = worker[v]
  BY <1>1
<1> QED
  BY <1>1, <1>2, <1>3 DEF SingleFlight

LEMMA HandType ==
  ASSUME Inv, NEW w \in Workers
  PROVE  /\ worker[w] \in Loop
         /\ worker[w].pc \in Holding =>
              /\ worker[w].held \in Row
              /\ InHand(w) \in Entry
              /\ InHand(w).envelope \in Envelopes
              /\ InHand(w).attempt \in 0 .. Tries - 1
              /\ InHand(w).attempt \in Nat
<1>1. worker[w] \in Loop
  BY DEF Inv, TypeOK, Loop
<1>2. worker[w].pc \in Holding => worker[w].held \in Row
  BY DEF Inv, Positions, Position
<1>3. worker[w].held \in Row => InHand(w) \in Entry
  BY DEF Row, InHand
<1> QED
  BY <1>1, <1>2, <1>3, BoundsTypes DEF Entry

\* RPUSH takes one letter to the end of the list.
LEMMA BuryType ==
  ASSUME TypeOK, Histories, NEW w \in Workers, InHand(w).envelope \in Envelopes,
         NEW why \in {"aged", "exhausted"}, Bury(w, why)
  PROVE  /\ deadLetter' \in Seq(Envelopes) /\ Len(deadLetter') = Len(deadLetter) + 1
         /\ To(w, "trim")
         /\ buried' \in [Envelopes -> {"no", "aged", "exhausted"}]
         /\ buried'[InHand(w).envelope] = why
         /\ \A f \in Envelopes : f # InHand(w).envelope => buried'[f] = buried[f]
<1> DEFINE e == InHand(w).envelope
<1>1. deadLetter \in Seq(Envelopes)
  BY DEF TypeOK
<1>2. deadLetter' = Append(deadLetter, e) /\ buried' = [buried EXCEPT ![e] = why] /\ To(w, "trim")
  BY DEF Bury
<1>3. e \in Envelopes
  OBVIOUS
<1> HIDE DEF e
<1>4. deadLetter' \in Seq(Envelopes) /\ Len(deadLetter') = Len(deadLetter) + 1
  BY <1>1, <1>2, <1>3, AppendProperties
<1>5. /\ buried' \in [Envelopes -> {"no", "aged", "exhausted"}] /\ buried'[e] = why
      /\ \A f \in Envelopes : f # e => buried'[f] = buried[f]
  BY <1>2, <1>3 DEF Histories
<1> QED
  BY <1>2, <1>4, <1>5 DEF e

\* LTRIM leaves at most DEAD_LETTER_MAX.
LEMMA RecentType ==
  ASSUME NEW letters \in Seq(Envelopes)
  PROVE  Recent(letters) \in Seq(Envelopes) /\ Len(Recent(letters)) <= DeadLetterMax
<1> DEFINE from == Len(letters) - DeadLetterMax + 1
<1>1. Len(letters) \in Nat /\ DeadLetterMax \in Nat \ {0}
  BY BoundsTypes
<1>2. CASE Len(letters) > DeadLetterMax
  <2>1. from \in 1 .. Len(letters) + 1 /\ Len(letters) \in from - 1 .. Len(letters)
    BY <1>1, <1>2
  <2>2. Recent(letters) = SubSeq(letters, from, Len(letters))
    BY <1>2 DEF Recent
  <2>3. Len(letters) - from + 1 = DeadLetterMax
    BY <1>1
  <2> HIDE DEF from
  <2>4. /\ SubSeq(letters, from, Len(letters)) \in Seq(Envelopes)
        /\ Len(SubSeq(letters, from, Len(letters))) =
             IF from <= Len(letters) THEN Len(letters) - from + 1 ELSE 0
    BY <2>1, SubSeqProperties
  <2> QED
    BY <1>1, <2>2, <2>3, <2>4
<1>3. CASE ~(Len(letters) > DeadLetterMax)
  BY <1>1, <1>3 DEF Recent
<1> QED
  BY <1>2, <1>3

\* What a POST changes.
LEMMA AnsweredType ==
  ASSUME Histories, NEW e \in Envelopes, NEW final \in BOOLEAN, Answered(e, final)
  PROVE  /\ posts' \in [Envelopes -> Nat] /\ answers' \in [Envelopes -> Nat]
         /\ posts'[e] = posts[e] + 1
         /\ \A f \in Envelopes : f # e => posts'[f] = posts[f] /\ answers'[f] = answers[f]
         /\ answers'[e] >= answers[e] /\ (final => answers'[e] > 0)
         /\ ~final => answers'[e] = answers[e]
<1>1. posts' = [posts EXCEPT ![e] = posts[e] + 1]
  BY DEF Answered
<1>2. CASE final
  <2>1. answers' = [answers EXCEPT ![e] = answers[e] + 1]
    BY <1>2 DEF Answered
  <2> QED
    BY <1>1, <1>2, <2>1 DEF Histories
<1>3. CASE ~final
  <2>1. answers' = answers
    BY <1>3 DEF Answered
  <2> QED
    BY <1>1, <1>3, <2>1 DEF Histories
<1> QED
  BY <1>2, <1>3

LEMMA InitTypes == Init => TypeOK /\ Histories /\ SingleFlight
<1> SUFFICES ASSUME Init PROVE TypeOK /\ Histories /\ SingleFlight
  OBVIOUS
<1>1. worker = [w \in Workers |-> Idle] /\ lock = Nobody
  BY DEF Init
<1>2. worker \in [Workers -> Loop]
  BY <1>1, IdleType
<1>3. SingleFlight
  BY <1>1, WorkersAssumption DEF SingleFlight
<1>4. <<>> \in Seq(Entry) /\ <<>> \in Seq(Row) /\ <<>> \in Seq(Envelopes) /\ Len(<<>>) = 0
  OBVIOUS
<1>5. Histories /\ DeadLettersCapped
  <2>1. ~ \E w \in Workers : worker[w].pc = "trim"
    BY <1>1, IdleType
  <2> QED
    BY <1>4, <2>1, BoundsTypes DEF Init, Histories, DeadLettersCapped
<1>6. sent \in [Envelopes -> {"new", "withheld", "answered", "failed", "queued", "forgotten"}]
  BY DEF Init
<1> QED
  BY <1>1, <1>2, <1>3, <1>4, <1>5, <1>6, BoundsTypes DEF Init, TypeOK, Loop

LEMMA QueueFacts ==
  ASSUME TypeOK
  PROVE  /\ \A e : InQueue(e) <=> \E x \in Range(queue) : x.envelope = e
         /\ \A e : InProcessing(e) <=> \E r \in Range(processing) : r.entry.envelope = e
         /\ Range(queue) \subseteq Entry /\ Range(processing) \subseteq Row
  BY ListFacts DEF TypeOK, InQueue, InProcessing, Range

\* The cap of the dead letters: RPUSH comes only when no drain is at LTRIM, and a
\* drain leaves LTRIM out only by dying.
LEMMA StepKeepsCap ==
  ASSUME Inv, [Next]_vars
  PROVE  DeadLettersCapped'
<1> DEFINE Trimming == \E w \in Workers : worker[w].pc = "trim"
<1>0. /\ TypeOK /\ Histories /\ SingleFlight /\ deadLetter \in Seq(Envelopes)
      /\ worker \in [Workers -> Loop]
  BY DEF Inv, TypeOK, Loop
<1>1. crashes \in Nat /\ Len(deadLetter) \in Nat /\ DeadLetterMax \in Nat
  BY <1>0, BoundsTypes DEF Histories
<1>2. Len(deadLetter) <= DeadLetterMax + crashes + (IF Trimming THEN 1 ELSE 0)
  BY <1>0 DEF TypeOK, DeadLettersCapped
<1>3. ASSUME deadLetter' = deadLetter, worker' = worker, crashes' = crashes \/ crashes' = crashes + 1
      PROVE  DeadLettersCapped'
  <2>1. Trimming' <=> Trimming
    BY <1>3
  <2> HIDE DEF Trimming
  <2>2. Len(deadLetter') <= DeadLetterMax + crashes' + (IF Trimming' THEN 1 ELSE 0)
    BY <1>1, <1>2, <1>3, <2>1
  <2> QED
    BY <2>2 DEF DeadLettersCapped, Trimming
<1>4. ASSUME ~Trimming, deadLetter' = deadLetter, crashes' = crashes \/ crashes' = crashes + 1
      PROVE  DeadLettersCapped'
  <2>1. Len(deadLetter') <= DeadLetterMax + crashes'
    <3> HIDE DEF Trimming
    <3> QED
      BY <1>1, <1>2, <1>4
  <2> QED
    BY <1>1, <1>4, <2>1 DEF DeadLettersCapped
<1>5. ASSUME NEW w \in Workers, worker[w].pc \notin {"idle", "trim"}
      PROVE  ~Trimming
  BY <1>0, <1>5, Alone, IdleType
<1>6. ASSUME NEW w \in Workers, SweepStart(w)
      PROVE  DeadLettersCapped'
  <2>1. \A v \in Workers : worker[v] = Idle
    BY <1>0, <1>6, WorkersAssumption DEF SweepStart, SingleFlight
  <2>2. ~Trimming
    BY <2>1, IdleType
  <2> QED
    BY <1>4, <1>6, <2>2 DEF SweepStart, lists
<1>7. ASSUME NEW w \in Workers, NEW why \in {"aged", "exhausted"}, Bury(w, why),
             worker[w].pc \in {"resolve", "failed"}, crashes' = crashes
      PROVE  DeadLettersCapped'
  <2>1. InHand(w).envelope \in Envelopes
    BY <1>7, HandType DEF Holding
  <2>2. Len(deadLetter') = Len(deadLetter) + 1 /\ worker' = [worker EXCEPT ![w].pc = "trim"]
    BY <1>0, <1>7, <2>1, BuryType DEF To
  <2>3. worker'[w].pc = "trim"
    BY <1>0, <2>2 DEF Loop
  <2>4. ~Trimming
    BY <1>5, <1>7
  <2>5. Len(deadLetter) <= DeadLetterMax + crashes
    <3> HIDE DEF Trimming
    <3> QED
      BY <1>1, <1>2, <2>4
  <2>6. Len(deadLetter') <= DeadLetterMax + crashes' + 1
    BY <1>1, <1>7, <2>2, <2>5
  <2> QED
    BY <2>3, <2>6 DEF DeadLettersCapped
<1>8. ASSUME NEW w \in Workers, Trim(w)
      PROVE  DeadLettersCapped'
  <2>1. deadLetter' = Recent(deadLetter) /\ crashes' = crashes
    BY <1>8 DEF Trim
  <2>2. deadLetter' \in Seq(Envelopes) /\ Len(deadLetter') <= DeadLetterMax
    BY <1>0, <2>1, RecentType
  <2>3. Len(deadLetter') <= DeadLetterMax + crashes'
    BY <1>1, <2>1, <2>2
  <2> QED
    BY <1>1, <2>1, <2>2, <2>3 DEF DeadLettersCapped
<1>9. ASSUME NEW w \in Workers, WorkerCrash(w)
      PROVE  DeadLettersCapped'
  <2>1. /\ deadLetter' = deadLetter /\ crashes' = crashes + 1 /\ worker[w].pc # "idle"
        /\ worker' = [worker EXCEPT ![w] = Idle]
    BY <1>9 DEF WorkerCrash, lists
  <2>2. Len(deadLetter') <= DeadLetterMax + crashes'
    <3> HIDE DEF Trimming
    <3> QED
      BY <1>1, <1>2, <2>1
  <2> QED
    BY <1>1, <2>1, <2>2 DEF DeadLettersCapped
<1>10. ASSUME NEW w \in Workers,
              \/ ReclaimList(w) \/ ReclaimSkip(w) \/ ReclaimRequeue(w) \/ ReclaimRemove(w)
              \/ Count(w) \/ Claim(w) \/ Stamp(w) \/ ResolveEarly(w) \/ Deliver(w)
              \/ Reschedule(w) \/ Acknowledge(w) \/ Unlock(w)
       PROVE  DeadLettersCapped'
  <2>1. /\ worker[w].pc \notin {"idle", "trim"}
        /\ deadLetter' = deadLetter /\ crashes' = crashes
    BY <1>10 DEF ReclaimList, ReclaimSkip, ReclaimRequeue, ReclaimRemove, Count, Claim, Stamp,
                 ResolveEarly, Deliver, Reschedule, Acknowledge, Unlock, lists
  <2> QED
    BY <1>4, <1>5, <2>1
<1>11. ASSUME NEW e \in Envelopes, Withhold(e) \/ SendFirst(e) \/ Enqueue(e) \/ SenderCrash(e)
       PROVE  DeadLettersCapped'
  BY <1>3, <1>11 DEF Withhold, SendFirst, Enqueue, SenderCrash, lists
<1>12. CASE UNCHANGED vars
  BY <1>3, <1>12 DEF vars, lists
<1>13. ASSUME NEW w \in Workers, ResolveAged(w) \/ BuryExhausted(w)
       PROVE  DeadLettersCapped'
  BY <1>7, <1>13 DEF ResolveAged, BuryExhausted
<1> QED
  BY <1>6, <1>8, <1>9, <1>10, <1>11, <1>12, <1>13 DEF Next, SenderStep, WorkerStep

LEMMA StepTypes ==
  ASSUME Inv, [Next]_vars
  PROVE  TypeOK' /\ Histories' /\ SingleFlight'
<1> DEFINE Sent == {"new", "withheld", "answered", "failed", "queued", "forgotten"}
           Good == TypeOK' /\ Histories' /\ SingleFlight'
<1>0. TypeOK /\ Histories /\ SingleFlight
  BY DEF Inv
<1>1. /\ sent \in [Envelopes -> Sent] /\ queue \in Seq(Entry) /\ processing \in Seq(Row)
      /\ deadLetter \in Seq(Envelopes)
      /\ lock \in Workers \cup {Nobody} /\ worker \in [Workers -> Loop]
      /\ due \subseteq Entry /\ aged \subseteq Envelopes /\ stale \subseteq Nat
  BY <1>0 DEF TypeOK, Loop
<1>2. ASSUME /\ sent' \in [Envelopes -> Sent] /\ queue' \in Seq(Entry) /\ processing' \in Seq(Row)
             /\ deadLetter' \in Seq(Envelopes)
             /\ lock' \in Workers \cup {Nobody} /\ worker' \in [Workers -> Loop]
             /\ due' \subseteq Entry /\ aged' \subseteq Envelopes /\ stale' \subseteq Nat
      PROVE  TypeOK'
  BY <1>2, StepKeepsCap DEF TypeOK, Loop
<1>3. ASSUME NEW w \in Workers, NEW x \in Loop, worker[w].pc # "idle", x.pc # "idle",
             worker' = [worker EXCEPT ![w] = x], lock' = lock
      PROVE  lock' \in Workers \cup {Nobody} /\ worker' \in [Workers -> Loop] /\ SingleFlight'
  BY <1>0, <1>3, Turn
<1>4. ASSUME NEW w \in Workers, NEW pc \in Pcs \ {"idle"}, worker[w].pc # "idle", To(w, pc),
             lock' = lock
      PROVE  lock' \in Workers \cup {Nobody} /\ worker' \in [Workers -> Loop] /\ SingleFlight'
  <2> DEFINE x == [worker[w] EXCEPT !.pc = pc]
  <2>1. worker' = [worker EXCEPT ![w] = x]
    BY <1>4 DEF To
  <2>2. x \in Loop /\ x.pc # "idle"
    BY <1>1 DEF Loop
  <2> QED
    BY <1>3, <1>4, <2>1, <2>2
<1>5. ASSUME UNCHANGED <<posts, answers, buried, crashes>> PROVE Histories'
  BY <1>0, <1>5 DEF Histories
<1>6. ASSUME UNCHANGED <<worker, lock>>
      PROVE  lock' \in Workers \cup {Nobody} /\ worker' \in [Workers -> Loop] /\ SingleFlight'
  BY <1>0, <1>1, <1>6 DEF SingleFlight
<1>7. \A w \in Workers : worker[w] \in Loop
  BY <1>1
<1> HIDE DEF Sent
<1>10. ASSUME NEW e \in Envelopes, Withhold(e) PROVE Good
  <2>1. sent' \in [Envelopes -> Sent]
    BY <1>1, <1>10 DEF Withhold, Sent
  <2> QED
    BY <1>1, <1>2, <1>5, <1>6, <1>10, <2>1 DEF Withhold, lists, clock, history
<1>11. ASSUME NEW e \in Envelopes, SendFirst(e) PROVE Good
  <2>1. PICK final \in BOOLEAN : /\ Answered(e, final)
                                 /\ sent' = [sent EXCEPT ![e] = IF final THEN "answered" ELSE "failed"]
    BY <1>11 DEF SendFirst
  <2>2. sent' \in [Envelopes -> Sent]
    BY <1>1, <2>1 DEF Sent
  <2>3. Histories'
    BY <1>0, <1>11, <2>1, AnsweredType DEF SendFirst, Histories
  <2> QED
    BY <1>1, <1>2, <1>6, <1>11, <2>2, <2>3 DEF SendFirst, lists, clock
<1>12. ASSUME NEW e \in Envelopes, Enqueue(e) PROVE Good
  <2>1. sent' \in [Envelopes -> Sent]
    BY <1>1, <1>12 DEF Enqueue, Sent
  <2>2. [envelope |-> e, attempt |-> 0] \in Entry
    BY BoundsTypes DEF Entry
  <2>3. queue' \in Seq(Entry)
    BY <1>1, <1>12, <2>2, AppendRange DEF Enqueue
  <2> QED
    BY <1>1, <1>2, <1>5, <1>6, <1>12, <2>1, <2>3 DEF Enqueue, clock, history
<1>13. ASSUME NEW e \in Envelopes, SenderCrash(e) PROVE Good
  <2>1. sent' \in [Envelopes -> Sent]
    BY <1>1, <1>13 DEF SenderCrash, Sent
  <2>2. Histories'
    BY <1>0, <1>13 DEF SenderCrash, Histories, history
  <2> QED
    BY <1>1, <1>2, <1>6, <1>13, <2>1, <2>2 DEF SenderCrash, lists, clock
<1>14. ASSUME NEW w \in Workers, SweepStart(w) PROVE Good
  <2> DEFINE x == [worker[w] EXCEPT !.pc = "list"]
  <2>1. worker' = [worker EXCEPT ![w] = x] /\ lock = Nobody /\ lock' = w
    BY <1>14 DEF SweepStart, To
  <2>2. x \in Loop /\ x.pc # "idle"
    BY <1>7 DEF Loop, Pcs
  <2> HIDE DEF x
  <2>3. worker' \in [Workers -> Loop] /\ worker'[w] = x
    BY <1>1, <2>1, <2>2
  <2>4. \A v \in Workers : worker[v] = Idle
    BY <1>0, <2>1, WorkersAssumption DEF SingleFlight
  <2>5. \A v \in Workers : v # w => worker'[v] = Idle
    BY <1>1, <2>1, <2>4
  <2>6. SingleFlight'
    BY <2>1, <2>2, <2>3, <2>5 DEF SingleFlight
  <2>7. due' \subseteq Entry
    <3>1. Range(queue) \subseteq Entry
      BY <1>0, QueueFacts
    <3> QED
      BY <1>1, <1>14, <3>1 DEF SweepStart
  <2>8. aged' \subseteq Envelopes
    BY <1>1, <1>14 DEF SweepStart
  <2>9. stale' \subseteq Nat
    <3>1. {processing[i].claim : i \in DOMAIN processing} \subseteq Nat
      <4>1. \A i \in DOMAIN processing : processing[i] \in Row
        BY <1>1
      <4> QED
        BY <4>1 DEF Row
    <3> QED
      BY <1>1, <1>14, <3>1 DEF SweepStart
  <2>10. Histories'
    BY <1>5, <1>14 DEF SweepStart, history
  <2> QED
    BY <1>1, <1>2, <1>14, <2>1, <2>3, <2>6, <2>7, <2>8, <2>9, <2>10 DEF SweepStart, lists
<1>15. ASSUME NEW w \in Workers, ReclaimList(w) PROVE Good
  <2> DEFINE x == [worker[w] EXCEPT !.pc = "reclaim", !.listed = processing]
  <2>1. worker' = [worker EXCEPT ![w] = x] /\ worker[w].pc = "list"
    BY <1>15 DEF ReclaimList
  <2>2. x \in Loop /\ x.pc # "idle"
    BY <1>1, <1>7 DEF Loop, Pcs
  <2> QED
    BY <1>1, <1>2, <1>3, <1>5, <1>15, <2>1, <2>2 DEF ReclaimList, lists, clock, history
<1>16. ASSUME NEW w \in Workers, ReclaimSkip(w) PROVE Good
  <2> DEFINE x == [worker[w] EXCEPT !.listed = Tail(worker[w].listed)]
  <2>1. worker' = [worker EXCEPT ![w] = x] /\ worker[w].pc = "reclaim" /\ worker[w].listed # <<>>
    BY <1>16 DEF ReclaimSkip
  <2>2. x \in Loop /\ x.pc # "idle"
    <3>1. Tail(worker[w].listed) \in Seq(Row)
      BY <1>7, <2>1, TailRange DEF Loop
    <3> QED
      BY <1>7, <2>1, <3>1 DEF Loop, Pcs
  <2> QED
    BY <1>1, <1>2, <1>3, <1>5, <1>16, <2>1, <2>2 DEF ReclaimSkip, lists, clock, history
<1>17. ASSUME NEW w \in Workers, ReclaimRequeue(w) PROVE Good
  <2>1. Head(worker[w].listed).entry \in Entry
    <3>1. Head(worker[w].listed) \in Row
      BY <1>7, <1>17, TailRange DEF ReclaimRequeue, Loop
    <3> QED
      BY <3>1 DEF Row
  <2>2. queue' \in Seq(Entry)
    BY <1>1, <1>17, <2>1, AppendRange DEF ReclaimRequeue
  <2>3. lock' \in Workers \cup {Nobody} /\ worker' \in [Workers -> Loop] /\ SingleFlight'
    BY <1>4, <1>17 DEF ReclaimRequeue, Pcs
  <2> QED
    BY <1>1, <1>2, <1>5, <1>17, <2>2, <2>3 DEF ReclaimRequeue, clock, history
<1>18. ASSUME NEW w \in Workers, ReclaimRemove(w) PROVE Good
  <2> DEFINE x == [worker[w] EXCEPT !.pc = "reclaim", !.listed = Tail(worker[w].listed)]
  <2>1. worker' = [worker EXCEPT ![w] = x] /\ worker[w].pc = "unlist" /\ worker[w].listed # <<>>
    <3>1. worker' = [worker EXCEPT ![w] = x] /\ worker[w].pc = "unlist"
      BY <1>18 DEF ReclaimRemove
    <3>2. Position(w)
      BY DEF Inv, Positions
    <3> QED
      BY <3>1, <3>2 DEF Position
  <2>2. x \in Loop /\ x.pc # "idle"
    <3>1. Tail(worker[w].listed) \in Seq(Row)
      BY <1>7, <2>1, TailRange DEF Loop
    <3> QED
      BY <1>7, <3>1 DEF Loop, Pcs
  <2>3. processing' \in Seq(Row)
    <3>1. Head(worker[w].listed) \in Row
      BY <1>7, <2>1, TailRange DEF Loop
    <3> QED
      BY <1>1, <1>18, <3>1, RemoveFirstRange DEF ReclaimRemove
  <2>4. lock' \in Workers \cup {Nobody} /\ worker' \in [Workers -> Loop] /\ SingleFlight'
    BY <1>3, <1>18, <2>1, <2>2 DEF ReclaimRemove
  <2> QED
    BY <1>1, <1>2, <1>5, <1>18, <2>3, <2>4 DEF ReclaimRemove, clock, history
<1>19. ASSUME NEW w \in Workers, Count(w) PROVE Good
  <2> DEFINE x == [worker[w] EXCEPT !.pc = IF queue = <<>> THEN "unlock" ELSE "claim",
                                    !.left = Len(queue)]
  <2>1. worker' = [worker EXCEPT ![w] = x] /\ worker[w].pc = "reclaim"
    BY <1>19 DEF Count
  <2>2. x \in Loop /\ x.pc # "idle"
    <3>1. Len(queue) \in Nat
      BY <1>1
    <3> QED
      BY <1>7, <3>1 DEF Loop, Pcs
  <2> QED
    BY <1>1, <1>2, <1>3, <1>5, <1>19, <2>1, <2>2 DEF Count, lists, clock, history
<1>20. ASSUME NEW w \in Workers, Claim(w) PROVE Good
  <2> DEFINE row == [entry |-> Last(queue), claim |-> Unclaimed]
             x == [worker[w] EXCEPT !.pc = "stamp", !.held = row, !.left = worker[w].left - 1]
  <2>1. /\ worker' = [worker EXCEPT ![w] = x] /\ worker[w].pc = "claim"
        /\ queue # <<>> /\ queue' = Front(queue) /\ processing' = Cons(row, processing)
    <3>1. worker[w].pc = "claim" /\ queue # <<>> /\ queue' = Front(queue)
      BY <1>20 DEF Claim
    <3>2. processing' = Cons(row, processing)
      BY <1>20 DEF Claim
    <3>3. worker' = [worker EXCEPT ![w] = x]
      BY <1>20 DEF Claim
    <3> QED
      BY <3>1, <3>2, <3>3
  <2>2. row \in Row
    BY <1>1, <2>1, FrontRange DEF Row, Unclaimed
  <2>3. worker[w].left - 1 \in Nat
    <3>1. worker[w].left > 0 /\ worker[w].left \in Nat
      BY <1>7, <2>1 DEF Inv, Positions, Position, Loop
    <3> QED
      BY <3>1
  <2>4. x \in Loop /\ x.pc # "idle"
    BY <1>7, <2>2, <2>3 DEF Loop, Pcs
  <2>5. queue' \in Seq(Entry) /\ processing' \in Seq(Row)
    <3> HIDE DEF row
    <3> QED
      BY <1>1, <2>1, <2>2, FrontRange, ConsRange
  <2>6. lock' \in Workers \cup {Nobody} /\ worker' \in [Workers -> Loop] /\ SingleFlight'
    BY <1>3, <1>20, <2>1, <2>4 DEF Claim
  <2> QED
    BY <1>1, <1>2, <1>5, <1>20, <2>5, <2>6 DEF Claim, clock, history
<1>21. ASSUME NEW w \in Workers, Stamp(w) PROVE Good
  <2>1. processing # <<>> /\ worker[w].pc = "stamp"
    BY <1>21 DEF Stamp, Inv, Positions, Position
  <2> DEFINE row == [entry |-> InHand(w), claim |-> FreshClaim]
             x == [worker[w] EXCEPT !.pc = "resolve", !.held = row]
  <2>2. /\ processing' = ReplaceAt(processing, 1, row) /\ worker' = [worker EXCEPT ![w] = x]
        /\ stale' = stale \ {row.claim}
    BY <1>21, <2>1 DEF Stamp
  <2>3. row \in Row
    <3>1. FreshClaim \in Nat
      BY <1>1, FreshClaimType
    <3>2. InHand(w) \in Entry
      BY <2>1, HandType DEF Holding
    <3> QED
      BY <3>1, <3>2 DEF Row
  <2>4. x \in Loop /\ x.pc # "idle"
    BY <1>7, <2>3 DEF Loop, Pcs
  <2>5. processing' \in Seq(Row) /\ stale' \subseteq Nat
    <3> HIDE DEF row
    <3> QED
      BY <1>1, <2>1, <2>2, <2>3, ReplaceHead
  <2>6. lock' \in Workers \cup {Nobody} /\ worker' \in [Workers -> Loop] /\ SingleFlight'
    BY <1>3, <1>21, <2>1, <2>2, <2>4 DEF Stamp
  <2> QED
    BY <1>1, <1>2, <1>5, <1>21, <2>5, <2>6 DEF Stamp, history
<1>22. ASSUME NEW w \in Workers, ResolveAged(w) PROVE Good
  <2>1. worker[w].pc = "resolve" /\ Bury(w, "aged") /\ InHand(w).envelope \in Envelopes
    BY <1>22, HandType DEF ResolveAged, Holding
  <2>2. /\ deadLetter' \in Seq(Envelopes) /\ To(w, "trim")
        /\ buried' \in [Envelopes -> {"no", "aged", "exhausted"}]
    BY <1>0, <2>1, BuryType
  <2>3. lock' \in Workers \cup {Nobody} /\ worker' \in [Workers -> Loop] /\ SingleFlight'
    BY <1>4, <1>22, <2>1, <2>2 DEF ResolveAged, Pcs
  <2>4. Histories'
    BY <1>0, <1>22, <2>2 DEF ResolveAged, Histories
  <2> QED
    BY <1>1, <1>2, <1>22, <2>2, <2>3, <2>4 DEF ResolveAged, clock
<1>23. ASSUME NEW w \in Workers, ResolveEarly(w) PROVE Good
  <2>1. InHand(w) \in Entry
    BY <1>23, HandType DEF ResolveEarly, Holding
  <2>2. queue' \in Seq(Entry)
    BY <1>1, <1>23, <2>1, ConsRange DEF ResolveEarly
  <2>3. lock' \in Workers \cup {Nobody} /\ worker' \in [Workers -> Loop] /\ SingleFlight'
    BY <1>4, <1>23 DEF ResolveEarly, Pcs
  <2> QED
    BY <1>1, <1>2, <1>5, <1>23, <2>2, <2>3 DEF ResolveEarly, clock, history
<1>24. ASSUME NEW w \in Workers, Deliver(w) PROVE Good
  <2>1. PICK final \in BOOLEAN : /\ Answered(InHand(w).envelope, final)
                                 /\ To(w, IF final THEN "remove" ELSE "failed")
    BY <1>24 DEF Deliver
  <2>2. InHand(w).envelope \in Envelopes
    BY <1>24, HandType DEF Deliver, Holding
  <2>3. Histories'
    BY <1>0, <1>24, <2>1, <2>2, AnsweredType DEF Deliver, Histories
  <2>4. lock' \in Workers \cup {Nobody} /\ worker' \in [Workers -> Loop] /\ SingleFlight'
    BY <1>4, <1>24, <2>1 DEF Deliver, Pcs
  <2> QED
    BY <1>1, <1>2, <1>24, <2>3, <2>4 DEF Deliver, lists, clock
<1>25. ASSUME NEW w \in Workers, BuryExhausted(w) PROVE Good
  <2>1. worker[w].pc = "failed" /\ Bury(w, "exhausted") /\ InHand(w).envelope \in Envelopes
    BY <1>25, HandType DEF BuryExhausted, Holding
  <2>2. /\ deadLetter' \in Seq(Envelopes) /\ To(w, "trim")
        /\ buried' \in [Envelopes -> {"no", "aged", "exhausted"}]
    BY <1>0, <2>1, BuryType
  <2>3. lock' \in Workers \cup {Nobody} /\ worker' \in [Workers -> Loop] /\ SingleFlight'
    BY <1>4, <1>25, <2>1, <2>2 DEF BuryExhausted, Pcs
  <2>4. Histories'
    BY <1>0, <1>25, <2>2 DEF BuryExhausted, Histories
  <2> QED
    BY <1>1, <1>2, <1>25, <2>2, <2>3, <2>4 DEF BuryExhausted, clock
<1>32. ASSUME NEW w \in Workers, Trim(w) PROVE Good
  <2>1. deadLetter' \in Seq(Envelopes)
    BY <1>1, <1>32, RecentType DEF Trim
  <2>2. lock' \in Workers \cup {Nobody} /\ worker' \in [Workers -> Loop] /\ SingleFlight'
    BY <1>4, <1>32 DEF Trim, Pcs
  <2> QED
    BY <1>1, <1>2, <1>5, <1>32, <2>1, <2>2 DEF Trim, clock, history
<1>26. ASSUME NEW w \in Workers, Reschedule(w) PROVE Good
  <2> DEFINE next == [InHand(w) EXCEPT !.attempt = InHand(w).attempt + 1]
  <2>1. queue' = Cons(next, queue) /\ due' = due \ {next}
    BY <1>26 DEF Reschedule
  <2>2. next \in Entry
    BY <1>26, HandType, BoundsTypes DEF Reschedule, Holding, Exhausted, Entry
  <2>3. queue' \in Seq(Entry) /\ due' \subseteq Entry
    <3> HIDE DEF next
    <3> QED
      BY <1>1, <2>1, <2>2, ConsRange
  <2>4. lock' \in Workers \cup {Nobody} /\ worker' \in [Workers -> Loop] /\ SingleFlight'
    BY <1>4, <1>26 DEF Reschedule, Pcs
  <2> QED
    BY <1>1, <1>2, <1>5, <1>26, <2>3, <2>4 DEF Reschedule, history
<1>27. ASSUME NEW w \in Workers, Acknowledge(w) PROVE Good
  <2> DEFINE x == [worker[w] EXCEPT !.pc = IF worker[w].left = 0 THEN "unlock" ELSE "claim",
                                    !.held = NoRow]
  <2>1. worker' = [worker EXCEPT ![w] = x] /\ worker[w].pc = "remove"
    BY <1>27 DEF Acknowledge
  <2>2. x \in Loop /\ x.pc # "idle"
    BY <1>7 DEF Loop, Pcs
  <2>3. processing' \in Seq(Row)
    BY <1>1, <1>27, HandType, RemoveFirstRange DEF Acknowledge, Holding
  <2>4. lock' \in Workers \cup {Nobody} /\ worker' \in [Workers -> Loop] /\ SingleFlight'
    BY <1>3, <1>27, <2>1, <2>2 DEF Acknowledge
  <2> QED
    BY <1>1, <1>2, <1>5, <1>27, <2>3, <2>4 DEF Acknowledge, clock, history
<1>28. ASSUME NEW w \in Workers, worker[w].pc # "idle", worker' = [worker EXCEPT ![w] = Idle],
              lock' = IF lock = w THEN Nobody ELSE lock
       PROVE  lock' \in Workers \cup {Nobody} /\ worker' \in [Workers -> Loop] /\ SingleFlight'
  <2>1. lock = w /\ \A v \in Workers : v # w => worker[v] = Idle
    BY <1>0, <1>28, Alone
  <2>2. worker' \in [Workers -> Loop] /\ \A v \in Workers : worker'[v] = Idle
    BY <1>1, <1>28, <2>1, IdleType
  <2>3. lock' = Nobody
    BY <1>28, <2>1
  <2> QED
    BY <2>2, <2>3, WorkersAssumption DEF SingleFlight
<1>29. ASSUME NEW w \in Workers, Unlock(w) PROVE Good
  BY <1>1, <1>2, <1>5, <1>28, <1>29 DEF Unlock, lists, clock, history
<1>30. ASSUME NEW w \in Workers, WorkerCrash(w) PROVE Good
  <2>1. Histories'
    BY <1>0, <1>30 DEF WorkerCrash, Histories, history
  <2> QED
    BY <1>1, <1>2, <1>28, <1>30, <2>1 DEF WorkerCrash, lists, clock
<1>31. CASE UNCHANGED vars
  BY <1>1, <1>2, <1>5, <1>6, <1>31 DEF vars, lists, clock, history
<1> QED
  BY <1>10, <1>11, <1>12, <1>13, <1>14, <1>15, <1>16, <1>17, <1>18, <1>19, <1>20, <1>21,
     <1>22, <1>23, <1>24, <1>25, <1>26, <1>27, <1>29, <1>30, <1>31, <1>32
     DEF Next, SenderStep, WorkerStep

-----------------------------------------------------------------------------
(* What is kept between two commands, and that nothing is lost. *)

LEMMA QueueFactsNext ==
  ASSUME TypeOK'
  PROVE  /\ \A e : InQueue(e)' <=> \E x \in Range(queue') : x.envelope = e
         /\ \A e : InProcessing(e)' <=> \E r \in Range(processing') : r.entry.envelope = e
  BY ListFacts DEF TypeOK, InQueue, InProcessing, Range

LEMMA PositionsFrom ==
  ASSUME SingleFlight', NEW w \in Workers, worker'[w].pc # "idle", Position(w)'
  PROVE  Positions'
<1>1. lock' = w
  BY IdleType DEF SingleFlight
<1>2. \A v \in Workers : v # w => worker'[v] = Idle
  BY <1>1 DEF SingleFlight
<1>3. \A v \in Workers : worker'[v] = Idle => Position(v)'
  BY IdleType DEF Position, Holding
<1> QED
  BY <1>2, <1>3 DEF Positions

LEMMA LostFrom ==
  ASSUME NoEnvelopeLost,
         \A e \in Envelopes : sent'[e] = "queued" => sent[e] = "queued" \/ InQueue(e)',
         \A e \in Envelopes : Settled(e) => Settled(e)',
         \A e \in Envelopes : InQueue(e) \/ InProcessing(e) =>
                                Settled(e)' \/ InQueue(e)' \/ InProcessing(e)'
  PROVE  NoEnvelopeLost'
  BY DEF NoEnvelopeLost

\* A settled webhook stays so.
LEMMA SettledStays ==
  ASSUME Inv, [Next]_vars
  PROVE  \A e \in Envelopes : Settled(e) => Settled(e)'
<1>0. TypeOK /\ Histories
  BY DEF Inv
<1>1. \A e \in Envelopes : answers[e] \in Nat
  BY <1>0 DEF Histories
<1>2. ASSUME NEW f \in Envelopes, NEW final \in BOOLEAN, Answered(f, final), buried' = buried
      PROVE  \A e \in Envelopes : Settled(e) => Settled(e)'
  <2>1. \A e \in Envelopes : answers'[e] >= answers[e] /\ answers'[e] \in Nat
    <3>1. answers' \in [Envelopes -> Nat] /\ answers'[f] >= answers[f]
      BY <1>0, <1>2, AnsweredType
    <3>2. \A e \in Envelopes : e # f => answers'[e] = answers[e]
      BY <1>0, <1>2, AnsweredType
    <3> QED
      BY <1>1, <3>1, <3>2
  <2> QED
    BY <1>1, <1>2, <2>1 DEF Settled
<1>3. ASSUME NEW w \in Workers, InHand(w).envelope \in Envelopes,
             NEW why \in {"aged", "exhausted"}, Bury(w, why), answers' = answers
      PROVE  \A e \in Envelopes : Settled(e) => Settled(e)'
  <2>1. /\ buried'[InHand(w).envelope] = why
        /\ \A e \in Envelopes : e # InHand(w).envelope => buried'[e] = buried[e]
    BY <1>0, <1>3, BuryType
  <2> QED
    BY <1>3, <2>1 DEF Settled
<1>4. ASSUME answers' = answers, buried' = buried
      PROVE  \A e \in Envelopes : Settled(e) => Settled(e)'
  BY <1>4 DEF Settled
<1>5. ASSUME NEW e \in Envelopes, SendFirst(e)
      PROVE  \A f \in Envelopes : Settled(f) => Settled(f)'
  BY <1>2, <1>5 DEF SendFirst
<1>6. ASSUME NEW w \in Workers, ResolveAged(w)
      PROVE  \A e \in Envelopes : Settled(e) => Settled(e)'
  BY <1>3, <1>6, HandType DEF ResolveAged, Holding
<1>7. ASSUME NEW w \in Workers, BuryExhausted(w)
      PROVE  \A e \in Envelopes : Settled(e) => Settled(e)'
  BY <1>3, <1>7, HandType DEF BuryExhausted, Holding
<1>8. ASSUME NEW w \in Workers, Deliver(w)
      PROVE  \A e \in Envelopes : Settled(e) => Settled(e)'
  BY <1>2, <1>8, HandType DEF Deliver, Holding
<1>9. CASE UNCHANGED vars
  BY <1>4, <1>9 DEF vars, history
<1>10. ASSUME NEW e \in Envelopes, Withhold(e) \/ Enqueue(e) \/ SenderCrash(e)
       PROVE  answers' = answers /\ buried' = buried
  BY <1>10 DEF Withhold, Enqueue, SenderCrash, history
<1>11. ASSUME NEW w \in Workers,
              \/ SweepStart(w) \/ ReclaimList(w) \/ ReclaimSkip(w) \/ ReclaimRequeue(w)
              \/ ReclaimRemove(w) \/ Count(w) \/ Claim(w) \/ Stamp(w) \/ ResolveEarly(w)
              \/ Trim(w) \/ Reschedule(w) \/ Acknowledge(w) \/ Unlock(w) \/ WorkerCrash(w)
       PROVE  answers' = answers /\ buried' = buried
  BY <1>11 DEF SweepStart, ReclaimList, ReclaimSkip, ReclaimRequeue, ReclaimRemove, Count,
               Claim, Stamp, ResolveEarly, Trim, Reschedule, Acknowledge, Unlock, WorkerCrash, history
<1> QED
  BY <1>4, <1>5, <1>6, <1>7, <1>8, <1>9, <1>10, <1>11 DEF Next, SenderStep, WorkerStep

LEMMA StepKeepsPlace ==
  ASSUME Inv, [Next]_vars
  PROVE  Positions' /\ NoEnvelopeLost'
<1> DEFINE Good == Positions' /\ NoEnvelopeLost'
           Same == UNCHANGED <<queue, processing>>
<1>0. TypeOK /\ Histories /\ SingleFlight /\ Positions /\ NoEnvelopeLost
  BY DEF Inv
<1>1. TypeOK' /\ Histories' /\ SingleFlight'
  BY StepTypes
<1>2. \A e \in Envelopes : Settled(e) => Settled(e)'
  BY SettledStays
<1>3. queue \in Seq(Entry) /\ processing \in Seq(Row) /\ worker \in [Workers -> Loop]
  BY <1>0 DEF TypeOK, Loop
<1>4. \A w \in Workers : Position(w)
  BY <1>0 DEF Positions
<1>5. ASSUME Same, sent' = sent PROVE NoEnvelopeLost'
  BY <1>0, <1>2, <1>5, LostFrom DEF InQueue, InProcessing
<1>6. ASSUME NEW w \in Workers, worker'[w].pc # "idle", Position(w)' PROVE Positions'
  BY <1>1, <1>6, PositionsFrom
<1>7. ASSUME worker' = worker, processing' = processing,
             \A e \in Envelopes : InQueue(e) => InQueue(e)'
      PROVE  Positions'
  <2> SUFFICES ASSUME NEW w \in Workers PROVE Position(w)'
    BY DEF Positions
  <2>1. worker'[w] = worker[w] /\ InHand(w)' = InHand(w)
    BY <1>7 DEF InHand
  <2>2. worker[w].pc = "unlist" => Head(worker[w].listed).entry.envelope \in Envelopes
    <3> SUFFICES ASSUME worker[w].pc = "unlist"
                 PROVE  Head(worker[w].listed).entry.envelope \in Envelopes
      OBVIOUS
    <3>1. worker[w].listed # <<>> /\ worker[w].listed \in Seq(Row)
      BY <1>3, <1>4 DEF Position, Loop
    <3>2. Head(worker[w].listed) \in Row
      BY <3>1, TailRange
    <3> QED
      BY <3>2 DEF Row, Entry
  <2>3. worker[w].pc \in {"trim", "remove"} => InHand(w).envelope \in Envelopes
    BY HandType DEF Holding
  <2> QED
    BY <1>2, <1>4, <1>7, <2>1, <2>2, <2>3 DEF Position
<1>8. /\ \A e : InQueue(e) <=> \E x \in Range(queue) : x.envelope = e
      /\ \A e : InProcessing(e) <=> \E r \in Range(processing) : r.entry.envelope = e
      /\ \A e : InQueue(e)' <=> \E x \in Range(queue') : x.envelope = e
      /\ \A e : InProcessing(e)' <=> \E r \in Range(processing') : r.entry.envelope = e
  BY <1>0, <1>1, QueueFacts, QueueFactsNext
<1>9. ASSUME Range(queue) \subseteq Range(queue'), Range(processing) \subseteq Range(processing'),
             sent' = sent
      PROVE  NoEnvelopeLost'
  BY <1>0, <1>2, <1>8, <1>9, LostFrom
<1>10. ASSUME NEW e \in Envelopes, Withhold(e) PROVE Good
  <2>1. Positions'
    BY <1>7, <1>10 DEF Withhold, lists, InQueue
  <2>2. \A f \in Envelopes : sent'[f] = "queued" => sent[f] = "queued"
    BY <1>0, <1>10 DEF Withhold, TypeOK
  <2> QED
    BY <1>0, <1>2, <1>10, <2>1, <2>2, LostFrom DEF Withhold, lists, InQueue, InProcessing
<1>11. ASSUME NEW e \in Envelopes, SendFirst(e) PROVE Good
  <2>1. Positions'
    BY <1>7, <1>11 DEF SendFirst, lists, InQueue
  <2>2. \A f \in Envelopes : sent'[f] = "queued" => sent[f] = "queued"
    BY <1>0, <1>11 DEF SendFirst, TypeOK
  <2> QED
    BY <1>0, <1>2, <1>11, <2>1, <2>2, LostFrom DEF SendFirst, lists, InQueue, InProcessing
<1>12. ASSUME NEW e \in Envelopes, Enqueue(e) PROVE Good
  <2> DEFINE entry == [envelope |-> e, attempt |-> 0]
  <2>1. entry \in Entry /\ queue' = Append(queue, entry) /\ entry.envelope = e
    BY <1>12, BoundsTypes DEF Enqueue, Entry
  <2> HIDE DEF entry
  <2>2. Range(queue') = Range(queue) \cup {entry}
    BY <1>3, <2>1, AppendRange
  <2>3. \A f \in Envelopes : InQueue(f) => InQueue(f)'
    BY <1>8, <2>2
  <2>4. Positions'
    BY <1>7, <1>12, <2>3 DEF Enqueue
  <2>5. \A f \in Envelopes : sent'[f] = "queued" => sent[f] = "queued" \/ InQueue(f)'
    <3>1. InQueue(e)'
      BY <1>8, <2>1, <2>2
    <3>2. \A f \in Envelopes : f # e => sent'[f] = sent[f]
      BY <1>0, <1>12 DEF Enqueue, TypeOK
    <3> QED
      BY <3>1, <3>2
  <2>6. \A f \in Envelopes : InProcessing(f) => InProcessing(f)'
    BY <1>12 DEF Enqueue, InProcessing
  <2> QED
    BY <1>0, <1>2, <2>3, <2>4, <2>5, <2>6, LostFrom
<1>13. ASSUME NEW e \in Envelopes, SenderCrash(e) PROVE Good
  <2>1. Positions'
    BY <1>7, <1>13 DEF SenderCrash, lists, InQueue
  <2>2. \A f \in Envelopes : sent'[f] = "queued" => sent[f] = "queued"
    BY <1>0, <1>13 DEF SenderCrash, TypeOK
  <2> QED
    BY <1>0, <1>2, <1>13, <2>1, <2>2, LostFrom DEF SenderCrash, lists, InQueue, InProcessing
<1>14. ASSUME NEW w \in Workers, SweepStart(w) PROVE Good
  <2>1. worker' = [worker EXCEPT ![w].pc = "list"] /\ lock = Nobody
    BY <1>14 DEF SweepStart, To
  <2>2. worker'[w].pc = "list" /\ worker'[w].held = worker[w].held
    BY <1>3, <2>1 DEF Loop
  <2>3. worker[w].held = NoRow
    BY <1>0, <2>1, IdleType, WorkersAssumption DEF SingleFlight
  <2>4. Position(w)'
    BY <2>2, <2>3 DEF Position, Holding
  <2> QED
    BY <1>5, <1>6, <1>14, <2>2, <2>4 DEF SweepStart, lists
<1>15. ASSUME NEW w \in Workers, ReclaimList(w) PROVE Good
  <2>1. /\ worker'[w].pc = "reclaim" /\ worker'[w].held = worker[w].held
        /\ worker[w].pc = "list"
    BY <1>3, <1>15 DEF ReclaimList, Loop
  <2>2. worker[w].held = NoRow
    BY <1>4, <2>1 DEF Position, Holding
  <2>3. Position(w)'
    BY <2>1, <2>2 DEF Position, Holding
  <2> QED
    BY <1>5, <1>6, <1>15, <2>1, <2>3 DEF ReclaimList, lists
<1>16. ASSUME NEW w \in Workers, ReclaimSkip(w) PROVE Good
  <2>1. /\ worker'[w].pc = "reclaim" /\ worker'[w].held = worker[w].held
        /\ worker[w].pc = "reclaim"
    BY <1>3, <1>16 DEF ReclaimSkip, Loop
  <2>2. worker[w].held = NoRow
    BY <1>4, <2>1 DEF Position, Holding
  <2>3. Position(w)'
    BY <2>1, <2>2 DEF Position, Holding
  <2> QED
    BY <1>5, <1>6, <1>16, <2>1, <2>3 DEF ReclaimSkip, lists
<1>17. ASSUME NEW w \in Workers, ReclaimRequeue(w) PROVE Good
  <2> DEFINE entry == Head(worker[w].listed).entry
  <2>1. /\ worker[w].pc = "reclaim" /\ worker[w].listed # <<>>
        /\ queue' = Append(queue, entry) /\ processing' = processing /\ sent' = sent
        /\ worker' = [worker EXCEPT ![w].pc = "unlist"]
    BY <1>17 DEF ReclaimRequeue, To
  <2>2. /\ worker'[w].pc = "unlist" /\ worker'[w].held = worker[w].held
        /\ worker'[w].listed = worker[w].listed
    BY <1>3, <2>1 DEF Loop
  <2>3. entry \in Entry
    <3>1. worker[w].listed \in Seq(Row)
      BY <1>3 DEF Loop
    <3>2. Head(worker[w].listed) \in Row
      BY <2>1, <3>1, TailRange
    <3> QED
      BY <3>2 DEF Row
  <2>4. Range(queue') = Range(queue) \cup {entry}
    <3> HIDE DEF entry
    <3> QED
      BY <1>3, <2>1, <2>3, AppendRange
  <2>5. InQueue(Head(worker[w].listed).entry.envelope)'
    <3>1. \E x \in Range(queue') : x.envelope = Head(worker'[w].listed).entry.envelope
      BY <2>2, <2>4
    <3> QED
      BY <1>8, <3>1
  <2>6. Position(w)'
    <3>1. worker[w].held = NoRow
      BY <1>4, <2>1 DEF Position, Holding
    <3> QED
      BY <2>1, <2>2, <2>5, <3>1 DEF Position, Holding
  <2> QED
    BY <1>6, <1>9, <2>1, <2>2, <2>4, <2>6
<1>18. ASSUME NEW w \in Workers, ReclaimRemove(w) PROVE Good
  <2> DEFINE row == Head(worker[w].listed)
  <2>1. /\ worker[w].pc = "unlist" /\ worker'[w].pc = "reclaim" /\ worker'[w].held = worker[w].held
        /\ processing' = RemoveFirst(processing, row) /\ queue' = queue /\ sent' = sent
    BY <1>3, <1>18 DEF ReclaimRemove, Loop
  <2>2. worker[w].listed # <<>> /\ InQueue(row.entry.envelope) /\ worker[w].held = NoRow
    BY <1>4, <2>1 DEF Position, Holding
  <2>3. row \in Row
    <3>1. worker[w].listed \in Seq(Row)
      BY <1>3 DEF Loop
    <3> QED
      BY <2>2, <3>1, TailRange
  <2>4. Position(w)'
    BY <2>1, <2>2 DEF Position, Holding
  <2> HIDE DEF row
  <2>5. Range(processing) \ {row} \subseteq Range(processing')
    BY <1>3, <2>1, <2>3, RemoveFirstRange
  <2>6. \A e \in Envelopes : InQueue(e) \/ InProcessing(e) => InQueue(e)' \/ InProcessing(e)'
    BY <1>8, <2>1, <2>2, <2>5
  <2>7. NoEnvelopeLost'
    BY <1>0, <1>2, <2>1, <2>6, LostFrom
  <2> QED
    BY <1>6, <2>1, <2>4, <2>7
<1>19. ASSUME NEW w \in Workers, Count(w) PROVE Good
  <2>1. /\ worker'[w].pc = IF queue = <<>> THEN "unlock" ELSE "claim"
        /\ worker'[w].held = worker[w].held /\ worker[w].pc = "reclaim"
        /\ worker'[w].left = Len(queue)
    BY <1>3, <1>19 DEF Count, Loop
  <2>2. worker[w].held = NoRow
    BY <1>4, <2>1 DEF Position, Holding
  <2>3. queue # <<>> => Len(queue) > 0
    BY <1>3, EmptySeq
  <2>4. Position(w)'
    BY <2>1, <2>2, <2>3 DEF Position, Holding
  <2> QED
    BY <1>5, <1>6, <1>19, <2>1, <2>4 DEF Count, lists
<1>20. ASSUME NEW w \in Workers, Claim(w) PROVE Good
  <2> DEFINE row == [entry |-> Last(queue), claim |-> Unclaimed]
  <2>1. /\ worker[w].pc = "claim" /\ queue # <<>> /\ queue' = Front(queue)
        /\ processing' = Cons(row, processing) /\ sent' = sent
    BY <1>20 DEF Claim
  <2>2. worker'[w].pc = "stamp" /\ worker'[w].held = row
    BY <1>3, <1>20 DEF Claim, Loop
  <2>3. Last(queue) \in Entry /\ Range(queue) = Range(queue') \cup {Last(queue)}
    BY <1>3, <2>1, FrontRange
  <2>4. row \in Row /\ row.entry = Last(queue)
    BY <2>3 DEF Row, Unclaimed
  <2> HIDE DEF row
  <2>5. /\ processing' \in Seq(Row) /\ Len(processing') = Len(processing) + 1
        /\ processing'[1] = row /\ Range(processing') = Range(processing) \cup {row}
    <3>1. processing \in Seq(Row) /\ row \in Row
      BY <1>3, <2>4
    <3>2. /\ Cons(row, processing) \in Seq(Row)
          /\ Len(Cons(row, processing)) = Len(processing) + 1
          /\ Cons(row, processing)[1] = row
          /\ Range(Cons(row, processing)) = Range(processing) \cup {row}
      BY <3>1, ConsRange
    <3> QED
      BY <2>1, <3>2
  <2>6. processing' # <<>>
    <3>1. Len(processing) \in Nat
      BY <1>3
    <3> QED
      BY <2>5, <3>1, EmptySeq
  <2>7. Position(w)'
    BY <2>2, <2>4, <2>5, <2>6 DEF Position, Holding
  <2>8. \A e \in Envelopes : InQueue(e) \/ InProcessing(e) => InQueue(e)' \/ InProcessing(e)'
    BY <1>8, <2>3, <2>4, <2>5
  <2>9. NoEnvelopeLost'
    BY <1>0, <1>2, <2>1, <2>8, LostFrom
  <2> QED
    BY <1>6, <2>2, <2>7, <2>9
<1>21. ASSUME NEW w \in Workers, Stamp(w) PROVE Good
  <2> DEFINE row == [entry |-> InHand(w), claim |-> FreshClaim]
  <2>1. worker[w].pc = "stamp" /\ processing # <<>> /\ processing[1] = worker[w].held
    BY <1>4, <1>21 DEF Stamp, Position
  <2>2. /\ processing' = ReplaceAt(processing, 1, row) /\ queue' = queue /\ sent' = sent
        /\ worker'[w].pc = "resolve" /\ worker'[w].held = row
    BY ZenonT(30), <1>3, <1>21, <2>1 DEF Stamp, Loop
  <2>3. row \in Row /\ row.entry = worker[w].held.entry
    <3>1. FreshClaim \in Nat
      BY <1>3, FreshClaimType
    <3>2. InHand(w) \in Entry
      BY <2>1, HandType DEF Holding
    <3> QED
      BY <3>1, <3>2 DEF Row, InHand
  <2> HIDE DEF row
  <2>4. /\ Range(processing) \subseteq Range(processing') \cup {processing[1]}
        /\ row \in Range(processing')
    <3>1. processing \in Seq(Row) /\ row \in Row /\ processing # <<>>
      BY <1>3, <2>1, <2>3
    <3>2. /\ Range(processing) \subseteq Range(ReplaceAt(processing, 1, row)) \cup {processing[1]}
          /\ row \in Range(ReplaceAt(processing, 1, row))
      BY <3>1, ReplaceHead
    <3> QED
      BY <2>2, <3>2
  <2>5. \A e \in Envelopes : InQueue(e) \/ InProcessing(e) => InQueue(e)' \/ InProcessing(e)'
    BY <1>8, <2>1, <2>2, <2>3, <2>4
  <2>6. NoEnvelopeLost'
    BY <1>0, <1>2, <2>2, <2>5, LostFrom
  <2>7. Position(w)'
    BY <2>2, <2>3 DEF Position, Holding
  <2> QED
    BY <1>6, <2>2, <2>6, <2>7
<1>22. ASSUME NEW w \in Workers, NEW pc \in {"trim", "remove", "failed"}, To(w, pc),
              worker[w].pc \in Holding,
              pc = "trim" => Settled(InHand(w).envelope)',
              pc = "remove" => Settled(InHand(w).envelope)' \/ InQueue(InHand(w).envelope)'
       PROVE  Positions'
  <2>1. worker'[w].pc = pc /\ worker'[w].held = worker[w].held
    BY <1>3, <1>22 DEF To, Loop
  <2>2. worker[w].held \in Row
    BY <1>22, HandType
  <2>3. Position(w)'
    BY <1>22, <2>1, <2>2 DEF Position, Holding
  <2> QED
    BY <1>6, <1>22, <2>1, <2>3
\* The hand of a loop that only moves on is the same after the step.
<1>23. ASSUME NEW w \in Workers, NEW pc, To(w, pc)
       PROVE  InHand(w)' = InHand(w)
  BY <1>3, <1>23 DEF To, InHand, Loop
<1>24. ASSUME NEW w \in Workers, ResolveAged(w) PROVE Good
  <2>1. InHand(w).envelope \in Envelopes /\ worker[w].pc \in Holding /\ To(w, "trim")
    BY <1>24, HandType DEF ResolveAged, Bury, Holding
  <2>2. buried'[InHand(w).envelope] = "aged"
    BY <1>0, <1>24, <2>1, BuryType DEF ResolveAged
  <2>3. buried'[InHand(w)'.envelope] # "no"
    BY <1>23, <2>1, <2>2
  <2>4. Settled(InHand(w).envelope)'
    BY <2>3 DEF Settled
  <2> QED
    BY <1>5, <1>22, <1>24, <2>1, <2>4 DEF ResolveAged
<1>25. ASSUME NEW w \in Workers, BuryExhausted(w) PROVE Good
  <2>1. InHand(w).envelope \in Envelopes /\ worker[w].pc \in Holding /\ To(w, "trim")
    BY <1>25, HandType DEF BuryExhausted, Bury, Holding
  <2>2. buried'[InHand(w).envelope] = "exhausted"
    BY <1>0, <1>25, <2>1, BuryType DEF BuryExhausted
  <2>3. buried'[InHand(w)'.envelope] # "no"
    BY <1>23, <2>1, <2>2
  <2>4. Settled(InHand(w).envelope)'
    BY <2>3 DEF Settled
  <2> QED
    BY <1>5, <1>22, <1>25, <2>1, <2>4 DEF BuryExhausted
<1>33. ASSUME NEW w \in Workers, Trim(w) PROVE Good
  <2>1. InHand(w).envelope \in Envelopes /\ worker[w].pc \in Holding /\ To(w, "remove")
    BY <1>33, HandType DEF Trim, Holding
  <2>2. Settled(InHand(w).envelope)
    BY <1>4, <1>33 DEF Trim, Position
  <2>3. Settled(InHand(w).envelope)'
    <3>1. answers' = answers /\ buried' = buried
      BY <1>33 DEF Trim, history
    <3> QED
      BY <1>23, <2>1, <2>2, <3>1 DEF Settled
  <2> QED
    BY <1>5, <1>22, <1>33, <2>1, <2>3 DEF Trim
<1>26. ASSUME NEW w \in Workers, NEW entry \in Entry, queue' = Cons(entry, queue),
              entry.envelope = InHand(w).envelope, To(w, "remove"), worker[w].pc \in Holding,
              UNCHANGED <<processing, sent>>
       PROVE  Good
  <2>1. Range(queue') = Range(queue) \cup {entry}
    <3>1. Range(Cons(entry, queue)) = Range(queue) \cup {entry}
      BY <1>3, ConsRange
    <3> QED
      BY <1>26, <3>1
  <2>2. \E x \in Range(queue') : x.envelope = InHand(w)'.envelope
    BY <1>23, <1>26, <2>1
  <2>3. InQueue(InHand(w).envelope)'
    BY <1>8, <2>2
  <2>4. NoEnvelopeLost'
    BY <1>9, <1>26, <2>1
  <2> QED
    BY <1>22, <1>26, <2>3, <2>4
<1>27. ASSUME NEW w \in Workers, ResolveEarly(w) PROVE Good
  <2>1. InHand(w) \in Entry /\ worker[w].pc \in Holding
    BY <1>27, HandType DEF ResolveEarly, Holding
  <2> QED
    BY <1>26, <1>27, <2>1 DEF ResolveEarly
<1>28. ASSUME NEW w \in Workers, Reschedule(w) PROVE Good
  <2> DEFINE next == [InHand(w) EXCEPT !.attempt = InHand(w).attempt + 1]
  <2>1. next \in Entry /\ next.envelope = InHand(w).envelope /\ worker[w].pc \in Holding
    BY <1>28, HandType, BoundsTypes DEF Reschedule, Holding, Exhausted, Entry
  <2>2. /\ queue' = Cons(next, queue) /\ To(w, "remove")
        /\ UNCHANGED <<processing, sent>>
    BY <1>28 DEF Reschedule
  <2> HIDE DEF next
  <2> QED
    BY <1>26, <2>1, <2>2
<1>29. ASSUME NEW w \in Workers, Deliver(w) PROVE Good
  <2>1. InHand(w).envelope \in Envelopes /\ worker[w].pc \in Holding
    BY <1>29, HandType DEF Deliver, Holding
  <2>2. PICK final \in BOOLEAN : /\ Answered(InHand(w).envelope, final)
                                 /\ To(w, IF final THEN "remove" ELSE "failed")
    BY <1>29 DEF Deliver
  <2>3. final => answers'[InHand(w)'.envelope] > 0
    <3>1. final => answers'[InHand(w).envelope] > 0
      BY <1>0, <2>1, <2>2, AnsweredType
    <3> QED
      BY <1>23, <2>2, <3>1
  <2>4. final => Settled(InHand(w).envelope)'
    BY <2>3 DEF Settled
  <2> QED
    BY <1>5, <1>22, <1>29, <2>1, <2>2, <2>4 DEF Deliver, lists
<1>30. ASSUME NEW w \in Workers, Acknowledge(w) PROVE Good
  <2> DEFINE held == worker[w].held
             x == [worker[w] EXCEPT !.pc = IF worker[w].left = 0 THEN "unlock" ELSE "claim",
                                    !.held = NoRow]
  <2>1. /\ worker[w].pc = "remove" /\ processing' = RemoveFirst(processing, held)
        /\ queue' = queue /\ sent' = sent /\ worker' = [worker EXCEPT ![w] = x]
    BY <1>30 DEF Acknowledge
  <2>2. held \in Row /\ InHand(w).envelope \in Envelopes /\ InHand(w) = held.entry
    BY <2>1, HandType DEF Holding, InHand
  <2>3. /\ worker'[w].pc = IF worker[w].left = 0 THEN "unlock" ELSE "claim"
        /\ worker'[w].held = NoRow /\ worker'[w].left = worker[w].left
    BY <1>3, <2>1 DEF Loop
  <2>4. worker[w].left \in Nat
    BY <1>3 DEF Loop
  <2>5. Position(w)'
    BY <2>3, <2>4 DEF Position, Holding
  <2>6. Settled(InHand(w).envelope) \/ InQueue(InHand(w).envelope)
    BY <1>4, <2>1 DEF Position
  <2> HIDE DEF held
  <2>7. Range(processing) \ {held} \subseteq Range(processing')
    <3>1. Range(processing) \ {held} \subseteq Range(RemoveFirst(processing, held))
      BY <1>3, <2>2, RemoveFirstRange
    <3> QED
      BY <2>1, <3>1
  <2>8. \A e \in Envelopes : InQueue(e) \/ InProcessing(e) =>
                              Settled(e)' \/ InQueue(e)' \/ InProcessing(e)'
    BY <1>2, <1>8, <2>1, <2>2, <2>6, <2>7
  <2>9. NoEnvelopeLost'
    BY <1>0, <1>2, <2>1, <2>8, LostFrom
  <2> QED
    BY <1>6, <2>3, <2>5, <2>9
<1>31. ASSUME NEW w \in Workers, Unlock(w) \/ WorkerCrash(w) PROVE Good
  <2>1. worker[w].pc # "idle" /\ worker' = [worker EXCEPT ![w] = Idle]
    BY <1>31 DEF Unlock, WorkerCrash
  <2>2. \A v \in Workers : worker'[v] = Idle
    BY <1>0, <1>3, <2>1, Alone
  <2>3. Positions'
    BY <2>2, IdleType DEF Positions, Position, Holding
  <2> QED
    BY <1>5, <1>31, <2>3 DEF Unlock, WorkerCrash, lists
<1>32. CASE UNCHANGED vars
  BY <1>5, <1>7, <1>32 DEF vars, lists, InQueue
<1> QED
  BY <1>10, <1>11, <1>12, <1>13, <1>14, <1>15, <1>16, <1>17, <1>18, <1>19, <1>20, <1>21,
     <1>24, <1>25, <1>27, <1>28, <1>29, <1>30, <1>31, <1>32, <1>33
     DEF Next, SenderStep, WorkerStep

-----------------------------------------------------------------------------
(* The posts an entry has behind it. *)

LEMMA OthersIdle ==
  ASSUME Inv, NEW w \in Workers, SweepStart(w) \/ WorkerStep(w) \/ WorkerCrash(w)
  PROVE  \A v \in Workers : v # w => worker[v] = Idle /\ worker'[v] = Idle
<1>0. worker \in [Workers -> Loop] /\ SingleFlight
  BY DEF Inv, TypeOK, Loop
<1>1. CASE SweepStart(w)
  <2>1. worker[w].pc = "idle" /\ lock = Nobody /\ worker' = [worker EXCEPT ![w].pc = "list"]
    BY <1>1 DEF SweepStart, To
  <2>2. \A v \in Workers : worker[v] = Idle
    BY <1>0, <2>1, WorkersAssumption DEF SingleFlight
  <2> QED
    BY <1>0, <2>1, <2>2
<1>2. CASE WorkerStep(w) \/ WorkerCrash(w)
  <2>1. worker[w].pc # "idle"
    BY <1>2 DEF WorkerStep, WorkerCrash, ReclaimList, ReclaimSkip, ReclaimRequeue, ReclaimRemove,
                Count, Claim, Stamp, ResolveAged, ResolveEarly, Deliver, BuryExhausted,
                Trim, Reschedule, Acknowledge, Unlock
  <2>2. \A v \in Workers : v # w => worker'[v] = worker[v]
    <3>1. ASSUME NEW pc, To(w, pc) PROVE \A v \in Workers : v # w => worker'[v] = worker[v]
      BY <1>0, <3>1 DEF To
    <3>2. ASSUME NEW x, worker' = [worker EXCEPT ![w] = x]
          PROVE  \A v \in Workers : v # w => worker'[v] = worker[v]
      BY <1>0, <3>2
    <3>3. CASE \/ ReclaimRequeue(w) \/ ResolveAged(w) \/ ResolveEarly(w) \/ BuryExhausted(w)
               \/ Trim(w) \/ Reschedule(w)
      BY <3>1, <3>3 DEF ReclaimRequeue, ResolveAged, ResolveEarly, BuryExhausted, Bury, Trim,
                        Reschedule
    <3>4. CASE Deliver(w)
      BY <3>1, <3>4 DEF Deliver
    <3>5. CASE ReclaimList(w) \/ ReclaimRemove(w) \/ Count(w)
      BY <1>0, <3>5 DEF ReclaimList, ReclaimRemove, Count
    <3>6. CASE ReclaimSkip(w) \/ Acknowledge(w) \/ Unlock(w) \/ WorkerCrash(w)
      BY <1>0, <3>6 DEF ReclaimSkip, Acknowledge, Unlock, WorkerCrash
    <3>7. CASE Claim(w)
      BY <1>0, <3>7 DEF Claim
    <3>8. CASE Stamp(w)
      BY <1>0, <3>1, <3>8 DEF Stamp
    <3> QED
      BY <1>2, <3>3, <3>4, <3>5, <3>6, <3>7, <3>8 DEF WorkerStep
  <2> QED
    BY <1>0, <2>1, <2>2, Alone
<1> QED
  BY <1>1, <1>2

\* The number of POSTs only grows.
LEMMA PostsGrow ==
  ASSUME Inv, [Next]_vars
  PROVE  \A e \in Envelopes : posts[e] \in Nat /\ posts'[e] \in Nat /\ posts'[e] >= posts[e]
<1>0. Histories
  BY DEF Inv
<1>1. \A e \in Envelopes : posts[e] \in Nat
  BY <1>0 DEF Histories
<1>2. ASSUME NEW f \in Envelopes, NEW final \in BOOLEAN, Answered(f, final)
      PROVE  \A e \in Envelopes : posts'[e] \in Nat /\ posts'[e] >= posts[e]
  <2>1. posts' = [posts EXCEPT ![f] = posts[f] + 1]
    BY <1>2 DEF Answered
  <2> QED
    BY <1>0, <1>1, <2>1 DEF Histories
<1>3. ASSUME NEW e \in Envelopes, SendFirst(e)
      PROVE  \A f \in Envelopes : posts'[f] \in Nat /\ posts'[f] >= posts[f]
  BY <1>2, <1>3 DEF SendFirst
<1>4. ASSUME NEW w \in Workers, Deliver(w)
      PROVE  \A e \in Envelopes : posts'[e] \in Nat /\ posts'[e] >= posts[e]
  BY <1>2, <1>4, HandType DEF Deliver, Holding
<1>5. CASE posts' = posts
  BY <1>1, <1>5
<1>6. ASSUME NEW w \in Workers,
             \/ SweepStart(w) \/ ReclaimList(w) \/ ReclaimSkip(w) \/ ReclaimRequeue(w)
             \/ ReclaimRemove(w) \/ Count(w) \/ Claim(w) \/ Stamp(w) \/ ResolveEarly(w)
             \/ ResolveAged(w) \/ BuryExhausted(w)
             \/ Trim(w) \/ Reschedule(w) \/ Acknowledge(w) \/ Unlock(w) \/ WorkerCrash(w)
      PROVE  posts' = posts
  BY <1>6 DEF SweepStart, ReclaimList, ReclaimSkip, ReclaimRequeue, ReclaimRemove, Count,
              Claim, Stamp, ResolveEarly, ResolveAged, BuryExhausted,
              Trim, Reschedule, Acknowledge, Unlock, WorkerCrash, history
<1>7. ASSUME NEW e \in Envelopes, Withhold(e) \/ Enqueue(e) \/ SenderCrash(e)
      PROVE  posts' = posts
  BY <1>7 DEF Withhold, Enqueue, SenderCrash, history
<1>8. UNCHANGED vars => posts' = posts
  BY DEF vars, history
<1> QED
  BY <1>1, <1>3, <1>4, <1>5, <1>6, <1>7, <1>8 DEF Next, SenderStep, WorkerStep

LEMMA StepKeepsCount ==
  ASSUME Inv, [Next]_vars
  PROVE  Counted'
<1>0. TypeOK /\ Histories /\ SingleFlight /\ Positions /\ Counted
  BY DEF Inv
<1>1. TypeOK' /\ Histories' /\ SingleFlight'
  BY StepTypes
<1>2. \A e \in Envelopes : posts[e] \in Nat /\ posts'[e] \in Nat /\ posts'[e] >= posts[e]
  BY PostsGrow
<1>3. queue \in Seq(Entry) /\ processing \in Seq(Row) /\ worker \in [Workers -> Loop]
  BY <1>0 DEF TypeOK, Loop
<1>4. ASSUME NEW x \in Entry, Backed(x) PROVE Backed(x)'
  BY <1>2, <1>4 DEF Backed, Entry
<1>5. /\ \A x \in Range(queue) : x \in Entry /\ Backed(x) /\ Backed(x)'
      /\ \A r \in Range(processing) : r.entry \in Entry /\ Backed(r.entry) /\ Backed(r.entry)'
      /\ \A w \in Workers : \A r \in Range(worker[w].listed) :
           r.entry \in Entry /\ Backed(r.entry) /\ Backed(r.entry)'
  <2>1. \A x \in Range(queue) : x \in Entry
    BY <1>3, ListFacts
  <2>2. \A r \in Range(processing) : r.entry \in Entry
    <3>1. Range(processing) \subseteq Row
      BY <1>3, ListFacts
    <3> QED
      BY <3>1 DEF Row
  <2>3. \A w \in Workers : \A r \in Range(worker[w].listed) : r.entry \in Entry
    <3>1. \A w \in Workers : worker[w].listed \in Seq(Row)
      BY <1>3 DEF Loop
    <3>2. \A w \in Workers : Range(worker[w].listed) \subseteq Row
      BY <3>1, ListFacts
    <3> QED
      BY <3>2 DEF Row
  <2> QED
    BY <1>0, <1>4, <2>1, <2>2, <2>3 DEF Counted
<1>6. ASSUME NEW w \in Workers, worker[w].pc \in Holding
      PROVE  InHand(w) \in Entry /\ Backed(InHand(w)) /\ posts'[InHand(w).envelope] > InHand(w).attempt
  BY <1>0, <1>2, <1>6, HandType DEF Counted, Backed
\* The histories of the envelopes themselves.
<1>7. ASSUME UNCHANGED <<sent, buried>>
      PROVE  /\ \A e \in Envelopes : sent'[e] = "failed" => posts'[e] > 0
             /\ \A e \in Envelopes : buried'[e] = "exhausted" => posts'[e] >= Tries + 1
  BY <1>0, <1>2, <1>7, BoundsTypes DEF Counted
\* A step of a drain loop.
<1>8. ASSUME NEW w \in Workers, SweepStart(w) \/ WorkerStep(w) \/ WorkerCrash(w),
             \A x \in Range(queue') : Backed(x)',
             \A r \in Range(processing') : Backed(r.entry)',
             \A r \in Range(worker'[w].listed) : Backed(r.entry)',
             worker'[w].pc \in Holding =>
               posts'[worker'[w].held.entry.envelope] > worker'[w].held.entry.attempt,
             worker'[w].pc = "failed" =>
               posts'[worker'[w].held.entry.envelope] > worker'[w].held.entry.attempt + 1,
             \A e \in Envelopes : sent'[e] = "failed" => posts'[e] > 0,
             \A e \in Envelopes : buried'[e] = "exhausted" => posts'[e] >= Tries + 1
      PROVE  Counted'
  <2>1. \A v \in Workers : v # w => worker'[v] = Idle
    BY <1>8, OthersIdle
  <2>2. Range(Idle.listed) = {} /\ Idle.pc \notin Holding /\ Idle.pc # "failed"
    BY IdleType DEF Range, Holding
  <2>3. \A v \in Workers : \A r \in Range(worker'[v].listed) : Backed(r.entry)'
    BY <1>8, <2>1, <2>2
  <2>4. \A v \in Workers : worker'[v].pc \in Holding => Backed(InHand(v))'
    BY <1>8, <2>1, <2>2 DEF Backed, InHand
  <2>5. \A v \in Workers : worker'[v].pc = "failed" =>
          posts'[InHand(v)'.envelope] > InHand(v)'.attempt + 1
    BY <1>8, <2>1, <2>2 DEF InHand
  <2> QED
    BY <1>8, <2>3, <2>4, <2>5 DEF Counted
\* A step that changes neither the loops nor the processing list.
<1>9. ASSUME UNCHANGED <<worker, processing>>,
             \A x \in Range(queue') : Backed(x)',
             \A e \in Envelopes : sent'[e] = "failed" => posts'[e] > 0,
             \A e \in Envelopes : buried'[e] = "exhausted" => posts'[e] >= Tries + 1
      PROVE  Counted'
  <2>1. \A w \in Workers : worker'[w].pc \in Holding => Backed(InHand(w))'
    BY <1>6, <1>9 DEF Backed, InHand
  <2>2. \A w \in Workers : worker'[w].pc = "failed" =>
          posts'[InHand(w)'.envelope] > InHand(w)'.attempt + 1
    <3> SUFFICES ASSUME NEW w \in Workers, worker[w].pc = "failed"
                 PROVE  posts'[InHand(w).envelope] > InHand(w).attempt + 1
      BY <1>9 DEF InHand
    <3>1. /\ posts[InHand(w).envelope] > InHand(w).attempt + 1
          /\ InHand(w).envelope \in Envelopes /\ InHand(w).attempt \in Nat
      BY <1>0, HandType DEF Counted, Holding
    <3> QED
      BY <1>2, <3>1
  <2> QED
    BY <1>5, <1>9, <2>1, <2>2 DEF Counted
<1>10. ASSUME NEW e \in Envelopes, Withhold(e) PROVE Counted'
  <2>1. \A f \in Envelopes : sent'[f] = "failed" => sent[f] = "failed"
    BY <1>0, <1>10 DEF Withhold, TypeOK
  <2> QED
    BY <1>0, <1>5, <1>9, <1>10, <2>1 DEF Withhold, lists, history, Counted
<1>11. ASSUME NEW e \in Envelopes, SendFirst(e) PROVE Counted'
  <2>1. \A f \in Envelopes : sent'[f] = "failed" => sent[f] = "failed" \/ f = e
    BY <1>0, <1>11 DEF SendFirst, TypeOK
  <2>2. posts'[e] > 0
    <3>1. PICK final \in BOOLEAN : Answered(e, final)
      BY <1>11 DEF SendFirst
    <3>2. posts'[e] = posts[e] + 1
      BY <1>0, <3>1, AnsweredType
    <3> QED
      BY <1>2, <3>2
  <2>3. \A f \in Envelopes : sent'[f] = "failed" => posts'[f] > 0
    BY <1>0, <1>2, <2>1, <2>2 DEF Counted
  <2>4. \A f \in Envelopes : buried'[f] = "exhausted" => posts'[f] >= Tries + 1
    BY <1>0, <1>2, <1>11, BoundsTypes DEF SendFirst, Counted
  <2> QED
    BY <1>5, <1>9, <1>11, <2>3, <2>4 DEF SendFirst, lists
<1>12. ASSUME NEW e \in Envelopes, Enqueue(e) PROVE Counted'
  <2> DEFINE entry == [envelope |-> e, attempt |-> 0]
  <2>1. entry \in Entry /\ queue' = Append(queue, entry)
    BY <1>12, BoundsTypes DEF Enqueue, Entry
  <2>2. posts'[e] > 0
    BY <1>0, <1>12, <1>2 DEF Enqueue, Counted
  <2>3. Backed(entry)'
    BY <2>2 DEF Backed
  <2> HIDE DEF entry
  <2>4. Range(Append(queue, entry)) = Range(queue) \cup {entry}
    BY <1>3, <2>1, AppendRange
  <2>5. \A x \in Range(queue') : Backed(x)'
    BY <1>5, <2>1, <2>3, <2>4
  <2>6. \A f \in Envelopes : sent'[f] = "failed" => sent[f] = "failed"
    BY <1>0, <1>12 DEF Enqueue, TypeOK
  <2> QED
    BY <1>0, <1>9, <1>12, <2>5, <2>6 DEF Enqueue, history, Counted
<1>13. ASSUME NEW e \in Envelopes, SenderCrash(e) PROVE Counted'
  <2>1. \A f \in Envelopes : sent'[f] = "failed" => sent[f] = "failed"
    BY <1>0, <1>13 DEF SenderCrash, TypeOK
  <2> QED
    BY <1>0, <1>5, <1>9, <1>13, <2>1 DEF SenderCrash, lists, history, Counted
<1>14. ASSUME NEW w \in Workers, SweepStart(w) PROVE Counted'
  <2>1. worker'[w].pc = "list" /\ worker'[w].listed = worker[w].listed
    BY <1>3, <1>14 DEF SweepStart, To, Loop
  <2> QED
    BY <1>5, <1>7, <1>8, <1>14, <2>1 DEF SweepStart, lists, history, Holding
<1>15. ASSUME NEW w \in Workers, ReclaimList(w) PROVE Counted'
  <2>1. worker'[w].pc = "reclaim" /\ worker'[w].listed = processing
    BY <1>3, <1>15 DEF ReclaimList, Loop
  <2> QED
    BY <1>5, <1>7, <1>8, <1>15, <2>1 DEF ReclaimList, WorkerStep, lists, history, Holding
<1>16. ASSUME NEW w \in Workers, ReclaimSkip(w) PROVE Counted'
  <2>1. /\ worker'[w].pc = "reclaim" /\ worker'[w].listed = Tail(worker[w].listed)
        /\ worker[w].listed # <<>> /\ worker[w].listed \in Seq(Row)
    BY <1>3, <1>16 DEF ReclaimSkip, Loop
  <2>2. Range(worker'[w].listed) \subseteq Range(worker[w].listed)
    BY <2>1, TailRange
  <2> QED
    BY <1>5, <1>7, <1>8, <1>16, <2>1, <2>2 DEF ReclaimSkip, WorkerStep, lists, history, Holding
<1>17. ASSUME NEW w \in Workers, ReclaimRequeue(w) PROVE Counted'
  <2> DEFINE row == Head(worker[w].listed)
  <2>1. /\ worker'[w].pc = "unlist" /\ worker'[w].listed = worker[w].listed
        /\ worker[w].listed # <<>> /\ worker[w].listed \in Seq(Row)
        /\ queue' = Append(queue, row.entry)
    BY <1>3, <1>17 DEF ReclaimRequeue, To, Loop
  <2>2. row \in Range(worker[w].listed)
    BY <2>1, TailRange
  <2> HIDE DEF row
  <2>3. row.entry \in Entry /\ posts'[row.entry.envelope] > row.entry.attempt
    <3>1. \A r \in Range(worker[w].listed) :
            r.entry \in Entry /\ posts'[r.entry.envelope] > r.entry.attempt
      BY <1>5 DEF Backed
    <3> QED
      BY <2>2, <3>1
  <2>4. Range(Append(queue, row.entry)) = Range(queue) \cup {row.entry}
    BY <1>3, <2>3, AppendRange
  <2>5. \A x \in Range(queue') : Backed(x)'
    BY <1>5, <2>1, <2>3, <2>4 DEF Backed
  <2> QED
    BY <1>5, <1>7, <1>8, <1>17, <2>1, <2>5 DEF ReclaimRequeue, WorkerStep, history, Holding
<1>18. ASSUME NEW w \in Workers, ReclaimRemove(w) PROVE Counted'
  <2> DEFINE row == Head(worker[w].listed)
  <2>1. /\ worker'[w].pc = "reclaim" /\ worker'[w].listed = Tail(worker[w].listed)
        /\ worker[w].pc = "unlist" /\ worker[w].listed \in Seq(Row)
        /\ processing' = RemoveFirst(processing, row)
    BY <1>3, <1>18 DEF ReclaimRemove, Loop
  <2>2. worker[w].listed # <<>>
    BY <1>0, <2>1 DEF Positions, Position
  <2>3. row \in Row /\ Range(worker'[w].listed) \subseteq Range(worker[w].listed)
    BY <2>1, <2>2, TailRange
  <2> HIDE DEF row
  <2>4. Range(RemoveFirst(processing, row)) \subseteq Range(processing)
    BY <1>3, <2>3, RemoveFirstRange
  <2> QED
    BY <1>5, <1>7, <1>8, <1>18, <2>1, <2>3, <2>4 DEF ReclaimRemove, WorkerStep, history, Holding
<1>19. ASSUME NEW w \in Workers, Count(w) PROVE Counted'
  <2>1. /\ worker'[w].pc = IF queue = <<>> THEN "unlock" ELSE "claim"
        /\ worker'[w].listed = worker[w].listed
    BY <1>3, <1>19 DEF Count, Loop
  <2>2. worker'[w].pc \notin Holding /\ worker'[w].pc # "failed"
    BY <2>1 DEF Holding
  <2> QED
    BY <1>5, <1>7, <1>8, <1>19, <2>1, <2>2 DEF Count, WorkerStep, lists, history
<1>20. ASSUME NEW w \in Workers, Claim(w) PROVE Counted'
  <2> DEFINE row == [entry |-> Last(queue), claim |-> Unclaimed]
  <2>1. /\ queue # <<>> /\ queue' = Front(queue) /\ processing' = Cons(row, processing)
        /\ worker'[w].pc = "stamp" /\ worker'[w].held = row
        /\ worker'[w].listed = worker[w].listed
    BY <1>3, <1>20 DEF Claim, Loop
  <2>2. Last(queue) \in Range(queue) /\ Range(Front(queue)) \subseteq Range(queue)
    BY <1>3, <2>1, FrontRange
  <2>3. row \in Row /\ row.entry = Last(queue)
    BY <1>5, <2>2 DEF Row, Unclaimed
  <2> HIDE DEF row
  <2>4. Range(Cons(row, processing)) = Range(processing) \cup {row}
    BY <1>3, <2>3, ConsRange
  <2>5. posts'[row.entry.envelope] > row.entry.attempt
    <3>1. \A x \in Range(queue) : posts'[x.envelope] > x.attempt
      BY <1>5 DEF Backed
    <3> QED
      BY <2>2, <2>3, <3>1
  <2>6. posts'[worker'[w].held.entry.envelope] > worker'[w].held.entry.attempt
    BY <2>1, <2>5
  <2>7. \A r \in Range(processing') : Backed(r.entry)'
    BY <1>5, <2>1, <2>4, <2>5 DEF Backed
  <2>8. \A x \in Range(queue') : Backed(x)'
    BY <1>5, <2>1, <2>2
  <2> QED
    BY <1>5, <1>7, <1>8, <1>20, <2>1, <2>6, <2>7, <2>8 DEF Claim, WorkerStep, history
<1>21. ASSUME NEW w \in Workers, Stamp(w) PROVE Counted'
  <2> DEFINE row == [entry |-> InHand(w), claim |-> FreshClaim]
  <2>1. worker[w].pc = "stamp" /\ processing # <<>>
    BY <1>0, <1>21 DEF Stamp, Positions, Position
  <2>2. /\ processing' = ReplaceAt(processing, 1, row) /\ worker'[w].listed = worker[w].listed
        /\ worker'[w].pc = "resolve" /\ worker'[w].held = row
    <3>1. /\ processing' = ReplaceAt(processing, 1, row)
          /\ worker' = [worker EXCEPT ![w] =
                          [worker[w] EXCEPT !.pc = "resolve", !.held = row]]
      BY <1>21, <2>1 DEF Stamp
    <3> HIDE DEF row
    <3> QED
      BY <1>3, <3>1 DEF Loop
  <2>3. FreshClaim \in Nat
    BY <1>3, FreshClaimType
  <2>4. InHand(w) \in Entry /\ posts'[InHand(w).envelope] > InHand(w).attempt
    BY <1>6, <2>1 DEF Holding
  <2>5. row \in Row /\ row.entry = InHand(w)
    BY <2>3, <2>4 DEF Row
  <2> HIDE DEF row
  <2>6. Range(ReplaceAt(processing, 1, row)) \subseteq Range(processing) \cup {row}
    BY <1>3, <2>1, <2>5, ReplaceHead
  <2>7. \A r \in Range(processing') : Backed(r.entry)'
    <3>1. \A r \in Range(processing') : r \in Range(processing) \/ r = row
      BY <2>2, <2>6
    <3>2. posts'[row.entry.envelope] > row.entry.attempt
      BY <2>4, <2>5
    <3> QED
      BY <1>5, <3>1, <3>2 DEF Backed
  <2>8. posts'[worker'[w].held.entry.envelope] > worker'[w].held.entry.attempt
    BY <2>2, <2>4, <2>5
  <2> QED
    BY <1>5, <1>7, <1>8, <1>21, <2>2, <2>7, <2>8 DEF Stamp, WorkerStep, history
\* A step that only decides about the entry in hand.
<1>22. ASSUME NEW w \in Workers, NEW pc, To(w, pc)
       PROVE  /\ worker'[w].pc = pc /\ worker'[w].held.entry = InHand(w)
              /\ worker'[w].listed = worker[w].listed
  BY <1>3, <1>22 DEF To, InHand, Loop
<1>30. ASSUME NEW w \in Workers, Trim(w) PROVE Counted'
  <2>1. worker[w].pc \in Holding /\ To(w, "remove")
    BY <1>30 DEF Trim, Holding
  <2> QED
    BY <1>5, <1>6, <1>7, <1>8, <1>22, <1>30, <2>1 DEF Trim, WorkerStep, history
<1>23. ASSUME NEW w \in Workers, ResolveAged(w) \/ BuryExhausted(w) PROVE Counted'
  <2>1. /\ worker[w].pc \in Holding /\ To(w, "trim")
        /\ UNCHANGED <<sent, queue, processing, posts>>
    BY <1>23 DEF ResolveAged, BuryExhausted, Bury, Holding
  <2>2. InHand(w).envelope \in Envelopes /\ InHand(w).attempt \in Nat
    BY <2>1, HandType
  <2>3. \A e \in Envelopes : buried'[e] = "exhausted" => posts'[e] >= Tries + 1
    <3>1. CASE ResolveAged(w)
      <4>1. /\ buried'[InHand(w).envelope] = "aged"
            /\ \A e \in Envelopes : e # InHand(w).envelope => buried'[e] = buried[e]
        BY <1>0, <2>2, <3>1, BuryType DEF ResolveAged
      <4> QED
        BY <1>0, <2>1, <4>1 DEF Counted
    <3>2. CASE BuryExhausted(w)
      <4>1. \A e \in Envelopes : e # InHand(w).envelope => buried'[e] = buried[e]
        BY <1>0, <2>2, <3>2, BuryType DEF BuryExhausted
      <4>2. posts[InHand(w).envelope] > InHand(w).attempt + 1
        BY <1>0, <3>2 DEF Counted, BuryExhausted
      <4>3. posts[InHand(w).envelope] >= Tries + 1
        BY <1>2, <2>2, <3>2, <4>2, BoundsTypes DEF BuryExhausted, Exhausted
      <4> QED
        BY <1>0, <2>1, <4>1, <4>3 DEF Counted
    <3> QED
      BY <1>23, <3>1, <3>2
  <2>4. \A e \in Envelopes : sent'[e] = "failed" => posts'[e] > 0
    BY <1>0, <2>1 DEF Counted
  <2> QED
    BY <1>5, <1>6, <1>8, <1>22, <1>23, <2>1, <2>3, <2>4 DEF WorkerStep
<1>24. ASSUME NEW w \in Workers, Deliver(w) PROVE Counted'
  <2>1. PICK final \in BOOLEAN : /\ Answered(InHand(w).envelope, final)
                                 /\ To(w, IF final THEN "remove" ELSE "failed")
    BY <1>24 DEF Deliver
  <2>2. worker[w].pc \in Holding
    BY <1>24 DEF Deliver, Holding
  <2>3. InHand(w).envelope \in Envelopes /\ InHand(w).attempt \in Nat
    BY <2>2, HandType
  <2>4. posts'[InHand(w).envelope] = posts[InHand(w).envelope] + 1
    BY <1>0, <2>1, <2>3, AnsweredType
  <2>5. posts[InHand(w).envelope] > InHand(w).attempt
    BY <1>6, <2>2 DEF Backed
  <2>6. posts'[InHand(w).envelope] > InHand(w).attempt + 1
    BY <1>2, <2>3, <2>4, <2>5
  <2>7. posts'[InHand(w).envelope] > InHand(w).attempt
    BY <1>6, <2>2
  <2> QED
    BY <1>5, <1>7, <1>8, <1>22, <1>24, <2>1, <2>6, <2>7 DEF Deliver, WorkerStep, lists
<1>25. ASSUME NEW w \in Workers, ResolveEarly(w) PROVE Counted'
  <2>1. worker[w].pc \in Holding /\ To(w, "remove") /\ queue' = Cons(InHand(w), queue)
    BY <1>25 DEF ResolveEarly, Holding
  <2>2. InHand(w) \in Entry /\ posts'[InHand(w).envelope] > InHand(w).attempt
    BY <1>6, <2>1
  <2>3. Range(Cons(InHand(w), queue)) = Range(queue) \cup {InHand(w)}
    BY <1>3, <2>2, ConsRange
  <2>4. \A x \in Range(queue') : posts'[x.envelope] > x.attempt
    BY <1>5, <2>1, <2>2, <2>3 DEF Backed
  <2>5. \A x \in Range(queue') : Backed(x)'
    BY <2>4 DEF Backed
  <2> QED
    BY <1>5, <1>7, <1>8, <1>22, <1>25, <2>1, <2>2, <2>5 DEF ResolveEarly, WorkerStep, history
<1>26. ASSUME NEW w \in Workers, Reschedule(w) PROVE Counted'
  <2> DEFINE next == [InHand(w) EXCEPT !.attempt = InHand(w).attempt + 1]
  <2>1. /\ worker[w].pc \in Holding /\ worker[w].pc = "failed" /\ To(w, "remove")
        /\ queue' = Cons(next, queue)
    BY <1>26 DEF Reschedule, Holding
  <2>2. /\ next \in Entry /\ next.envelope = InHand(w).envelope
        /\ next.attempt = InHand(w).attempt + 1
    BY <1>26, HandType, BoundsTypes DEF Reschedule, Holding, Exhausted, Entry
  <2> HIDE DEF next
  <2>3. posts[InHand(w).envelope] > InHand(w).attempt + 1
    BY <1>0, <2>1 DEF Counted
  <2>4. posts'[next.envelope] > next.attempt
    <3>1. posts' = posts
      BY <1>26 DEF Reschedule, history
    <3> QED
      BY <2>2, <2>3, <3>1
  <2>5. Range(Cons(next, queue)) = Range(queue) \cup {next}
    BY <1>3, <2>2, ConsRange
  <2>6. \A x \in Range(queue') : Backed(x)'
    BY <1>5, <2>1, <2>4, <2>5 DEF Backed
  <2>7. /\ worker'[w].pc = "remove" /\ worker'[w].held.entry = InHand(w)
        /\ worker'[w].listed = worker[w].listed
    BY <1>22, <2>1
  <2>8. posts'[InHand(w).envelope] > InHand(w).attempt
    BY <1>6, <2>1
  <2> QED
    BY <1>5, <1>7, <1>8, <1>26, <2>6, <2>7, <2>8 DEF Reschedule, WorkerStep, history
<1>27. ASSUME NEW w \in Workers, Acknowledge(w) PROVE Counted'
  <2> DEFINE held == worker[w].held
  <2>1. /\ worker[w].pc \in Holding /\ processing' = RemoveFirst(processing, held)
        /\ worker'[w].pc = IF worker[w].left = 0 THEN "unlock" ELSE "claim"
        /\ worker'[w].listed = worker[w].listed
    BY <1>3, <1>27 DEF Acknowledge, Holding, Loop
  <2>2. held \in Row
    BY <2>1, HandType
  <2> HIDE DEF held
  <2>3. Range(RemoveFirst(processing, held)) \subseteq Range(processing)
    BY <1>3, <2>2, RemoveFirstRange
  <2>4. worker'[w].pc \notin Holding /\ worker'[w].pc # "failed"
    BY <2>1 DEF Holding
  <2> QED
    BY <1>5, <1>7, <1>8, <1>27, <2>1, <2>3, <2>4 DEF Acknowledge, WorkerStep, history
<1>28. ASSUME NEW w \in Workers, Unlock(w) \/ WorkerCrash(w) PROVE Counted'
  <2>1. worker'[w] = Idle
    BY <1>3, <1>28 DEF Unlock, WorkerCrash
  <2>2. Range(Idle.listed) = {} /\ Idle.pc \notin Holding /\ Idle.pc # "failed"
    BY IdleType DEF Range, Holding
  <2> QED
    BY <1>5, <1>7, <1>8, <1>28, <2>1, <2>2 DEF Unlock, WorkerCrash, WorkerStep, lists, history
<1>29. CASE UNCHANGED vars
  BY <1>5, <1>7, <1>9, <1>29 DEF vars, lists, history
<1> QED
  BY <1>10, <1>11, <1>12, <1>13, <1>14, <1>15, <1>16, <1>17, <1>18, <1>19, <1>20, <1>21,
     <1>23, <1>24, <1>25, <1>26, <1>27, <1>28, <1>29, <1>30
     DEF Next, SenderStep, WorkerStep

-----------------------------------------------------------------------------
(* Without a crash. *)

LEMMA DistinctFacts ==
  ASSUME NEW q \in Seq(Entry), Distinct(q)
  PROVE  /\ \A x \in Entry : (\A i \in 1 .. Len(q) : q[i].envelope # x.envelope) =>
              Distinct(Append(q, x)) /\ Distinct(Cons(x, q))
         /\ q # <<>> => /\ Distinct(Front(q))
                        /\ \A y \in Range(Front(q)) : y.envelope # Last(q).envelope
<1>0. DOMAIN q = 1 .. Len(q) /\ Len(q) \in Nat
  BY ListFacts
<1>1. ASSUME NEW x \in Entry, \A i \in 1 .. Len(q) : q[i].envelope # x.envelope
      PROVE  Distinct(Append(q, x))
  <2>1. /\ Append(q, x) \in Seq(Entry) /\ Len(Append(q, x)) = Len(q) + 1
        /\ \A i \in 1 .. Len(q) : Append(q, x)[i] = q[i]
        /\ Append(q, x)[Len(q) + 1] = x
    BY AppendProperties
  <2> DEFINE t == Append(q, x)
  <2>2. DOMAIN t = 1 .. Len(q) + 1
    BY <2>1
  <2> HIDE DEF t
  <2>3. \A i \in 1 .. Len(q) + 1 : i \in 1 .. Len(q) \/ i = Len(q) + 1
    BY <1>0
  <2> QED
    BY <1>0, <1>1, <2>1, <2>2, <2>3 DEF Distinct, t
<1>2. ASSUME NEW x \in Entry, \A i \in 1 .. Len(q) : q[i].envelope # x.envelope
      PROVE  Distinct(Cons(x, q))
  <2> DEFINE t == Cons(x, q)
  <2>1. /\ t \in Seq(Entry) /\ Len(t) = Len(q) + 1 /\ t[1] = x
        /\ \A i \in 1 .. Len(q) : t[i + 1] = q[i]
    BY ConsRange
  <2> HIDE DEF t
  <2>2. DOMAIN t = 1 .. Len(q) + 1
    BY <2>1, ListFacts
  <2>3. \A i \in 1 .. Len(q) + 1 : i # 1 => i - 1 \in 1 .. Len(q) /\ t[i] = q[i - 1]
    <3> SUFFICES ASSUME NEW i \in 1 .. Len(q) + 1, i # 1
                 PROVE  i - 1 \in 1 .. Len(q) /\ t[i] = q[i - 1]
      OBVIOUS
    <3>1. i - 1 \in 1 .. Len(q) /\ i - 1 + 1 = i
      BY <1>0
    <3>2. t[i - 1 + 1] = q[i - 1]
      BY <2>1, <3>1
    <3> QED
      BY <3>1, <3>2
  <2>4. ASSUME NEW i \in 1 .. Len(q) + 1, NEW j \in 1 .. Len(q) + 1,
               t[i].envelope = t[j].envelope
        PROVE  i = j
    <3>1. CASE i = 1 \/ j = 1
      BY <1>2, <2>1, <2>3, <2>4, <3>1
    <3>2. CASE i # 1 /\ j # 1
      <4>1. /\ i - 1 \in 1 .. Len(q) /\ j - 1 \in 1 .. Len(q)
            /\ q[i - 1].envelope = q[j - 1].envelope
        BY <2>3, <2>4, <3>2
      <4>2. i - 1 = j - 1
        BY <1>0, <4>1 DEF Distinct
      <4> QED
        BY <4>2
    <3> QED
      BY <3>1, <3>2
  <2> QED
    BY <2>2, <2>4 DEF Distinct, t
<1>3. ASSUME q # <<>>
      PROVE  /\ Distinct(Front(q))
             /\ \A y \in Range(Front(q)) : y.envelope # Last(q).envelope
  <2> DEFINE t == Front(q)
  <2>1. /\ t \in Seq(Entry) /\ Len(t) = Len(q) - 1 /\ Last(q) = q[Len(q)] /\ Len(q) > 0
        /\ \A i \in 1 .. Len(q) - 1 : t[i] = q[i]
    BY <1>3, FrontRange
  <2> HIDE DEF t
  <2>2. DOMAIN t = 1 .. Len(q) - 1
    BY <2>1, ListFacts
  <2>3. \A i \in 1 .. Len(q) - 1 : i \in 1 .. Len(q) /\ i # Len(q) /\ Len(q) \in 1 .. Len(q)
    BY <1>0, <2>1
  <2>4. Distinct(t)
    BY <1>0, <2>1, <2>2, <2>3 DEF Distinct
  <2>5. \A i \in 1 .. Len(q) - 1 : t[i].envelope # Last(q).envelope
    BY <1>0, <2>1, <2>3 DEF Distinct
  <2>6. \A y \in Range(t) : y.envelope # Last(q).envelope
    BY <2>2, <2>5 DEF Range
  <2> QED
    BY <2>4, <2>6 DEF t
<1> QED
  BY <1>1, <1>2, <1>3

\* What a step has to show of the drain loops, when w is the one that moves.
Tidy(w) ==
  /\ worker'[w].listed = <<>>
  /\ worker'[w].pc \in Holding => processing' = <<worker'[w].held>>
  /\ worker'[w].pc \notin Holding => processing' = <<>>

\* What it has to show of an envelope e.
OnceNow(w, e) ==
  /\ posts'[e] <= Tries + 1
  /\ sent'[e] = "new" => posts'[e] = 0 /\ ~Settled(e)'
  /\ sent'[e] = "failed" => posts'[e] = 1 /\ ~Settled(e)'
  /\ InQueue(e)' => sent'[e] = "queued" /\ ~Settled(e)'
  /\ worker'[w].pc \in {"stamp", "resolve", "failed"} /\ worker'[w].held.entry.envelope = e =>
       /\ sent'[e] = "queued" /\ ~Settled(e)' /\ ~InQueue(e)'
       /\ posts'[e] = worker'[w].held.entry.attempt
                        + (IF worker'[w].pc = "failed" THEN 2 ELSE 1)

LEMMA CalmFrom ==
  ASSUME Inv, NEW w \in Workers, SweepStart(w) \/ WorkerStep(w), Tidy(w),
         \A e \in Envelopes : OnceNow(w, e),
         Distinct(queue'),
         \A x \in Range(queue') : posts'[x.envelope] = x.attempt + 1
  PROVE  Calm'
<1>1. \A v \in Workers : v # w => worker'[v] = Idle
  BY OthersIdle
<1>2. Idle.listed = <<>> /\ Idle.pc \notin Holding /\ Idle.pc \notin {"stamp", "resolve", "failed"}
  BY IdleType DEF Holding
<1>3. \A v \in Workers : worker'[v].listed = <<>>
  BY <1>1, <1>2 DEF Tidy
<1>4. \A v \in Workers : worker'[v].pc \in Holding => processing' = <<worker'[v].held>>
  BY <1>1, <1>2 DEF Tidy
<1>5. (\A v \in Workers : worker'[v].pc \notin Holding) => processing' = <<>>
  BY DEF Tidy
<1>6. ASSUME NEW e \in Envelopes PROVE Once(e)'
  <2>1. ASSUME NEW v \in Workers, Live(v, e)'
        PROVE  /\ sent'[e] = "queued" /\ ~Settled(e)' /\ ~InQueue(e)'
               /\ posts'[e] = InHand(v)'.attempt + (IF worker'[v].pc = "failed" THEN 2 ELSE 1)
    <3>1. v = w
      BY <1>1, <1>2, <2>1 DEF Live
    <3> QED
      BY <2>1, <3>1 DEF Live, InHand, OnceNow
  <2> QED
    BY <2>1 DEF Once, OnceNow
<1> QED
  BY <1>3, <1>4, <1>5, <1>6 DEF Calm

\* What the drain loop that is about to move has in hand, as long as it is calm.
LEMMA CalmHand ==
  ASSUME Inv, Calm, NEW w \in Workers
  PROVE  /\ worker[w].listed = <<>>
         /\ worker[w].pc \in Holding => processing = <<worker[w].held>>
         /\ lock \in {w, Nobody} /\ worker[w].pc \notin Holding => processing = <<>>
         /\ worker[w].pc \in {"stamp", "resolve", "failed"} =>
              LET e == InHand(w).envelope IN
              /\ e \in Envelopes /\ sent[e] = "queued" /\ ~Settled(e) /\ ~InQueue(e)
              /\ posts[e] = InHand(w).attempt + (IF worker[w].pc = "failed" THEN 2 ELSE 1)
<1>1. ASSUME lock \in {w, Nobody}, worker[w].pc \notin Holding PROVE processing = <<>>
  <2>1. \A v \in Workers : v # w => worker[v] = Idle
    BY <1>1, WorkersAssumption DEF Inv, SingleFlight
  <2>2. Idle.pc \notin Holding
    BY IdleType DEF Holding
  <2>3. \A v \in Workers : worker[v].pc \notin Holding
    BY <1>1, <2>1, <2>2
  <2> QED
    BY <2>3 DEF Calm
<1>2. ASSUME worker[w].pc \in {"stamp", "resolve", "failed"}
      PROVE  LET e == InHand(w).envelope IN
             /\ e \in Envelopes /\ sent[e] = "queued" /\ ~Settled(e) /\ ~InQueue(e)
             /\ posts[e] = InHand(w).attempt + (IF worker[w].pc = "failed" THEN 2 ELSE 1)
  <2>1. InHand(w).envelope \in Envelopes
    BY <1>2, HandType DEF Holding
  <2>2. Live(w, InHand(w).envelope)
    BY <1>2 DEF Live
  <2>3. Once(InHand(w).envelope)
    BY <2>1 DEF Calm
  <2> QED
    BY <2>1, <2>2, <2>3 DEF Once
<1> QED
  BY <1>1, <1>2 DEF Calm

LEMMA StepKeepsCalm ==
  ASSUME Inv, [Next]_vars, crashes = 0 => Calm, crashes' = 0
  PROVE  Calm'
<1> DEFINE Deciding == {"stamp", "resolve", "failed"}
           SameSettled == UNCHANGED <<answers, buried>>
<1>0. TypeOK /\ Histories /\ SingleFlight /\ Positions /\ crashes \in Nat
  BY DEF Inv, Histories
<1>1. TypeOK' /\ Histories'
  BY StepTypes
<1>2. \A e \in Envelopes : posts[e] \in Nat /\ answers[e] \in Nat
  BY <1>0 DEF Histories
<1>3. /\ queue \in Seq(Entry) /\ processing \in Seq(Row) /\ worker \in [Workers -> Loop]
      /\ sent \in [Envelopes -> {"new", "withheld", "answered", "failed", "queued", "forgotten"}]
  BY <1>0 DEF TypeOK, Loop
<1>4. /\ \A e : InQueue(e) <=> \E x \in Range(queue) : x.envelope = e
      /\ \A e : InQueue(e)' <=> \E x \in Range(queue') : x.envelope = e
      /\ \A x \in Range(queue) : x \in Entry /\ x.envelope \in Envelopes
  BY <1>0, <1>1, QueueFacts, QueueFactsNext DEF Entry
<1>5. CASE UNCHANGED vars
  <2>1. Calm
    BY <1>5 DEF vars
  <2> QED
    BY <1>5, <2>1 DEF vars, lists, clock, history, Calm, Once, Distinct, Settled, InQueue, Live, InHand
<1>6. ASSUME NEW e \in Envelopes, SenderCrash(e) PROVE FALSE
  BY <1>0, <1>6 DEF SenderCrash
<1>7. ASSUME NEW w \in Workers, WorkerCrash(w) PROVE FALSE
  BY <1>0, <1>7 DEF WorkerCrash
<1>8. ASSUME NEW e \in Envelopes, SenderStep(e) PROVE Calm
  BY <1>8 DEF SenderStep, Withhold, SendFirst, Enqueue
<1>9. ASSUME NEW w \in Workers, SweepStart(w) \/ WorkerStep(w) PROVE Calm
  BY <1>9 DEF SweepStart, WorkerStep, ReclaimList, ReclaimSkip, ReclaimRequeue, ReclaimRemove,
              Count, Claim, Stamp, ResolveAged, ResolveEarly, Deliver, BuryExhausted,
              Trim, Reschedule, Acknowledge, Unlock
\* The senders: e is in no list and in no hand.
<1>10. ASSUME Calm, NEW e \in Envelopes, sent[e] \in {"new", "failed"}
       PROVE  /\ ~InQueue(e) /\ ~Settled(e) /\ \A w \in Workers : ~Live(w, e)
              /\ \A x \in Range(queue) : x.envelope # e
  BY <1>4, <1>10 DEF Calm, Once
<1>11. ASSUME Calm, NEW e \in Envelopes, sent[e] \in {"new", "failed"},
              UNCHANGED <<worker, processing, buried>>,
              \A f \in Envelopes : f # e => /\ sent'[f] = sent[f] /\ posts'[f] = posts[f]
                                           /\ answers'[f] = answers[f]
                                           /\ (InQueue(f)' <=> InQueue(f)),
              Once(e)', Distinct(queue'),
              \A x \in Range(queue') : posts'[x.envelope] = x.attempt + 1
       PROVE  Calm'
  <2>1. ASSUME NEW f \in Envelopes, f # e PROVE Once(f)'
    <3>1. Settled(f)' <=> Settled(f)
      BY <1>11, <2>1 DEF Settled
    <3>2. \A w \in Workers : (Live(w, f)' <=> Live(w, f)) /\ InHand(w)' = InHand(w)
      BY <1>11 DEF Live, InHand
    <3>3. Once(f)
      BY <1>11 DEF Calm
    <3> QED
      BY <1>11, <2>1, <3>1, <3>2, <3>3 DEF Once
  <2> QED
    BY <1>11, <2>1 DEF Calm
<1>12. ASSUME NEW e \in Envelopes, Withhold(e) PROVE Calm'
  <2>1. /\ Calm /\ sent[e] = "new" /\ sent' = [sent EXCEPT ![e] = "withheld"]
        /\ UNCHANGED <<queue, processing, worker, posts, answers, buried>>
    BY <1>8, <1>12 DEF Withhold, SenderStep, lists, history
  <2>2. Once(e)'
    <3>1. ~InQueue(e) /\ (\A w \in Workers : ~Live(w, e)) /\ Once(e)
      BY <1>10, <2>1 DEF Calm
    <3>2. ~InQueue(e)' /\ (\A w \in Workers : ~Live(w, e)')
      BY <2>1, <3>1 DEF InQueue, Live, InHand
    <3> QED
      BY <1>3, <2>1, <3>1, <3>2 DEF Once
  <2>3. \A f \in Envelopes : f # e => sent'[f] = sent[f] /\ (InQueue(f)' <=> InQueue(f))
    BY <1>3, <2>1 DEF InQueue
  <2>4. Distinct(queue') /\ \A x \in Range(queue') : posts'[x.envelope] = x.attempt + 1
    BY <2>1 DEF Calm
  <2> QED
    BY <1>11, <2>1, <2>2, <2>3, <2>4
<1>13. ASSUME NEW e \in Envelopes, SendFirst(e) PROVE Calm'
  <2>1. PICK final \in BOOLEAN :
          /\ Answered(e, final)
          /\ sent' = [sent EXCEPT ![e] = IF final THEN "answered" ELSE "failed"]
    BY <1>13 DEF SendFirst
  <2>2. /\ Calm /\ sent[e] = "new"
        /\ UNCHANGED <<queue, processing, worker, buried>>
    BY <1>8, <1>13 DEF SendFirst, SenderStep, lists
  <2>3. /\ posts'[e] = posts[e] + 1 /\ (~final => answers'[e] = answers[e])
        /\ \A f \in Envelopes : f # e => posts'[f] = posts[f] /\ answers'[f] = answers[f]
    BY <1>0, <2>1, AnsweredType
  <2>4. /\ ~InQueue(e) /\ ~Settled(e) /\ (\A w \in Workers : ~Live(w, e)) /\ posts[e] = 0
        /\ \A x \in Range(queue) : x.envelope # e
    BY <1>10, <2>2 DEF Calm, Once
  <2>5. Once(e)'
    <3>1. ~InQueue(e)' /\ (\A w \in Workers : ~Live(w, e)')
      BY <2>2, <2>4 DEF InQueue, Live, InHand
    <3>2. posts'[e] = 1 /\ 1 <= Tries + 1
      BY <2>3, <2>4, BoundsTypes
    <3>3. sent'[e] = IF final THEN "answered" ELSE "failed"
      BY <1>3, <2>1
    <3>4. ~final => ~Settled(e)'
      BY <2>2, <2>3, <2>4 DEF Settled
    <3> QED
      BY <3>1, <3>2, <3>3, <3>4 DEF Once
  <2>6. \A f \in Envelopes : f # e => sent'[f] = sent[f] /\ (InQueue(f)' <=> InQueue(f))
    BY <1>3, <2>1, <2>2 DEF InQueue
  <2>7. Distinct(queue')
    BY <2>2 DEF Calm
  <2>8. \A x \in Range(queue') : posts'[x.envelope] = x.attempt + 1
    BY <1>4, <2>2, <2>3, <2>4 DEF Calm
  <2> QED
    BY <1>11, <2>2, <2>3, <2>5, <2>6, <2>7, <2>8
<1>14. ASSUME NEW e \in Envelopes, Enqueue(e) PROVE Calm'
  <2> DEFINE entry == [envelope |-> e, attempt |-> 0]
  <2>1. /\ Calm /\ sent[e] = "failed" /\ sent' = [sent EXCEPT ![e] = "queued"]
        /\ queue' = Append(queue, entry)
        /\ UNCHANGED <<processing, worker, posts, answers, buried>>
    BY <1>8, <1>14 DEF Enqueue, SenderStep, history
  <2>2. entry \in Entry /\ entry.envelope = e /\ entry.attempt = 0
    BY BoundsTypes DEF Entry
  <2> HIDE DEF entry
  <2>3. Range(queue') = Range(queue) \cup {entry}
    <3>1. Range(Append(queue, entry)) = Range(queue) \cup {entry}
      BY <1>3, <2>2, AppendRange
    <3> QED
      BY <2>1, <3>1
  <2>4. /\ ~InQueue(e) /\ ~Settled(e) /\ (\A w \in Workers : ~Live(w, e)) /\ posts[e] = 1
        /\ \A x \in Range(queue) : x.envelope # e
    BY <1>10, <2>1 DEF Calm, Once
  <2>5. Once(e)'
    <3>1. \A w \in Workers : ~Live(w, e)'
      BY <2>1, <2>4 DEF Live, InHand
    <3>2. posts'[e] <= Tries + 1 /\ sent'[e] = "queued" /\ ~Settled(e)'
      BY <1>3, <2>1, <2>4, BoundsTypes DEF Settled
    <3> QED
      BY <3>1, <3>2 DEF Once
  <2>6. \A f \in Envelopes : f # e => sent'[f] = sent[f] /\ (InQueue(f)' <=> InQueue(f))
    BY <1>3, <1>4, <2>1, <2>2, <2>3
  <2>7. Distinct(queue')
    <3>1. \A i \in 1 .. Len(queue) : queue[i].envelope # entry.envelope
      BY <1>3, <2>2, <2>4, ListFacts
    <3>2. Distinct(queue)
      BY <2>1 DEF Calm
    <3>3. Distinct(Append(queue, entry))
      BY <1>3, <2>2, <3>1, <3>2, DistinctFacts
    <3> QED
      BY <2>1, <3>3
  <2>8. \A x \in Range(queue') : posts'[x.envelope] = x.attempt + 1
    BY <2>1, <2>2, <2>3, <2>4 DEF Calm
  <2> QED
    BY <1>11, <2>1, <2>5, <2>6, <2>7, <2>8
\* The drain loops.
<1>15. ASSUME Calm, NEW w \in Workers, UNCHANGED <<sent, posts, answers, buried>>,
              \A e \in Envelopes : InQueue(e)' => InQueue(e),
              worker'[w].pc \notin Deciding
       PROVE  \A e \in Envelopes : OnceNow(w, e)
  <2> SUFFICES ASSUME NEW e \in Envelopes PROVE OnceNow(w, e)
    OBVIOUS
  <2>1. Once(e) /\ (Settled(e)' <=> Settled(e))
    BY <1>15 DEF Calm, Settled
  <2> QED
    BY <1>15, <2>1 DEF Once, OnceNow
<1>16. ASSUME Calm, queue' = queue, posts' = posts
       PROVE  /\ Distinct(queue') /\ \A e : InQueue(e)' <=> InQueue(e)
              /\ \A x \in Range(queue') : posts'[x.envelope] = x.attempt + 1
  BY <1>16 DEF Calm, InQueue
\* A step that only moves on, before an entry is taken or after it was decided on.
<1>17. ASSUME NEW w \in Workers, SweepStart(w) \/ WorkerStep(w), Tidy(w),
              UNCHANGED <<sent, queue, posts, answers, buried>>, worker'[w].pc \notin Deciding
       PROVE  Calm'
  <2>1. Calm
    BY <1>9, <1>17
  <2>2. \A e \in Envelopes : OnceNow(w, e)
    BY <1>15, <1>16, <1>17, <2>1
  <2> QED
    BY <1>16, <1>17, <2>1, <2>2, CalmFrom
<1>18. ASSUME NEW w \in Workers, SweepStart(w) PROVE Calm'
  <2>1. /\ Calm /\ worker'[w].pc = "list" /\ worker'[w].listed = worker[w].listed
        /\ lock = Nobody /\ worker[w].pc = "idle" /\ processing' = processing
    BY <1>3, <1>9, <1>18 DEF SweepStart, To, Loop, lists
  <2>2. Tidy(w)
    BY <2>1, CalmHand DEF Tidy, Holding
  <2> QED
    BY <1>17, <1>18, <2>1, <2>2 DEF SweepStart, lists, history
<1>19. ASSUME NEW w \in Workers, worker[w].pc # "idle" PROVE lock = w
  BY <1>0, <1>19, Alone
<1>20. ASSUME NEW w \in Workers, ReclaimList(w) PROVE Calm'
  <2>1. /\ Calm /\ worker'[w].pc = "reclaim" /\ worker'[w].listed = processing
        /\ worker[w].pc = "list" /\ processing' = processing
    BY <1>3, <1>9, <1>20 DEF ReclaimList, WorkerStep, Loop, lists
  <2>2. processing = <<>>
    BY <1>19, <2>1, CalmHand DEF Holding
  <2>3. Tidy(w)
    BY <2>1, <2>2 DEF Tidy, Holding
  <2> QED
    BY <1>17, <1>20, <2>1, <2>3 DEF ReclaimList, WorkerStep, lists, history
<1>21. ASSUME NEW w \in Workers, ReclaimSkip(w) \/ ReclaimRequeue(w) \/ ReclaimRemove(w)
       PROVE  FALSE
  <2>1. Calm
    BY <1>9, <1>21 DEF WorkerStep
  <2>2. worker[w].listed = <<>>
    BY <2>1, CalmHand
  <2>3. Position(w)
    BY <1>0 DEF Positions
  <2> QED
    BY <1>21, <2>2, <2>3 DEF ReclaimSkip, ReclaimRequeue, ReclaimRemove, Position
<1>22. ASSUME NEW w \in Workers, Count(w) PROVE Calm'
  <2>1. /\ Calm /\ worker'[w].pc \in {"unlock", "claim"} /\ worker'[w].listed = worker[w].listed
        /\ worker[w].pc = "reclaim" /\ processing' = processing
    BY <1>3, <1>9, <1>22 DEF Count, WorkerStep, Loop, lists
  <2>2. Tidy(w)
    BY <1>19, <2>1, CalmHand DEF Tidy, Holding
  <2>3. worker'[w].pc \notin Deciding
    BY <2>1
  <2> QED
    BY <1>17, <1>22, <2>2, <2>3 DEF Count, WorkerStep, lists, history
<1>23. ASSUME NEW w \in Workers, Unlock(w) PROVE Calm'
  <2>1. /\ Calm /\ worker'[w] = Idle /\ worker[w].pc = "unlock" /\ processing' = processing
    BY <1>3, <1>9, <1>23 DEF Unlock, WorkerStep, lists
  <2>2. Tidy(w)
    BY <1>19, <2>1, CalmHand, IdleType DEF Tidy, Holding
  <2>3. worker'[w].pc \notin Deciding
    BY <2>1, IdleType
  <2> QED
    BY <1>17, <1>23, <2>2, <2>3 DEF Unlock, WorkerStep, lists, history
<1>24. ASSUME NEW w \in Workers, Acknowledge(w) PROVE Calm'
  <2> DEFINE held == worker[w].held
  <2>1. /\ Calm /\ worker'[w].pc \in {"unlock", "claim"} /\ worker'[w].listed = worker[w].listed
        /\ worker[w].pc = "remove" /\ processing' = RemoveFirst(processing, held)
    BY <1>3, <1>9, <1>24 DEF Acknowledge, WorkerStep, Loop
  <2>2. held \in Row /\ processing = <<held>> /\ worker[w].listed = <<>>
    BY <2>1, CalmHand, HandType DEF Holding
  <2> HIDE DEF held
  <2>3. processing' = <<>>
    <3>1. RemoveFirst(processing, held) = <<>>
      BY <1>3, <2>2, RemoveFirstRange
    <3> QED
      BY <2>1, <3>1
  <2>4. Tidy(w)
    BY <2>1, <2>2, <2>3 DEF Tidy, Holding
  <2>5. worker'[w].pc \notin Deciding
    BY <2>1
  <2> QED
    BY <1>17, <1>24, <2>4, <2>5 DEF Acknowledge, WorkerStep, history
<1>25. ASSUME NEW w \in Workers, Claim(w) PROVE Calm'
  <2> DEFINE x == Last(queue)
             row == [entry |-> x, claim |-> Unclaimed]
  <2>1. /\ Calm /\ worker[w].pc = "claim" /\ queue # <<>> /\ queue' = Front(queue)
        /\ processing' = Cons(row, processing)
        /\ worker'[w].pc = "stamp" /\ worker'[w].held = row /\ worker'[w].listed = worker[w].listed
        /\ UNCHANGED <<sent, posts, answers, buried>>
    BY <1>3, <1>9, <1>25 DEF Claim, WorkerStep, Loop, history
  <2>2. /\ x \in Range(queue) /\ Range(queue) = Range(queue') \cup {x}
    BY <1>3, <2>1, FrontRange
  <2>3. Distinct(queue') /\ \A y \in Range(queue') : y.envelope # x.envelope
    <3>1. Distinct(queue)
      BY <2>1 DEF Calm
    <3> QED
      BY <1>3, <2>1, <3>1, DistinctFacts
  <2>4. row.entry = x
    OBVIOUS
  <2>5. x \in Entry /\ x.envelope \in Envelopes /\ posts[x.envelope] = x.attempt + 1
    BY <1>4, <2>1, <2>2 DEF Calm
  <2>6. processing' = <<row>>
    <3>1. processing = <<>>
      BY <1>19, <2>1, CalmHand DEF Holding
    <3>2. row \in Row
      BY <2>5 DEF Row, Unclaimed
    <3>3. <<row>> \in Seq(Row) /\ Cons(row, <<>>) = <<row>>
      BY <3>2, ConcatEmptySeq DEF Cons
    <3> QED
      BY <2>1, <3>1, <3>3
  <2> HIDE DEF row, x
  <2>7. Tidy(w)
    BY <2>1, <2>6, CalmHand DEF Tidy, Holding
  <2>8. ASSUME NEW e \in Envelopes PROVE OnceNow(w, e)
    <3>1. Once(e) /\ (Settled(e)' <=> Settled(e))
      BY <2>1 DEF Calm, Settled
    <3>2. InQueue(e)' => InQueue(e)
      BY <1>4, <2>2
    <3>3. e = x.envelope => InQueue(e) /\ ~InQueue(e)' /\ posts[e] = x.attempt + 1
      BY <1>4, <2>2, <2>3, <2>5
    <3> QED
      BY <2>1, <2>4, <3>1, <3>2, <3>3 DEF Once, OnceNow
  <2>9. \A y \in Range(queue') : posts'[y.envelope] = y.attempt + 1
    BY <2>1, <2>2 DEF Calm
  <2> QED
    BY <1>25, <2>3, <2>7, <2>8, <2>9, CalmFrom DEF WorkerStep
<1>26. ASSUME NEW w \in Workers, Stamp(w) PROVE Calm'
  <2> DEFINE row == [entry |-> InHand(w), claim |-> FreshClaim]
  <2>1. Calm /\ worker[w].pc = "stamp" /\ processing # <<>>
    BY <1>0, <1>9, <1>26 DEF Stamp, WorkerStep, Positions, Position
  <2>2. /\ processing' = ReplaceAt(processing, 1, row)
        /\ worker' = [worker EXCEPT ![w] = [worker[w] EXCEPT !.pc = "resolve", !.held = row]]
        /\ UNCHANGED <<sent, queue, posts, answers, buried>>
    BY <1>26, <2>1 DEF Stamp, history
  <2>3. row \in Row /\ row.entry = InHand(w)
    <3>1. FreshClaim \in Nat
      BY <1>3, FreshClaimType
    <3>2. InHand(w) \in Entry
      BY <2>1, HandType DEF Holding
    <3> QED
      BY <3>1, <3>2 DEF Row
  <2> HIDE DEF row
  <2>4. /\ worker'[w].pc = "resolve" /\ worker'[w].held = row
        /\ worker'[w].listed = worker[w].listed
    BY <1>3, <2>2 DEF Loop
  <2>5. processing' = <<row>>
    <3>1. processing = <<worker[w].held>>
      BY <2>1, CalmHand DEF Holding
    <3>2. Len(processing) = 1
      BY <3>1
    <3>3. ReplaceAt(processing, 1, row) = <<row>>
      BY <1>3, <2>1, <2>3, <3>2, ReplaceHead
    <3> QED
      BY <2>2, <3>3
  <2>6. Tidy(w)
    BY <2>1, <2>4, <2>5, CalmHand DEF Tidy, Holding
  <2>7. ASSUME NEW e \in Envelopes PROVE OnceNow(w, e)
    <3>1. Once(e) /\ (Settled(e)' <=> Settled(e)) /\ (InQueue(e)' <=> InQueue(e))
      BY <2>1, <2>2 DEF Calm, Settled, InQueue
    <3>2. InHand(w).envelope = e => Live(w, e)
      BY <2>1 DEF Live
    <3> QED
      BY <2>1, <2>2, <2>3, <2>4, <3>1, <3>2 DEF Once, OnceNow
  <2> QED
    BY <1>16, <1>26, <2>1, <2>2, <2>6, <2>7, CalmFrom DEF WorkerStep
\* A decision about the entry in hand.
<1>27. ASSUME NEW w \in Workers, NEW pc \in Holding, worker[w].pc \in Holding, Calm, To(w, pc),
              processing' = processing
       PROVE  /\ Tidy(w) /\ worker'[w].pc = pc /\ worker'[w].held.entry = InHand(w)
  <2>1. /\ worker'[w].pc = pc /\ worker'[w].held = worker[w].held
        /\ worker'[w].listed = worker[w].listed
    BY <1>3, <1>27 DEF To, Loop
  <2>2. worker[w].listed = <<>> /\ processing = <<worker[w].held>>
    BY <1>27, CalmHand
  <2> QED
    BY <1>27, <2>1, <2>2 DEF Tidy, InHand
<1>33. ASSUME NEW w \in Workers, Trim(w) PROVE Calm'
  <2>1. /\ Calm /\ worker[w].pc \in Holding /\ To(w, "remove") /\ processing' = processing
    BY <1>9, <1>33 DEF Trim, WorkerStep, Holding
  <2>2. Tidy(w) /\ worker'[w].pc = "remove"
    BY <1>27, <2>1 DEF Holding
  <2> QED
    BY <1>17, <1>33, <2>2 DEF Trim, WorkerStep, history
<1>28. ASSUME NEW w \in Workers, ResolveAged(w) \/ BuryExhausted(w) PROVE Calm'
  <2> DEFINE e == InHand(w).envelope
  <2>1. /\ Calm /\ worker[w].pc \in {"resolve", "failed"} /\ To(w, "trim")
        /\ UNCHANGED <<sent, queue, processing, posts, answers>>
    BY <1>9, <1>28 DEF ResolveAged, BuryExhausted, Bury, WorkerStep
  <2>2. Tidy(w) /\ worker'[w].pc = "trim"
    BY <1>27, <2>1 DEF Holding
  <2>3. e \in Envelopes /\ sent[e] = "queued" /\ ~InQueue(e)
    BY <2>1, CalmHand
  <2>4. \A f \in Envelopes : f # e => buried'[f] = buried[f]
    BY <1>0, <1>28, <2>3, BuryType DEF ResolveAged, BuryExhausted
  <2> HIDE DEF e
  <2>5. ASSUME NEW f \in Envelopes PROVE OnceNow(w, f)
    <3>1. Once(f) /\ (InQueue(f)' <=> InQueue(f))
      BY <2>1 DEF Calm, InQueue
    <3>2. f # e => (Settled(f)' <=> Settled(f))
      BY <2>1, <2>4 DEF Settled
    <3> QED
      BY <2>1, <2>2, <2>3, <3>1, <3>2 DEF Once, OnceNow
  <2> QED
    BY <1>16, <1>28, <2>1, <2>2, <2>5, CalmFrom DEF WorkerStep
<1>29. ASSUME NEW w \in Workers, Deliver(w) PROVE Calm'
  <2>0. PICK e \in Envelopes : e = InHand(w).envelope
    BY <1>29, HandType DEF Deliver, Holding
  <2>1. PICK final \in BOOLEAN : /\ Answered(e, final)
                                 /\ To(w, IF final THEN "remove" ELSE "failed")
    BY <1>29, <2>0 DEF Deliver
  <2>2. /\ Calm /\ worker[w].pc = "resolve" /\ UNCHANGED <<sent, queue, processing, buried>>
    BY <1>9, <1>29 DEF Deliver, WorkerStep, lists
  <2>3. /\ e \in Envelopes /\ sent[e] = "queued" /\ ~InQueue(e) /\ ~Settled(e)
        /\ posts[e] = InHand(w).attempt + 1
    BY <2>0, <2>2, CalmHand
  <2>4. InHand(w).attempt \in 0 .. Tries - 1
    BY <2>2, HandType DEF Holding
  <2>5. Tidy(w) /\ worker'[w].pc = (IF final THEN "remove" ELSE "failed")
        /\ worker'[w].held.entry = InHand(w)
    BY <1>27, <2>1, <2>2 DEF Holding
  <2>6. /\ posts'[e] = posts[e] + 1 /\ (~final => answers'[e] = answers[e])
        /\ \A f \in Envelopes : f # e => posts'[f] = posts[f] /\ answers'[f] = answers[f]
    BY <1>0, <2>1, <2>3, AnsweredType
  <2>7. posts'[e] = InHand(w).attempt + 2 /\ posts'[e] <= Tries + 1
    BY <2>3, <2>4, <2>6, BoundsTypes
  <2>8. worker'[w].held.entry.envelope = e /\ worker'[w].held.entry.attempt = InHand(w).attempt
    BY <2>0, <2>5
  <2>9. OnceNow(w, e)
    <3>1. ~InQueue(e)'
      BY <2>2, <2>3 DEF InQueue
    <3>2. ~final => ~Settled(e)'
      BY <2>2, <2>3, <2>6 DEF Settled
    <3> QED
      BY <2>2, <2>3, <2>5, <2>7, <2>8, <3>1, <3>2 DEF OnceNow
  <2>10. ASSUME NEW f \in Envelopes, f # e PROVE OnceNow(w, f)
    <3>1. Once(f) /\ (InQueue(f)' <=> InQueue(f))
      BY <2>2 DEF Calm, InQueue
    <3>2. Settled(f)' <=> Settled(f)
      BY <2>2, <2>6, <2>10 DEF Settled
    <3> QED
      BY <2>2, <2>6, <2>8, <2>10, <3>1, <3>2 DEF Once, OnceNow
  <2>11. \A x \in Range(queue') : posts'[x.envelope] = x.attempt + 1
    <3>1. \A x \in Range(queue) : x.envelope # e /\ x.envelope \in Envelopes
      BY <1>4, <2>3
    <3> QED
      BY <2>2, <2>6, <3>1 DEF Calm
  <2>12. Distinct(queue')
    BY <2>2 DEF Calm
  <2> QED
    BY <1>29, <2>5, <2>9, <2>10, <2>11, <2>12, CalmFrom DEF WorkerStep
\* An entry goes back to the head of the queue.
<1>30. ASSUME NEW w \in Workers, WorkerStep(w), Calm, worker[w].pc \in {"resolve", "failed"},
              NEW entry \in Entry, entry.envelope = InHand(w).envelope,
              posts[entry.envelope] = entry.attempt + 1,
              queue' = Cons(entry, queue), To(w, "remove"),
              UNCHANGED <<sent, processing, posts, answers, buried>>
       PROVE  Calm'
  <2> DEFINE e == entry.envelope
  <2>1. e \in Envelopes /\ sent[e] = "queued" /\ ~InQueue(e) /\ ~Settled(e)
    BY <1>30, CalmHand
  <2>2. Tidy(w) /\ worker'[w].pc = "remove"
    BY <1>27, <1>30 DEF Holding
  <2>3. Range(queue') = Range(queue) \cup {entry}
    <3>1. Range(Cons(entry, queue)) = Range(queue) \cup {entry}
      BY <1>3, ConsRange
    <3> QED
      BY <1>30, <3>1
  <2>4. Distinct(queue')
    <3>1. \A i \in 1 .. Len(queue) : queue[i].envelope # entry.envelope
      BY <1>3, <1>4, <2>1, ListFacts
    <3>2. Distinct(queue)
      BY <1>30 DEF Calm
    <3>3. Distinct(Cons(entry, queue))
      BY <1>3, <3>1, <3>2, DistinctFacts
    <3> QED
      BY <1>30, <3>3
  <2>5. \A x \in Range(queue') : posts'[x.envelope] = x.attempt + 1
    BY <1>30, <2>3 DEF Calm
  <2> HIDE DEF e
  <2>6. ASSUME NEW f \in Envelopes PROVE OnceNow(w, f)
    <3>1. Once(f) /\ (Settled(f)' <=> Settled(f))
      BY <1>30 DEF Calm, Settled
    <3>2. InQueue(f)' => InQueue(f) \/ f = e
      BY <1>4, <2>3 DEF e
    <3> QED
      BY <1>30, <2>1, <2>2, <3>1, <3>2 DEF Once, OnceNow
  <2> QED
    BY <1>30, <2>2, <2>4, <2>5, <2>6, CalmFrom
<1>31. ASSUME NEW w \in Workers, ResolveEarly(w) PROVE Calm'
  <2>1. Calm /\ WorkerStep(w) /\ worker[w].pc = "resolve"
    BY <1>9, <1>31 DEF ResolveEarly, WorkerStep
  <2>2. InHand(w) \in Entry /\ posts[InHand(w).envelope] = InHand(w).attempt + 1
    BY <2>1, HandType, CalmHand DEF Holding
  <2> QED
    BY <1>30, <1>31, <2>1, <2>2 DEF ResolveEarly, history
<1>32. ASSUME NEW w \in Workers, Reschedule(w) PROVE Calm'
  <2> DEFINE next == [InHand(w) EXCEPT !.attempt = InHand(w).attempt + 1]
  <2>1. Calm /\ WorkerStep(w) /\ worker[w].pc = "failed"
    BY <1>9, <1>32 DEF Reschedule, WorkerStep
  <2>2. /\ next \in Entry /\ next.envelope = InHand(w).envelope
        /\ next.attempt = InHand(w).attempt + 1 /\ InHand(w).attempt \in Nat
    BY <1>32, HandType, BoundsTypes DEF Reschedule, Holding, Exhausted, Entry
  <2>3. posts[InHand(w).envelope] = InHand(w).attempt + 2
    BY <2>1, CalmHand
  <2>4. /\ queue' = Cons(next, queue) /\ To(w, "remove")
        /\ UNCHANGED <<sent, processing, posts, answers, buried>>
    BY <1>32 DEF Reschedule, history
  <2> HIDE DEF next
  <2>5. posts[next.envelope] = next.attempt + 1
    BY <2>2, <2>3
  <2> QED
    BY <1>30, <2>1, <2>2, <2>4, <2>5
<1> QED
  BY <1>5, <1>6, <1>7, <1>12, <1>13, <1>14, <1>18, <1>20, <1>21, <1>22, <1>23, <1>24, <1>25,
     <1>26, <1>28, <1>29, <1>31, <1>32, <1>33
     DEF Next, SenderStep, WorkerStep

-----------------------------------------------------------------------------
(* The theorems. *)

LEMMA InitInv == Init => Inv
<1> SUFFICES ASSUME Init PROVE Inv
  OBVIOUS
<1>1. TypeOK /\ Histories /\ SingleFlight
  BY InitTypes
<1>2. \A w \in Workers : worker[w] = Idle
  BY DEF Init
<1>3. Range(<<>>) = {} /\ Distinct(<<>>)
  BY DEF Range, Distinct
<1>4. /\ queue = <<>> /\ processing = <<>> /\ \A e \in Envelopes : sent[e] = "new"
      /\ \A e \in Envelopes : posts[e] = 0 /\ answers[e] = 0 /\ buried[e] = "no"
  BY DEF Init
<1>5. Positions /\ NoEnvelopeLost
  BY <1>2, <1>4, IdleType DEF Positions, Position, Holding, NoEnvelopeLost
<1>6. Counted
  BY <1>2, <1>3, <1>4, IdleType DEF Counted, Holding
<1>7. Calm
  <2>1. \A e \in Envelopes : ~InQueue(e) /\ ~Settled(e) /\ \A w \in Workers : ~Live(w, e)
    BY <1>2, <1>4, IdleType DEF InQueue, Settled, Live
  <2>2. \A e \in Envelopes : Once(e)
    BY <1>4, <2>1, BoundsTypes DEF Once
  <2> QED
    BY <1>2, <1>3, <1>4, <2>2, IdleType DEF Calm, Holding
<1> QED
  BY <1>1, <1>5, <1>6, <1>7 DEF Inv

LEMMA StepInv == Inv /\ [Next]_vars => Inv'
<1> SUFFICES ASSUME Inv, [Next]_vars PROVE Inv'
  OBVIOUS
<1>1. TypeOK' /\ Histories' /\ SingleFlight'
  BY StepTypes
<1>2. Positions' /\ NoEnvelopeLost'
  BY StepKeepsPlace
<1>3. Counted'
  BY StepKeepsCount
<1>4. crashes' = 0 => Calm'
  BY StepKeepsCalm DEF Inv
<1> QED
  BY <1>1, <1>2, <1>3, <1>4 DEF Inv

LEMMA Invariance == Spec => []Inv
  BY InitInv, StepInv, PTL DEF Spec

\* Types, and DEAD_LETTER_MAX: however many webhooks fail, the list holds at most one
\* letter more while a drain is between RPUSH and LTRIM of _dead_letter, and one for
\* each process that died (retry.py 155 and 157).
THEOREM TypesHold == Spec => []TypeOK
<1>1. Inv => TypeOK
  BY DEF Inv
<1> QED
  BY <1>1, Invariance, PTL

\* At most one replica drains at a time: run_single_flight (single_flight.py 58).
THEOREM OneDrain == Spec => []SingleFlight
<1>1. Inv => SingleFlight
  BY DEF Inv
<1> QED
  BY <1>1, Invariance, PTL

\* Whichever process dies between whichever two commands, a queued webhook is in
\* one of the two lists until it was answered or dead-lettered (retry.py 237).
THEOREM NothingIsLost == Spec => []NoEnvelopeLost
<1>1. Inv => NoEnvelopeLost
  BY DEF Inv
<1> QED
  BY <1>1, Invariance, PTL

\* A webhook is given up on after all its POSTs and not before; without a crash no
\* webhook is posted once more than the schedule says (retry.py 234).
THEOREM ScheduleIsKept == Spec => []PostsAsScheduled
<1>1. Inv => PostsAsScheduled
  <2> SUFFICES ASSUME Inv PROVE PostsAsScheduled
    OBVIOUS
  <2>1. \A e \in Envelopes : buried[e] = "exhausted" => posts[e] >= Tries + 1
    BY DEF Inv, Counted
  <2>2. crashes = 0 => \A e \in Envelopes : posts[e] <= Tries + 1
    BY DEF Inv, Calm, Once
  <2> QED
    BY <2>1, <2>2 DEF PostsAsScheduled
<1> QED
  BY <1>1, Invariance, PTL

\* As long as no process died, a webhook that was answered or dead-lettered is not
\* posted again: only a crash brings the second copy the receiver is told to
\* expect (retry.py 191).
THEOREM NoSecondCopy == Spec => NotPostedAgain
<1>1. ASSUME Inv, [Next]_vars
      PROVE  \A e \in Envelopes : crashes = 0 /\ Settled(e) => posts'[e] = posts[e]
  <2> SUFFICES ASSUME NEW e \in Envelopes, crashes = 0, Settled(e) PROVE posts'[e] = posts[e]
    OBVIOUS
  <2>1. Calm /\ Histories
    BY <1>1 DEF Inv
  <2>2. ASSUME NEW f \in Envelopes, f # e, NEW final \in BOOLEAN, Answered(f, final)
        PROVE  posts'[e] = posts[e]
    BY <2>1, <2>2, AnsweredType
  <2>3. ASSUME NEW f \in Envelopes, SendFirst(f) PROVE posts'[e] = posts[e]
    <3>1. f # e
      BY <2>1, <2>3 DEF SendFirst, Calm, Once
    <3> QED
      BY <2>2, <2>3, <3>1 DEF SendFirst
  <2>4. ASSUME NEW w \in Workers, Deliver(w) PROVE posts'[e] = posts[e]
    <3>1. InHand(w).envelope \in Envelopes /\ ~Settled(InHand(w).envelope)
      BY <1>1, <2>1, <2>4, CalmHand DEF Deliver
    <3>2. InHand(w).envelope # e
      BY <3>1
    <3> QED
      BY <2>2, <2>4, <3>1, <3>2 DEF Deliver
  <2>5. ASSUME NEW w \in Workers,
               \/ SweepStart(w) \/ ReclaimList(w) \/ ReclaimSkip(w) \/ ReclaimRequeue(w)
               \/ ReclaimRemove(w) \/ Count(w) \/ Claim(w) \/ Stamp(w) \/ ResolveEarly(w)
               \/ ResolveAged(w) \/ BuryExhausted(w)
               \/ Trim(w) \/ Reschedule(w) \/ Acknowledge(w) \/ Unlock(w) \/ WorkerCrash(w)
        PROVE  posts' = posts
    BY <2>5 DEF SweepStart, ReclaimList, ReclaimSkip, ReclaimRequeue, ReclaimRemove, Count,
                Claim, Stamp, ResolveEarly, ResolveAged, BuryExhausted,
                Trim, Reschedule, Acknowledge, Unlock, WorkerCrash, history
  <2>6. ASSUME NEW f \in Envelopes, Withhold(f) \/ Enqueue(f) \/ SenderCrash(f)
        PROVE  posts' = posts
    BY <2>6 DEF Withhold, Enqueue, SenderCrash, history
  <2>7. UNCHANGED vars => posts' = posts
    BY DEF vars, history
  <2> QED
    BY <1>1, <2>3, <2>4, <2>5, <2>6, <2>7 DEF Next, SenderStep, WorkerStep
<1>2. Inv /\ [Next]_vars =>
        [\A e \in Envelopes : crashes = 0 /\ Settled(e) => posts'[e] = posts[e]]_vars
  BY <1>1
<1> QED
  BY <1>2, Invariance, PTL DEF Spec, NotPostedAgain
=============================================================================
