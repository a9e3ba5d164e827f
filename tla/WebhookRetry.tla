---------------------------- MODULE WebhookRetry ----------------------------
(***************************************************************************)
(* Webhook delivery: webhooks/delivery.py posts an envelope once, a failed *)
(* one goes to the Redis list of webhooks/retry.py, and the drain sweep of *)
(* every replica works on that list under sweeps/single_flight.py.  One    *)
(* action is one Redis command, one POST or one take of the advisory lock, *)
(* so a process may die between any two.                                   *)
(*                                                                         *)
(* The clock is read when a sweep starts and nowhere else in it.  What the *)
(* reading decides (which entries are due, which envelopes are too old,    *)
(* which claims are past their lease) is kept instead of the time.         *)
(***************************************************************************)
EXTENDS Naturals, SequencesExt

CONSTANTS Envelopes,     \* webhooks, by event_id
          Workers,       \* drain loops, one per replica
          Tries,         \* len(BACKOFF_SCHEDULE)
          DeadLetterMax, \* DEAD_LETTER_MAX
          MaxCrashes     \* processes that die

ASSUME BoundsAssumption ==
  /\ {Tries, DeadLetterMax} \subseteq Nat \ {0}
  /\ MaxCrashes \in Nat

VARIABLES
  sent,       \* sent[e]: the synchronous delivery of e
  queue,      \* webhook:retry_queue, head first
  processing, \* webhook:retry_processing, head first
  deadLetter, \* webhook:dead_letter, oldest first
  lock,       \* the worker whose connection holds the lock of "webhook-drain"
  worker,     \* the drain loops
  due,        \* entries whose next_retry_at the clock has passed
  aged,       \* envelopes past MAX_AGE_SECONDS
  stale,      \* claims older than the lease
  crashes,    \* processes that died so far
  posts,      \* history: POSTs made for an envelope
  answers,    \* history: how many of them were answered for good
  buried      \* history: envelopes dead-lettered, and why

lists == <<queue, processing, deadLetter>>
clock == <<due, aged, stale>>
history == <<posts, answers, buried>>
vars == <<sent, lists, lock, worker, clock, crashes, history>>

-----------------------------------------------------------------------------
(* An entry of the lists.  A claim stamps it, which only LREM looks at.    *)

Entry == [envelope : Envelopes, attempt : 0 .. Tries - 1]
Unclaimed == 0
Row == [entry : Entry, claim : Nat]

Nobody == "nobody"

ASSUME WorkersAssumption == Nobody \notin Workers

\* A drain loop: the command it is at, the claims left in the sweep, the LRANGE
\* reply the reclaim pass works through and the row it holds.
NoEntry == [envelope |-> "none", attempt |-> 0]
NoRow == [entry |-> NoEntry, claim |-> Unclaimed]
Idle == [pc |-> "idle", left |-> 0, listed |-> <<>>, held |-> NoRow]

Pcs == {"idle", "list", "reclaim", "unlist", "count", "claim", "stamp",
        "resolve", "failed", "trim", "remove", "unlock"}

InHand(w) == worker[w].held.entry

\* A claim token no row bears: uuid4 never repeats.
FreshClaim ==
  CHOOSE t \in 1 .. Len(processing) + 1 :
    \A i \in 1 .. Len(processing) : processing[i].claim # t

Init ==
  /\ sent = [e \in Envelopes |-> "new"]
  /\ queue = <<>> /\ processing = <<>> /\ deadLetter = <<>>
  /\ lock = Nobody
  /\ worker = [w \in Workers |-> Idle]
  /\ due = {} /\ aged = {} /\ stale = {}
  /\ crashes = 0
  /\ posts = [e \in Envelopes |-> 0]
  /\ answers = [e \in Envelopes |-> 0]
  /\ buried = [e \in Envelopes |-> "no"]

-----------------------------------------------------------------------------
(* The synchronous delivery: WebhookSink.deliver. *)

\* The subscriber did not ask for the event, or the SSRF guard refuses the URL.
Withhold(e) ==
  /\ sent[e] = "new"
  /\ sent' = [sent EXCEPT ![e] = "withheld"]
  /\ UNCHANGED <<lists, lock, worker, clock, crashes, history>>

\* What a POST may come back with: 2xx or a permanent 4xx, or something else.
Answered(e, final) ==
  /\ posts' = [posts EXCEPT ![e] = @ + 1]
  /\ answers' = IF final THEN [answers EXCEPT ![e] = @ + 1] ELSE answers

SendFirst(e) ==
  /\ sent[e] = "new"
  /\ \E final \in BOOLEAN :
       /\ Answered(e, final)
       /\ sent' = [sent EXCEPT ![e] = IF final THEN "answered" ELSE "failed"]
  /\ UNCHANGED <<lists, lock, worker, clock, crashes, buried>>

\* RetryQueue.enqueue: the first retry waits BACKOFF_SCHEDULE[0].
Enqueue(e) ==
  /\ sent[e] = "failed"
  /\ sent' = [sent EXCEPT ![e] = "queued"]
  /\ queue' = Append(queue, [envelope |-> e, attempt |-> 0])
  /\ UNCHANGED <<processing, deadLetter, lock, worker, clock, crashes, history>>

\* The process dies between the failed POST and the enqueue: nothing on disk
\* knows of the envelope.
SenderCrash(e) ==
  /\ sent[e] = "failed"
  /\ crashes < MaxCrashes
  /\ crashes' = crashes + 1
  /\ sent' = [sent EXCEPT ![e] = "forgotten"]
  /\ UNCHANGED <<lists, lock, worker, clock, history>>

-----------------------------------------------------------------------------
(* The drain sweep: drain_retry_queue, under run_single_flight. *)

To(w, pc) == worker' = [worker EXCEPT ![w].pc = pc]

\* The lock is taken and the clock read: entries, envelopes and claims may have
\* come of age since the last reading.
SweepStart(w) ==
  /\ worker[w].pc = "idle" /\ lock = Nobody
  /\ lock' = w
  /\ To(w, "list")
  /\ \E D \in SUBSET Range(queue) : due' = due \cup D
  /\ \E A \in SUBSET {e \in Envelopes : sent[e] = "queued"} : aged' = aged \cup A
  /\ \E S \in SUBSET {processing[i].claim : i \in DOMAIN processing} :
       stale' = stale \cup S
  /\ UNCHANGED <<sent, lists, crashes, history>>

\* _reclaim_stale_processing: LRANGE, then the rows one by one.
ReclaimList(w) ==
  /\ worker[w].pc = "list"
  /\ worker' = [worker EXCEPT ![w] =
       [@ EXCEPT !.pc = "reclaim", !.listed = processing]]
  /\ UNCHANGED <<sent, lists, lock, clock, crashes, history>>

\* Mutant of Abandoned: only what was never stamped is taken back.
AbandonedUnstamped(row) == row.claim = Unclaimed

\* Never stamped, or the claim is past its lease.
Abandoned(row) == row.claim = Unclaimed \/ row.claim \in stale

ReclaimSkip(w) ==
  /\ worker[w].pc = "reclaim" /\ worker[w].listed # <<>>
  /\ ~Abandoned(Head(worker[w].listed))
  /\ worker' = [worker EXCEPT ![w].listed = Tail(@)]
  /\ UNCHANGED <<sent, lists, lock, clock, crashes, history>>

\* RPUSH before LREM.
ReclaimRequeue(w) ==
  /\ worker[w].pc = "reclaim" /\ worker[w].listed # <<>>
  /\ Abandoned(Head(worker[w].listed))
  /\ queue' = Append(queue, Head(worker[w].listed).entry)
  /\ To(w, "unlist")
  /\ UNCHANGED <<sent, processing, deadLetter, lock, clock, crashes, history>>

ReclaimRemove(w) ==
  /\ worker[w].pc = "unlist"
  /\ processing' = RemoveFirst(processing, Head(worker[w].listed))
  /\ worker' = [worker EXCEPT ![w] =
       [@ EXCEPT !.pc = "reclaim", !.listed = Tail(worker[w].listed)]]
  /\ UNCHANGED <<sent, queue, deadLetter, lock, clock, crashes, history>>

\* LLEN: the sweep makes as many claims as there were entries.
Count(w) ==
  /\ worker[w].pc = "reclaim" /\ worker[w].listed = <<>>
  /\ worker' = [worker EXCEPT ![w] =
       [@ EXCEPT !.pc = IF queue = <<>> THEN "unlock" ELSE "claim",
                 !.left = Len(queue)]]
  /\ UNCHANGED <<sent, lists, lock, clock, crashes, history>>

\* Mutant of Claim: RPOP, the claim held in process memory only.
ClaimPops(w) ==
  /\ worker[w].pc = "claim" /\ queue # <<>>
  /\ queue' = Front(queue)
  /\ worker' = [worker EXCEPT ![w] =
       [@ EXCEPT !.pc = "stamp", !.left = worker[w].left - 1,
                 !.held = [entry |-> Last(queue), claim |-> Unclaimed]]]
  /\ UNCHANGED <<sent, processing, deadLetter, lock, clock, crashes, history>>

\* RPOPLPUSH: the tail of the queue becomes the head of the processing list.
\* The queue still holds every entry LLEN counted: only the lock holder takes
\* from it.
Claim(w) ==
  /\ worker[w].pc = "claim" /\ queue # <<>>
  /\ queue' = Front(queue)
  /\ LET row == [entry |-> Last(queue), claim |-> Unclaimed] IN
       /\ processing' = Cons(row, processing)
       /\ worker' = [worker EXCEPT ![w] =
            [@ EXCEPT !.pc = "stamp", !.held = row, !.left = worker[w].left - 1]]
  /\ UNCHANGED <<sent, deadLetter, lock, clock, crashes, history>>

\* LSET 0, whatever is at the head by now; it fails on an empty list, and the
\* tick with it.
Stamp(w) ==
  /\ worker[w].pc = "stamp"
  /\ IF processing = <<>>
     THEN To(w, "unlock") /\ UNCHANGED <<processing, stale>>
     ELSE LET row == [entry |-> InHand(w), claim |-> FreshClaim] IN
          /\ processing' = ReplaceAt(processing, 1, row)
          /\ worker' = [worker EXCEPT ![w] =
               [@ EXCEPT !.pc = "resolve", !.held = row]]
          /\ stale' = stale \ {row.claim}
  /\ UNCHANGED <<sent, queue, deadLetter, lock, due, aged, crashes, history>>

\* _dead_letter: RPUSH first.
Bury(w, why) ==
  /\ deadLetter' = Append(deadLetter, InHand(w).envelope)
  /\ buried' = [buried EXCEPT ![InHand(w).envelope] = why]
  /\ To(w, "trim")

\* Mutant of Recent: the negative index counts one too many.
RecentAndOne(letters) ==
  IF Len(letters) > DeadLetterMax
  THEN SubSeq(letters, Len(letters) - DeadLetterMax, Len(letters))
  ELSE letters

\* LTRIM key -DEAD_LETTER_MAX -1.
Recent(letters) ==
  IF Len(letters) > DeadLetterMax
  THEN SubSeq(letters, Len(letters) - DeadLetterMax + 1, Len(letters))
  ELSE letters

\* _dead_letter goes on: everything but the most recent goes, what a crash before
\* this command left over included.
Trim(w) ==
  /\ worker[w].pc = "trim"
  /\ deadLetter' = Recent(deadLetter)
  /\ To(w, "remove")
  /\ UNCHANGED <<sent, queue, processing, lock, clock, crashes, history>>

ResolveAged(w) ==
  /\ worker[w].pc = "resolve" /\ InHand(w).envelope \in aged
  /\ Bury(w, "aged")
  /\ UNCHANGED <<sent, queue, processing, lock, clock, crashes, posts, answers>>

\* Not due: the entry goes back to the head, out of this sweep's reach.
ResolveEarly(w) ==
  /\ worker[w].pc = "resolve"
  /\ InHand(w).envelope \notin aged /\ InHand(w) \notin due
  /\ queue' = Cons(InHand(w), queue)
  /\ To(w, "remove")
  /\ UNCHANGED <<sent, processing, deadLetter, lock, clock, crashes, history>>

\* _deliver_one.
Deliver(w) ==
  /\ worker[w].pc = "resolve"
  /\ InHand(w).envelope \notin aged /\ InHand(w) \in due
  /\ \E final \in BOOLEAN :
       /\ Answered(InHand(w).envelope, final)
       /\ To(w, IF final THEN "remove" ELSE "failed")
  /\ UNCHANGED <<sent, lists, lock, clock, crashes, buried>>

\* Mutant of Exhausted: the schedule ends one retry early.
ExhaustedEarly(entry) == entry.attempt + 2 >= Tries

Exhausted(entry) == entry.attempt + 1 >= Tries

BuryExhausted(w) ==
  /\ worker[w].pc = "failed" /\ Exhausted(InHand(w))
  /\ Bury(w, "exhausted")
  /\ UNCHANGED <<sent, queue, processing, lock, clock, crashes, posts, answers>>

\* The next attempt waits its own backoff.
Reschedule(w) ==
  /\ worker[w].pc = "failed" /\ ~Exhausted(InHand(w))
  /\ LET next == [InHand(w) EXCEPT !.attempt = @ + 1] IN
       /\ queue' = Cons(next, queue)
       /\ due' = due \ {next}
  /\ To(w, "remove")
  /\ UNCHANGED <<sent, processing, deadLetter, lock, aged, stale, crashes, history>>

\* LREM of exactly the stamped row, last of all.
Acknowledge(w) ==
  /\ worker[w].pc = "remove"
  /\ processing' = RemoveFirst(processing, worker[w].held)
  /\ worker' = [worker EXCEPT ![w] =
       [@ EXCEPT !.pc = IF worker[w].left = 0 THEN "unlock" ELSE "claim",
                 !.held = NoRow]]
  /\ UNCHANGED <<sent, queue, deadLetter, lock, clock, crashes, history>>

\* pg_advisory_unlock on the connection that holds it, or on none.
Unlock(w) ==
  /\ worker[w].pc = "unlock"
  /\ worker' = [worker EXCEPT ![w] = Idle]
  /\ lock' = IF lock = w THEN Nobody ELSE lock
  /\ UNCHANGED <<sent, lists, clock, crashes, history>>

\* The process dies, and its connection closes.
WorkerCrash(w) ==
  /\ worker[w].pc # "idle" /\ crashes < MaxCrashes
  /\ crashes' = crashes + 1
  /\ worker' = [worker EXCEPT ![w] = Idle]
  /\ lock' = IF lock = w THEN Nobody ELSE lock
  /\ UNCHANGED <<sent, lists, clock, history>>

-----------------------------------------------------------------------------
WorkerStep(w) ==
  \/ ReclaimList(w) \/ ReclaimSkip(w) \/ ReclaimRequeue(w) \/ ReclaimRemove(w)
  \/ Count(w) \/ Claim(w) \/ Stamp(w)
  \/ ResolveAged(w) \/ ResolveEarly(w) \/ Deliver(w)
  \/ BuryExhausted(w) \/ Trim(w) \/ Reschedule(w) \/ Acknowledge(w) \/ Unlock(w)

SenderStep(e) == Withhold(e) \/ SendFirst(e) \/ Enqueue(e)

Next ==
  \/ \E e \in Envelopes : SenderStep(e) \/ SenderCrash(e)
  \/ \E w \in Workers : SweepStart(w) \/ WorkerStep(w) \/ WorkerCrash(w)

Spec == Init /\ [][Next]_vars

\* A sweep in progress goes on and the loops come round.  Backoffs and leases are
\* finite and an entry is rescheduled finitely often, so at some later reading of
\* the clock all that waits is due and all claims are past their lease.
SweepInTime ==
  \E w \in Workers :
    /\ SweepStart(w)
    /\ Range(queue) \subseteq due'
    /\ {processing[i].claim : i \in DOMAIN processing} \subseteq stale'

Fairness ==
  /\ WF_vars(\E e \in Envelopes : Enqueue(e))
  /\ WF_vars(\E w \in Workers : WorkerStep(w))
  /\ SF_vars(SweepInTime)

FairSpec == Spec /\ Fairness

-----------------------------------------------------------------------------
\* The list "is capped (LTRIM) so it can't grow unbounded" (retry.py 139): one
\* letter too many while a drain is between the two commands, and one more for
\* each drain that died there, until the next LTRIM takes them all.
DeadLettersCapped ==
  Len(deadLetter) <= DeadLetterMax + crashes
                       + (IF \E w \in Workers : worker[w].pc = "trim" THEN 1 ELSE 0)

\* The lists, the lock and the drain loops have their types and the dead letters
\* keep within their cap.
TypeOK ==
  /\ sent \in [Envelopes ->
       {"new", "withheld", "answered", "failed", "queued", "forgotten"}]
  /\ queue \in Seq(Entry) /\ processing \in Seq(Row)
  /\ deadLetter \in Seq(Envelopes) /\ DeadLettersCapped
  /\ lock \in Workers \cup {Nobody}
  /\ worker \in [Workers -> [pc : Pcs, left : Nat, listed : Seq(Row),
                             held : Row \cup {NoRow}]]
  /\ due \subseteq Entry /\ aged \subseteq Envelopes /\ stale \subseteq Nat

InQueue(e) == \E i \in DOMAIN queue : queue[i].envelope = e
InProcessing(e) == \E i \in DOMAIN processing : processing[i].entry.envelope = e

Settled(e) == answers[e] > 0 \/ buried[e] # "no"

\* A queued envelope is in one of the lists until a receiver has answered it or
\* it is in the dead letters: retry.py 237, "never held only in process memory".
NoEnvelopeLost ==
  \A e \in Envelopes :
    sent[e] = "queued" => Settled(e) \/ InQueue(e) \/ InProcessing(e)

\* One synchronous POST and one per backoff, 5 in all (retry.py 234): a webhook
\* is given up on after all of them and, unless a process died meanwhile, is
\* never posted once more.
PostsAsScheduled ==
  \A e \in Envelopes :
    /\ buried[e] = "exhausted" => posts[e] >= Tries + 1
    /\ crashes = 0 => posts[e] <= Tries + 1

\* Whatever dies, a queued webhook is answered or dead-lettered in the end.
EventuallySettled == \A e \in Envelopes : sent[e] = "queued" ~> Settled(e)
=============================================================================
