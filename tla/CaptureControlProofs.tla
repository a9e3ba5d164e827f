------------------------ MODULE CaptureControlProofs ------------------------
(***************************************************************************)
(* Theorems about CaptureControl, for any number of executors, meetings    *)
(* and faults.                                                             *)
(***************************************************************************)
EXTENDS CaptureControl, FiniteSetTheorems, TLAPS

-----------------------------------------------------------------------------
(* Types. *)

Journal    == [Meetings -> Progress]
LedgerType == [status : {"none", "pending", "completed"}, fence : Nat, leased : BOOLEAN,
               journal : Journal]
CaptorType(n) == [pc : CaptorPc, fence : Nat, grant : 0..n]
EraserType == [pc : EraserPc, fence : Nat, todo : SUBSET Meetings, journal : Journal]
RowType(n) == [status : {"none", "live", "ended", "deleted"}, grant : 0..n]

LedgerOK == ledger \in [Operation -> LedgerType]
EraserOK == eraser \in [Erasers -> EraserType]
CaptorOK == captor \in [Captors -> CaptorType(grants)]
GrantsOK ==
  /\ grants \in Nat
  /\ capture \in [grant : 0..grants, meeting : 0..MaxMeetings]
  /\ meeting \in [Meetings -> RowType(grants)]
CountsOK == forgotten \in BOOLEAN /\ faults \in 0..MaxFaults

LEMMA NoJournalType == NoJournal \in Journal
  BY DEF NoJournal, Journal, Progress

\* A note is a journal again.
LEMMA NotedType ==
  ASSUME NEW j \in Journal, NEW m, NEW at \in {"nothing", "prepared", "raw_erased", "absent", "finalized"},
         NEW counted \in BOOLEAN
  PROVE  [j EXCEPT ![m] = [at |-> at, counted |-> counted]] \in Journal
  BY DEF Journal, Progress

\* What the writes of the ledger do.
LEMMA LedgerWrites ==
  ASSUME LedgerOK, NEW o \in Operation, NEW j \in Journal
  PROVE  /\ Claimed(o) \in [Operation -> LedgerType]
         /\ Renewed(o) \in [Operation -> LedgerType]
         /\ Saved(j) \in [Operation -> LedgerType]
         /\ Completed(o) \in [Operation -> LedgerType]
         /\ \A q \in Operation :
              /\ q # o => Claimed(o)[q] = ledger[q] /\ Renewed(o)[q] = ledger[q]
                          /\ Completed(o)[q] = ledger[q]
              /\ q # "erase" => Saved(j)[q] = ledger[q]
         /\ Claimed(o)[o].status = "pending" /\ Claimed(o)[o].fence = ledger[o].fence + 1
         /\ Claimed(o)[o].journal = ledger[o].journal
         /\ Renewed(o)[o].status = ledger[o].status /\ Renewed(o)[o].fence = ledger[o].fence
         /\ Renewed(o)[o].journal = ledger[o].journal
         /\ Saved(j)["erase"].status = ledger["erase"].status
         /\ Saved(j)["erase"].fence = ledger["erase"].fence /\ Saved(j)["erase"].journal = j
         /\ Completed(o)[o].status = "completed" /\ Completed(o)[o].fence = ledger[o].fence
         /\ Completed(o)[o].journal = ledger[o].journal
<1>0. /\ ledger[o] \in LedgerType /\ ledger["erase"] \in LedgerType /\ "erase" \in Operation
      /\ DOMAIN ledger = Operation /\ ledger = [q \in Operation |-> ledger[q]]
      /\ TRUE \in BOOLEAN /\ FALSE \in BOOLEAN
  BY DEF LedgerOK, Operation
<1> DEFINE n == ledger[o].fence + 1
<1>n. n \in Nat
  BY <1>0 DEF LedgerType
<1> HIDE DEF n
<1>1. [ledger[o] EXCEPT !.status = "pending", !.fence = n, !.leased = TRUE] \in LedgerType
  BY <1>0, <1>n DEF LedgerType
<1>2. [ledger[o] EXCEPT !.leased = TRUE] \in LedgerType
  BY <1>0 DEF LedgerType
<1>3. [ledger["erase"] EXCEPT !.leased = TRUE, !.journal = j] \in LedgerType
  BY <1>0 DEF LedgerType
<1>4. [ledger[o] EXCEPT !.status = "completed", !.leased = FALSE] \in LedgerType
  BY <1>0 DEF LedgerType
<1>a. Claimed(o) = [ledger EXCEPT ![o] = [ledger[o] EXCEPT !.status = "pending",
                                                    !.fence = n, !.leased = TRUE]]
  BY <1>0 DEF Claimed, n
<1>5. /\ Claimed(o) \in [Operation -> LedgerType]
      /\ Claimed(o)[o] = [ledger[o] EXCEPT !.status = "pending", !.fence = n, !.leased = TRUE]
      /\ \A q \in Operation : q # o => Claimed(o)[q] = ledger[q]
  BY <1>1, <1>a DEF LedgerOK
<1>6. /\ Renewed(o) \in [Operation -> LedgerType]
      /\ Renewed(o)[o] = [ledger[o] EXCEPT !.leased = TRUE]
      /\ \A q \in Operation : q # o => Renewed(o)[q] = ledger[q]
  BY <1>2 DEF Renewed, LedgerOK
<1>7. /\ Saved(j) \in [Operation -> LedgerType]
      /\ Saved(j)["erase"] = [ledger["erase"] EXCEPT !.leased = TRUE, !.journal = j]
      /\ \A q \in Operation : q # "erase" => Saved(j)[q] = ledger[q]
  BY <1>0, <1>3 DEF Saved, LedgerOK
<1>8. /\ Completed(o) \in [Operation -> LedgerType]
      /\ Completed(o)[o] = [ledger[o] EXCEPT !.status = "completed", !.leased = FALSE]
      /\ \A q \in Operation : q # o => Completed(o)[q] = ledger[q]
  BY <1>4 DEF Completed, LedgerOK
<1>9. /\ Claimed(o)[o].status = "pending" /\ Claimed(o)[o].fence = ledger[o].fence + 1
      /\ Claimed(o)[o].journal = ledger[o].journal
  BY <1>0, <1>5 DEF LedgerType, n
<1>10. /\ Renewed(o)[o].status = ledger[o].status /\ Renewed(o)[o].fence = ledger[o].fence
       /\ Renewed(o)[o].journal = ledger[o].journal
  BY <1>0, <1>6 DEF LedgerType
<1>11. /\ Saved(j)["erase"].status = ledger["erase"].status
       /\ Saved(j)["erase"].fence = ledger["erase"].fence /\ Saved(j)["erase"].journal = j
  BY <1>0, <1>7 DEF LedgerType
<1>12. /\ Completed(o)[o].status = "completed" /\ Completed(o)[o].fence = ledger[o].fence
       /\ Completed(o)[o].journal = ledger[o].journal
  BY <1>0, <1>8 DEF LedgerType
<1> QED
  BY <1>5, <1>6, <1>7, <1>8, <1>9, <1>10, <1>11, <1>12

Types == LedgerOK /\ EraserOK /\ CaptorOK /\ GrantsOK /\ CountsOK
         /\ subject \in [state : {"active", "erasing", "erased"}, fence : Nat, policy : Policy]

LEMMA InitTypes == Init => Types
<1> SUFFICES ASSUME Init PROVE Types
  OBVIOUS
<1>1. LedgerOK
  <2>1. NotClaimed \in LedgerType
    BY NoJournalType DEF NotClaimed, LedgerType
  <2> QED
    BY <2>1 DEF Init, LedgerOK
<1>2. EraserOK
  BY NoJournalType DEF Init, EraserOK, Asleep, EraserType, EraserPc
<1>3. CaptorOK
  BY DEF Init, CaptorOK, Idle, CaptorType, CaptorPc
<1>4. GrantsOK
  BY BoundsAssumption DEF Init, GrantsOK, NoCapture, RowType
<1>5. CountsOK
  <2>1. forgotten \in BOOLEAN
    BY Zenon DEF Init
  <2> QED
    BY <2>1, BoundsAssumption DEF Init, CountsOK
<1>6. subject \in [state : {"active", "erasing", "erased"}, fence : Nat, policy : Policy]
  BY DEF Init, Policy
<1> QED
  BY <1>1, <1>2, <1>3, <1>4, <1>5, <1>6 DEF Types

-----------------------------------------------------------------------------
(* What the steps of an executor do. *)

LEMMA CaptorToDoes ==
  ASSUME CaptorOK, GrantsOK, NEW c \in Captors, NEW pc \in CaptorPc, CaptorTo(c, pc)
  PROVE  /\ captor' \in [Captors -> CaptorType(grants)]
         /\ \A d \in Captors : d # c => captor'[d] = captor[d]
         /\ captor'[c].pc = pc /\ captor'[c].fence = captor[c].fence
         /\ captor'[c].grant = captor[c].grant
<1>1. captor[c] \in CaptorType(grants)
  BY DEF CaptorOK
<1>2. [captor[c] EXCEPT !.pc = pc] \in CaptorType(grants)
  BY <1>1 DEF CaptorType
<1>3. /\ captor'[c] = [captor[c] EXCEPT !.pc = pc]
      /\ captor' \in [Captors -> CaptorType(grants)]
      /\ \A d \in Captors : d # c => captor'[d] = captor[d]
  BY <1>2 DEF CaptorTo, CaptorOK
<1> QED
  BY <1>1, <1>3 DEF CaptorType

LEMMA CaptorStops ==
  ASSUME CaptorOK, GrantsOK, NEW c \in Captors, CaptorGivesUp(c)
  PROVE  /\ captor' \in [Captors -> CaptorType(grants)]
         /\ \A d \in Captors : d # c => captor'[d] = captor[d]
         /\ captor'[c] = Idle
<1>1. Idle \in CaptorType(grants)
  BY DEF Idle, CaptorType, CaptorPc, GrantsOK
<1> QED
  BY <1>1 DEF CaptorGivesUp, CaptorOK

LEMMA EraserToDoes ==
  ASSUME EraserOK, NEW e \in Erasers, NEW pc \in EraserPc, EraserTo(e, pc)
  PROVE  /\ EraserOK'
         /\ \A f \in Erasers : f # e => eraser'[f] = eraser[f]
         /\ eraser'[e].pc = pc /\ eraser'[e].fence = eraser[e].fence
         /\ eraser'[e].todo = eraser[e].todo /\ eraser'[e].journal = eraser[e].journal
<1>1. eraser[e] \in EraserType
  BY DEF EraserOK
<1>2. [eraser[e] EXCEPT !.pc = pc] \in EraserType
  BY <1>1 DEF EraserType
<1>3. /\ eraser'[e] = [eraser[e] EXCEPT !.pc = pc] /\ EraserOK'
      /\ \A f \in Erasers : f # e => eraser'[f] = eraser[f]
  BY <1>2 DEF EraserTo, EraserOK
<1> QED
  BY <1>1, <1>3 DEF EraserType

LEMMA EraserStops ==
  ASSUME EraserOK, NEW e \in Erasers, EraserGivesUp(e)
  PROVE  EraserOK' /\ eraser'[e] = Asleep
         /\ \A f \in Erasers : f # e => eraser'[f] = eraser[f]
<1>1. Asleep \in EraserType
  BY NoJournalType DEF Asleep, EraserType, EraserPc
<1> QED
  BY <1>1 DEF EraserGivesUp, EraserOK

LEMMA NotesDoes ==
  ASSUME EraserOK, LedgerOK, NEW e \in Erasers, NEW j \in Journal, NEW pc \in EraserPc,
         Notes(e, j, pc)
  PROVE  /\ EraserOK' /\ LedgerOK'
         /\ \A f \in Erasers : f # e => eraser'[f] = eraser[f]
         /\ \/ /\ Owns("erase", eraser[e].fence) /\ ledger' = Saved(j)
               /\ eraser'[e].pc = pc /\ eraser'[e].fence = eraser[e].fence
               /\ eraser'[e].todo = eraser[e].todo /\ eraser'[e].journal = j
            \/ eraser'[e] = Asleep /\ ledger' = ledger
<1>1. eraser[e] \in EraserType /\ "erase" \in Operation
  BY DEF EraserOK, Operation
<1>2. [eraser[e] EXCEPT !.pc = pc, !.journal = j] \in EraserType
  BY <1>1 DEF EraserType
<1>3. CASE Owns("erase", eraser[e].fence)
  <2>1. /\ eraser'[e] = [eraser[e] EXCEPT !.pc = pc, !.journal = j] /\ EraserOK'
        /\ \A f \in Erasers : f # e => eraser'[f] = eraser[f]
    BY <1>2, <1>3 DEF Notes, EraserOK
  <2>2. ledger' = Saved(j) /\ LedgerOK'
    BY <1>1, <1>3, LedgerWrites DEF Notes, LedgerOK
  <2>3. /\ eraser'[e].pc = pc /\ eraser'[e].fence = eraser[e].fence
        /\ eraser'[e].todo = eraser[e].todo /\ eraser'[e].journal = j
    BY <1>1, <2>1 DEF EraserType
  <2> QED
    BY <1>3, <2>1, <2>2, <2>3
<1>4. CASE ~Owns("erase", eraser[e].fence)
  <2>1. EraserGivesUp(e) /\ ledger' = ledger
    BY <1>4 DEF Notes
  <2> QED
    BY <2>1, EraserStops DEF LedgerOK
<1> QED
  BY <1>3, <1>4

\* The least of a set of naturals: were there none, the numbers below all of the
\* set would be closed under successor, a finite set that maps into itself by an
\* injection that misses 0.
LEMMA Least ==
  ASSUME NEW T \in SUBSET Nat, T # {}
  PROVE  \E x \in T : \A y \in T : x <= y
<1> SUFFICES ASSUME \A x \in T : \E y \in T : y < x
             PROVE  FALSE
  OBVIOUS
<1> DEFINE D == {n \in Nat : \A y \in T : n < y}
           f == [n \in D |-> n + 1]
<1>1. PICK t \in T : TRUE
  OBVIOUS
<1>2. IsFiniteSet(D)
  <2>1. D \in SUBSET Nat /\ t \in Nat /\ \A n \in D : n <= t
    BY <1>1
  <2> QED
    BY <2>1, FS_BoundedSetOfNaturals
<1>3. 0 \in D
  BY DEF D
<1>4. ASSUME NEW n \in D PROVE n + 1 \in D
  <2>1. ASSUME NEW y \in T PROVE n + 1 < y
    <3>1. PICK z \in T : z < y
      OBVIOUS
    <3>2. n < z /\ z \in Nat /\ y \in Nat /\ n \in Nat
      BY <3>1
    <3> QED
      BY <3>1, <3>2
  <2> QED
    BY <2>1
<1>5. f \in Injection(D, D)
  BY <1>4 DEF Injection, IsInjective
<1>6. f \in Surjection(D, D)
  BY <1>2, <1>5, FS_Injection
<1>7. PICK n \in D : f[n] = 0
  BY <1>3, <1>6 DEF Surjection
<1> QED
  BY <1>7

\* While there are targets, the one at hand is among them.
LEMMA TargetIsOne ==
  ASSUME EraserOK, NEW e \in Erasers, eraser[e].todo # {}
  PROVE  Target(e) \in eraser[e].todo /\ Target(e) \in Meetings
<1>1. eraser[e].todo \in SUBSET Meetings
  BY DEF EraserOK, EraserType
<1>2. eraser[e].todo \in SUBSET Nat
  BY <1>1 DEF Meetings
<1>3. \E m \in eraser[e].todo : \A n \in eraser[e].todo : m <= n
  BY <1>2, Least
<1> QED
  BY <1>1, <1>3 DEF Target

-----------------------------------------------------------------------------
(* The types are kept. *)

\* Whoever is at a target has one: the note it takes is of a meeting.
OnTarget == {"withdraw", "plan", "prepare", "delete", "checkpoint", "absent", "settled",
             "finalized"}
HasTarget == \A e \in Erasers : eraser[e].pc \in OnTarget => eraser[e].todo # {}

L == ledger["erase"]
LedgerSame == L'.status = L.status /\ L'.fence = L.fence /\ L'.journal = L.journal
Alone(e) == \A f \in Erasers : f # e => eraser'[f] = eraser[f]
GivenUp(e) == eraser'[e] = Asleep /\ LedgerSame

\* What a note says of the target it is of.
Noted(e, at, counted, pc) ==
  /\ Owns("erase", eraser[e].fence) /\ L'.status = L.status /\ L'.fence = L.fence
  /\ L'.journal = eraser'[e].journal
  /\ eraser'[e].pc = pc /\ eraser'[e].fence = eraser[e].fence
  /\ eraser'[e].todo = eraser[e].todo
  /\ eraser'[e].journal[Target(e)].at = at
  /\ eraser'[e].journal[Target(e)].counted <=> counted
  /\ \A m \in Meetings : m # Target(e) => eraser'[e].journal[m] = eraser[e].journal[m]

\* What the eraser at a target notes is a journal.
LEMMA NotesTargetDoes ==
  ASSUME EraserOK, LedgerOK, HasTarget, NEW e \in Erasers, eraser[e].pc \in OnTarget,
         NEW at \in {"nothing", "prepared", "raw_erased", "absent", "finalized"},
         NEW counted, counted = TRUE \/ counted = eraser[e].journal[Target(e)].counted,
         NEW pc \in EraserPc, NotesTarget(e, at, counted, pc)
  PROVE  /\ EraserOK' /\ LedgerOK' /\ Alone(e)
         /\ Noted(e, at, counted, pc) \/ GivenUp(e)
<1>0. /\ "erase" \in Operation /\ eraser[e].journal \in Journal /\ Target(e) \in Meetings
      /\ Target(e) \in eraser[e].todo
  BY TargetIsOne DEF Operation, EraserOK, EraserType, HasTarget
<1>2. counted \in BOOLEAN
  <2>1. eraser[e].journal[Target(e)] \in Progress
    BY <1>0 DEF Journal
  <2>2. eraser[e].journal[Target(e)].counted \in BOOLEAN
    BY <2>1 DEF Progress
  <2> QED
    BY <2>2, Zenon
<1> DEFINE j == [eraser[e].journal EXCEPT ![Target(e)] = [at |-> at, counted |-> counted]]
<1>3. j \in Journal
  BY <1>0, <1>2, NotedType
<1>4. /\ j[Target(e)] = [at |-> at, counted |-> counted]
      /\ \A m \in Meetings : m # Target(e) => j[m] = eraser[e].journal[m]
  BY <1>0 DEF Journal
<1>5. Notes(e, j, pc)
  BY DEF NotesTarget
<1> HIDE DEF j
<1>6. EraserOK' /\ LedgerOK' /\ Alone(e)
  BY <1>3, <1>5, NotesDoes DEF Alone
<1>7. CASE eraser'[e] = Asleep /\ ledger' = ledger
  BY <1>6, <1>7 DEF GivenUp, LedgerSame, L
<1>8. CASE /\ Owns("erase", eraser[e].fence) /\ ledger' = Saved(j)
           /\ eraser'[e].pc = pc /\ eraser'[e].fence = eraser[e].fence
           /\ eraser'[e].todo = eraser[e].todo /\ eraser'[e].journal = j
  <2>1. L'.status = L.status /\ L'.fence = L.fence /\ L'.journal = j
    BY <1>0, <1>3, <1>8, LedgerWrites DEF L
  <2>2. j[Target(e)].at = at /\ j[Target(e)].counted = counted
    BY <1>4
  <2> QED
    BY <1>4, <1>6, <1>8, <2>1, <2>2 DEF Noted
<1> QED
  BY <1>3, <1>5, <1>7, <1>8, NotesDoes

LEMMA LedgerKept ==
  ASSUME LedgerOK, EraserOK, HasTarget, [Next]_vars
  PROVE  LedgerOK'
<1>1. ASSUME NEW c \in Captors, CaptorAdmitted(c) PROVE LedgerOK'
  BY <1>1 DEF CaptorAdmitted, LedgerOK
<1>2. ASSUME NEW c \in Captors, CaptorClaims(c) PROVE LedgerOK'
  <2>1. "capture" \in Operation /\ "erase" \in Operation /\ NoJournal \in Journal
    BY NoJournalType DEF Operation
  <2> QED
    BY <1>2, <2>1, LedgerWrites DEF CaptorClaims, LedgerOK
<1>3. ASSUME NEW c \in Captors, CaptorFinds(c) PROVE LedgerOK'
  BY <1>3 DEF CaptorFinds, LedgerOK
<1>4. ASSUME NEW c \in Captors, CaptorCreates(c) PROVE LedgerOK'
  BY <1>4 DEF CaptorCreates, LedgerOK
<1>5. ASSUME NEW c \in Captors, CaptorRecovers(c) PROVE LedgerOK'
  BY <1>5 DEF CaptorRecovers, LedgerOK
<1>6. ASSUME NEW c \in Captors, CaptorFences(c) PROVE LedgerOK'
  <2>1. "capture" \in Operation /\ "erase" \in Operation /\ NoJournal \in Journal
    BY NoJournalType DEF Operation
  <2> QED
    BY <1>6, <2>1, LedgerWrites DEF CaptorFences, LedgerOK
<1>7. ASSUME NEW c \in Captors, CaptorSpawns(c) PROVE LedgerOK'
  BY <1>7 DEF CaptorSpawns, LedgerOK
<1>8. ASSUME NEW c \in Captors, CaptorBinds(c) PROVE LedgerOK'
  BY <1>8 DEF CaptorBinds, LedgerOK
<1>9. ASSUME NEW c \in Captors, CaptorCompletes(c) PROVE LedgerOK'
  <2>1. "capture" \in Operation /\ "erase" \in Operation /\ NoJournal \in Journal
    BY NoJournalType DEF Operation
  <2> QED
    BY <1>9, <2>1, LedgerWrites DEF CaptorCompletes, LedgerOK
<1>10. ASSUME NEW c \in Captors, CaptorFails(c) PROVE LedgerOK'
  BY <1>10 DEF CaptorFails, LedgerOK
<1>11. ASSUME NEW e \in Erasers, EraserClaims(e) PROVE LedgerOK'
  <2>1. "capture" \in Operation /\ "erase" \in Operation /\ NoJournal \in Journal
    BY NoJournalType DEF Operation
  <2> QED
    BY <1>11, <2>1, LedgerWrites DEF EraserClaims, LedgerOK
<1>12. ASSUME NEW e \in Erasers, EraserOpensJournal(e) PROVE LedgerOK'
  BY <1>12, NotesDoes DEF EraserOpensJournal, EraserOK, EraserType, EraserPc
<1>13. ASSUME NEW e \in Erasers, EraserRaisesBarrier(e) PROVE LedgerOK'
  BY <1>13 DEF EraserRaisesBarrier, LedgerOK
<1>14. ASSUME NEW e \in Erasers, EraserLists(e) PROVE LedgerOK'
  BY <1>14 DEF EraserLists, LedgerOK
<1>15. ASSUME NEW e \in Erasers, EraserTakesTarget(e) PROVE LedgerOK'
  BY <1>15 DEF EraserTakesTarget, LedgerOK
<1>16. ASSUME NEW e \in Erasers, EraserWithdraws(e) PROVE LedgerOK'
  <2>1. "capture" \in Operation /\ "erase" \in Operation /\ NoJournal \in Journal
    BY NoJournalType DEF Operation
  <2> QED
    BY <1>16, <2>1, LedgerWrites DEF EraserWithdraws, LedgerOK
<1>17. ASSUME NEW e \in Erasers, EraserPlans(e) PROVE LedgerOK'
  BY <1>17 DEF EraserPlans, LedgerOK
<1>18. ASSUME NEW e \in Erasers, EraserPrepares(e) PROVE LedgerOK'
  BY <1>18, NotesTargetDoes DEF EraserPrepares, OnTarget, EraserPc
<1>19. ASSUME NEW e \in Erasers, EraserDeletes(e) PROVE LedgerOK'
  BY <1>19 DEF EraserDeletes, LedgerOK
<1>20. ASSUME NEW e \in Erasers, EraserChecksIn(e) PROVE LedgerOK'
  <2>1. PICK at \in {"absent", "raw_erased"} :
          NotesTarget(e, at, eraser[e].journal[Target(e)].counted, "settled")
    BY <1>20 DEF EraserChecksIn
  <2> QED
    BY <1>20, <2>1, NotesTargetDoes DEF EraserChecksIn, OnTarget, EraserPc
<1>21. ASSUME NEW e \in Erasers, EraserFinalizes(e) PROVE LedgerOK'
  BY <1>21 DEF EraserFinalizes, LedgerOK
<1>22. ASSUME NEW e \in Erasers, EraserClosesTarget(e) PROVE LedgerOK'
  BY <1>22, NotesTargetDoes DEF EraserClosesTarget, OnTarget, EraserPc
<1>23. ASSUME NEW e \in Erasers, EraserErasesControl(e) PROVE LedgerOK'
  BY <1>23 DEF EraserErasesControl, LedgerOK
<1>24. ASSUME NEW e \in Erasers, EraserLowersBarrier(e) PROVE LedgerOK'
  BY <1>24 DEF EraserLowersBarrier, LedgerOK
<1>25. ASSUME NEW e \in Erasers, EraserCompletes(e) PROVE LedgerOK'
  <2>1. "capture" \in Operation /\ "erase" \in Operation /\ NoJournal \in Journal
    BY NoJournalType DEF Operation
  <2> QED
    BY <1>25, <2>1, LedgerWrites DEF EraserCompletes, LedgerOK
<1>26. ASSUME NEW e \in Erasers, EraserFails(e) PROVE LedgerOK'
  BY <1>26 DEF EraserFails, LedgerOK
<1>27. ASSUME NEW m \in Meetings, MeetingEnds(m) PROVE LedgerOK'
  BY <1>27 DEF MeetingEnds, LedgerOK
<1>28. ASSUME NEW o \in Operation, LeaseExpires(o) PROVE LedgerOK'
  <2>1. [ledger[o] EXCEPT !.leased = FALSE] \in LedgerType
    BY DEF LedgerOK, LedgerType
  <2> QED
    BY <1>28, <2>1 DEF LeaseExpires, LedgerOK
<1>29. CASE Ensure
  BY <1>29 DEF Ensure, LedgerOK
<1>30. CASE UNCHANGED vars
  BY <1>30 DEF vars, LedgerOK
<1> QED
  BY <1>1, <1>2, <1>3, <1>4, <1>5, <1>6, <1>7, <1>8, <1>9, <1>10, <1>11, <1>12, <1>13, <1>14, <1>15, <1>16, <1>17, <1>18, <1>19, <1>20, <1>21, <1>22, <1>23, <1>24, <1>25, <1>26, <1>27, <1>28, <1>29, <1>30 DEF Next, CaptorStep, EraserStep

LEMMA EraserKept ==
  ASSUME LedgerOK, EraserOK, HasTarget, [Next]_vars
  PROVE  EraserOK'
<1>1. ASSUME NEW c \in Captors, CaptorAdmitted(c) PROVE EraserOK'
  BY <1>1 DEF CaptorAdmitted, EraserOK
<1>2. ASSUME NEW c \in Captors, CaptorClaims(c) PROVE EraserOK'
  BY <1>2 DEF CaptorClaims, EraserOK
<1>3. ASSUME NEW c \in Captors, CaptorFinds(c) PROVE EraserOK'
  BY <1>3 DEF CaptorFinds, EraserOK
<1>4. ASSUME NEW c \in Captors, CaptorCreates(c) PROVE EraserOK'
  BY <1>4 DEF CaptorCreates, EraserOK
<1>5. ASSUME NEW c \in Captors, CaptorRecovers(c) PROVE EraserOK'
  BY <1>5 DEF CaptorRecovers, EraserOK
<1>6. ASSUME NEW c \in Captors, CaptorFences(c) PROVE EraserOK'
  BY <1>6 DEF CaptorFences, EraserOK
<1>7. ASSUME NEW c \in Captors, CaptorSpawns(c) PROVE EraserOK'
  BY <1>7 DEF CaptorSpawns, EraserOK
<1>8. ASSUME NEW c \in Captors, CaptorBinds(c) PROVE EraserOK'
  BY <1>8 DEF CaptorBinds, EraserOK
<1>9. ASSUME NEW c \in Captors, CaptorCompletes(c) PROVE EraserOK'
  BY <1>9 DEF CaptorCompletes, EraserOK
<1>10. ASSUME NEW c \in Captors, CaptorFails(c) PROVE EraserOK'
  BY <1>10 DEF CaptorFails, EraserOK
<1>11. ASSUME NEW e \in Erasers, EraserClaims(e) PROVE EraserOK'
  <2>1. "erase" \in Operation /\ ledger["erase"] \in LedgerType /\ NoJournal \in Journal
    BY NoJournalType DEF LedgerOK, Operation
  <2>2. ledger'["erase"].fence = ledger["erase"].fence + 1
    BY <1>11, <2>1, LedgerWrites DEF EraserClaims
  <2>3. [pc |-> "journal", fence |-> ledger'["erase"].fence, todo |-> {},
         journal |-> ledger["erase"].journal] \in EraserType
    BY <2>1, <2>2 DEF LedgerType, EraserType, EraserPc
  <2> QED
    BY <1>11, <2>3 DEF EraserClaims, EraserOK
<1>12. ASSUME NEW e \in Erasers, EraserOpensJournal(e) PROVE EraserOK'
  BY <1>12, NotesDoes DEF EraserOpensJournal, EraserOK, EraserType, EraserPc
<1>13. ASSUME NEW e \in Erasers, EraserRaisesBarrier(e) PROVE EraserOK'
  BY <1>13, EraserToDoes DEF EraserRaisesBarrier, EraserPc
<1>14. ASSUME NEW e \in Erasers, EraserLists(e) PROVE EraserOK'
  <2> DEFINE T == {m \in Meetings : Stored(m) \/ eraser[e].journal[m].at # "nothing"}
  <2>1. T \in SUBSET Meetings /\ eraser[e] \in EraserType
    BY DEF EraserOK
  <2> HIDE DEF T
  <2>2. [eraser[e] EXCEPT !.pc = "target", !.todo = T] \in EraserType
    BY <2>1 DEF EraserType, EraserPc
  <2>3. eraser' = [eraser EXCEPT ![e] = [eraser[e] EXCEPT !.pc = "target", !.todo = T]]
    BY <1>14 DEF EraserLists, EraserOK, T
  <2> QED
    BY <2>2, <2>3 DEF EraserOK
<1>15. ASSUME NEW e \in Erasers, EraserTakesTarget(e) PROVE EraserOK'
  <2>1. CASE eraser' = [eraser EXCEPT ![e].todo = eraser[e].todo \ {Target(e)}]
    <3>1. eraser[e] \in EraserType /\ eraser[e].todo \ {Target(e)} \in SUBSET Meetings
      BY DEF EraserOK, EraserType
    <3>2. [eraser[e] EXCEPT !.todo = eraser[e].todo \ {Target(e)}] \in EraserType
      BY <3>1 DEF EraserType
    <3> QED
      BY <2>1, <3>2 DEF EraserOK
  <2>2. CASE \E pc \in {"control", "settled", "withdraw"} : EraserTo(e, pc)
    BY <2>2, EraserToDoes DEF EraserPc
  <2> QED
    BY <1>15, <2>1, <2>2 DEF EraserTakesTarget
<1>16. ASSUME NEW e \in Erasers, EraserWithdraws(e) PROVE EraserOK'
  BY <1>16, EraserToDoes, EraserStops DEF EraserWithdraws, EraserPc
<1>17. ASSUME NEW e \in Erasers, EraserPlans(e) PROVE EraserOK'
  BY <1>17, EraserToDoes DEF EraserPlans, EraserPc
<1>18. ASSUME NEW e \in Erasers, EraserPrepares(e) PROVE EraserOK'
  BY <1>18, NotesTargetDoes DEF EraserPrepares, OnTarget, EraserPc
<1>19. ASSUME NEW e \in Erasers, EraserDeletes(e) PROVE EraserOK'
  BY <1>19, EraserToDoes DEF EraserDeletes, EraserPc
<1>20. ASSUME NEW e \in Erasers, EraserChecksIn(e) PROVE EraserOK'
  <2>1. PICK at \in {"absent", "raw_erased"} :
          NotesTarget(e, at, eraser[e].journal[Target(e)].counted, "settled")
    BY <1>20 DEF EraserChecksIn
  <2> QED
    BY <1>20, <2>1, NotesTargetDoes DEF EraserChecksIn, OnTarget, EraserPc
<1>21. ASSUME NEW e \in Erasers, EraserFinalizes(e) PROVE EraserOK'
  BY <1>21, EraserToDoes DEF EraserFinalizes, EraserPc
<1>22. ASSUME NEW e \in Erasers, EraserClosesTarget(e) PROVE EraserOK'
  BY <1>22, NotesTargetDoes DEF EraserClosesTarget, OnTarget, EraserPc
<1>23. ASSUME NEW e \in Erasers, EraserErasesControl(e) PROVE EraserOK'
  BY <1>23, EraserToDoes DEF EraserErasesControl, EraserPc
<1>24. ASSUME NEW e \in Erasers, EraserLowersBarrier(e) PROVE EraserOK'
  BY <1>24, EraserToDoes, EraserStops DEF EraserLowersBarrier, EraserPc
<1>25. ASSUME NEW e \in Erasers, EraserCompletes(e) PROVE EraserOK'
  BY <1>25, EraserToDoes, EraserStops DEF EraserCompletes, EraserPc
<1>26. ASSUME NEW e \in Erasers, EraserFails(e) PROVE EraserOK'
  BY <1>26, EraserToDoes, EraserStops DEF EraserFails, EraserPc
<1>27. ASSUME NEW m \in Meetings, MeetingEnds(m) PROVE EraserOK'
  BY <1>27 DEF MeetingEnds, EraserOK
<1>28. ASSUME NEW o \in Operation, LeaseExpires(o) PROVE EraserOK'
  BY <1>28 DEF LeaseExpires, EraserOK
<1>29. CASE Ensure
  BY <1>29 DEF Ensure, EraserOK
<1>30. CASE UNCHANGED vars
  BY <1>30 DEF vars, EraserOK
<1> QED
  BY <1>1, <1>2, <1>3, <1>4, <1>5, <1>6, <1>7, <1>8, <1>9, <1>10, <1>11, <1>12, <1>13, <1>14, <1>15, <1>16, <1>17, <1>18, <1>19, <1>20, <1>21, <1>22, <1>23, <1>24, <1>25, <1>26, <1>27, <1>28, <1>29, <1>30 DEF Next, CaptorStep, EraserStep

LEMMA TypesGrow ==
  ASSUME CaptorOK, GrantsOK, NEW n \in Nat, grants <= n
  PROVE  /\ captor \in [Captors -> CaptorType(n)]
         /\ meeting \in [Meetings -> RowType(n)]
<1>1. grants \in Nat
  BY DEF GrantsOK
<1>2. \A c \in Captors : captor[c] \in CaptorType(n)
  BY <1>1 DEF CaptorOK, CaptorType
<1>3. \A m \in Meetings : meeting[m] \in RowType(n)
  BY <1>1 DEF GrantsOK, RowType
<1> QED
  BY <1>2, <1>3 DEF CaptorOK, GrantsOK

LEMMA GrantDoes ==
  ASSUME CaptorOK, GrantsOK, NEW c \in Captors, Grant(c), meeting' = meeting
  PROVE  /\ CaptorOK' /\ GrantsOK' /\ grants' = grants + 1
         /\ capture' = [grant |-> grants + 1, meeting |-> 0]
         /\ \A d \in Captors : d # c => captor'[d] = captor[d]
         /\ captor'[c].pc = "recover" /\ captor'[c].grant = grants + 1
         /\ captor'[c].fence = captor[c].fence
<1> DEFINE n == grants + 1
<1>0. grants \in Nat /\ n \in Nat /\ grants <= n /\ n \in 0..n
  BY DEF GrantsOK
<1>1. grants' = n /\ capture' = [grant |-> n, meeting |-> 0]
      /\ captor' = [captor EXCEPT ![c] = [captor[c] EXCEPT !.pc = "recover", !.grant = n]]
  BY DEF Grant, CaptorOK
<1> HIDE DEF n
<1>2. captor \in [Captors -> CaptorType(n)] /\ meeting \in [Meetings -> RowType(n)]
  BY <1>0, TypesGrow
<1>3. [captor[c] EXCEPT !.pc = "recover", !.grant = n] \in CaptorType(n)
  BY <1>0, <1>2 DEF CaptorType, CaptorPc
<1>4. /\ captor' \in [Captors -> CaptorType(n)]
      /\ \A d \in Captors : d # c => captor'[d] = captor[d]
      /\ captor'[c] = [captor[c] EXCEPT !.pc = "recover", !.grant = n]
  BY <1>1, <1>2, <1>3
<1>5. CaptorOK'
  BY <1>1, <1>4 DEF CaptorOK
<1>6. GrantsOK'
  BY <1>0, <1>1, <1>2, BoundsAssumption DEF GrantsOK
<1>7. /\ captor'[c].pc = "recover" /\ captor'[c].grant = n
      /\ captor'[c].fence = captor[c].fence
  BY <1>2, <1>4 DEF CaptorType
<1> QED
  BY <1>1, <1>4, <1>5, <1>6, <1>7 DEF n

LEMMA GrantsKept ==
  ASSUME CaptorOK, GrantsOK, LedgerOK, [Next]_vars
  PROVE  (CaptorOK /\ GrantsOK)'
<1> USE DEF history
<1>1. ASSUME NEW c \in Captors, CaptorAdmitted(c) PROVE (CaptorOK /\ GrantsOK)'
  <2>1. CaptorOK'
    BY <1>1, CaptorToDoes, CaptorStops DEF CaptorAdmitted, CaptorPc, CaptorOK
  <2> QED
    BY <1>1, <2>1 DEF CaptorAdmitted, GrantsOK, history
<1>2. ASSUME NEW c \in Captors, CaptorClaims(c) PROVE (CaptorOK /\ GrantsOK)'
  <2>1. CASE Claimable("capture")
    <3>1. ledger["capture"].fence \in Nat /\ "capture" \in Operation
      BY DEF LedgerOK, LedgerType, Operation
    <3>2. ledger'["capture"].fence \in Nat
      BY <1>2, <2>1, <3>1, LedgerWrites, NoJournalType DEF CaptorClaims
    <3>3. [pc |-> "find", fence |-> ledger'["capture"].fence, grant |-> 0] \in CaptorType(grants)
      BY <3>2 DEF CaptorType, CaptorPc, GrantsOK
    <3> QED
      BY <1>2, <2>1, <3>3 DEF CaptorClaims, CaptorOK, GrantsOK
  <2>2. CASE ~Claimable("capture")
    <3>1. CaptorGivesUp(c) /\ UNCHANGED <<capture, meeting, grants>>
      BY <1>2, <2>2 DEF CaptorClaims
    <3> QED
      BY <3>1, CaptorStops DEF CaptorOK, GrantsOK
  <2> QED
    BY <2>1, <2>2
<1>3. ASSUME NEW c \in Captors, CaptorFinds(c) PROVE (CaptorOK /\ GrantsOK)'
  <2> DEFINE next == CASE capture = NoCapture -> "create"
                       [] capture.meeting # 0 -> "seal"
                       [] OTHER -> "recover"
  <2>0. next \in {"create", "seal", "recover"}
    <3>1. CASE capture = NoCapture
      BY <3>1 DEF NoCapture
    <3>2. CASE capture.meeting # 0
      BY <3>2 DEF NoCapture
    <3>3. CASE capture # NoCapture /\ capture.meeting = 0
      BY <3>3
    <3> QED
      BY <3>1, <3>2, <3>3
  <2>a. captor' = [captor EXCEPT ![c] = [captor[c] EXCEPT !.pc = next, !.grant = capture.grant]]
    BY <1>3 DEF CaptorFinds, CaptorOK
  <2> HIDE DEF next
  <2>1. PICK pc \in {"create", "seal", "recover"} :
          captor' = [captor EXCEPT ![c] = [captor[c] EXCEPT !.pc = pc, !.grant = capture.grant]]
    BY <2>0, <2>a
  <2>2. [captor[c] EXCEPT !.pc = pc, !.grant = capture.grant] \in CaptorType(grants)
    BY <2>1 DEF CaptorOK, CaptorType, CaptorPc, GrantsOK
  <2> QED
    BY <1>3, <2>1, <2>2 DEF CaptorFinds, CaptorOK, GrantsOK
<1>4. ASSUME NEW c \in Captors, CaptorCreates(c) PROVE (CaptorOK /\ GrantsOK)'
  <2>1. CASE Grant(c)
    BY <1>4, <2>1, GrantDoes DEF CaptorCreates
  <2>2. CASE CaptorGivesUp(c) /\ UNCHANGED <<capture, grants>>
    BY <1>4, <2>2, CaptorStops DEF CaptorCreates, CaptorOK, GrantsOK
  <2> QED
    BY <1>4, <2>1, <2>2 DEF CaptorCreates
<1>5. ASSUME NEW c \in Captors, CaptorRecovers(c) PROVE (CaptorOK /\ GrantsOK)'
  <2>1. CaptorOK'
    BY <1>5, CaptorToDoes, CaptorStops DEF CaptorRecovers, CaptorPc, CaptorOK
  <2> QED
    BY <1>5, <2>1 DEF CaptorRecovers, GrantsOK, history
<1>6. ASSUME NEW c \in Captors, CaptorFences(c) PROVE (CaptorOK /\ GrantsOK)'
  <2>1. CaptorOK'
    BY <1>6, CaptorToDoes, CaptorStops DEF CaptorFences, CaptorPc, CaptorOK
  <2> QED
    BY <1>6, <2>1 DEF CaptorFences, GrantsOK, history
<1>7. ASSUME NEW c \in Captors, CaptorSpawns(c) PROVE (CaptorOK /\ GrantsOK)'
  <2>1. CaptorOK'
    BY <1>7, CaptorToDoes, CaptorStops DEF CaptorSpawns, CaptorPc, CaptorOK
  <2>2. [status |-> "live", grant |-> captor[c].grant] \in RowType(grants)
    BY DEF CaptorOK, CaptorType, RowType
  <2>3. meeting' \in [Meetings -> RowType(grants)]
    BY <1>7, <2>2 DEF CaptorSpawns, GrantsOK
  <2> QED
    BY <1>7, <2>1, <2>3 DEF CaptorSpawns, GrantsOK
<1>8. ASSUME NEW c \in Captors, CaptorBinds(c) PROVE (CaptorOK /\ GrantsOK)'
  <2>1. CaptorOK'
    BY <1>8, CaptorToDoes, CaptorStops DEF CaptorBinds, CaptorPc, CaptorOK
  <2>2. capture' = capture \/ \E m \in Meetings : capture' = [capture EXCEPT !.meeting = m]
    BY <1>8 DEF CaptorBinds
  <2>3. capture' \in [grant : 0..grants, meeting : 0..MaxMeetings]
    BY <2>2, BoundsAssumption DEF GrantsOK, Meetings
  <2> QED
    BY <1>8, <2>1, <2>3 DEF CaptorBinds, GrantsOK
<1>9. ASSUME NEW c \in Captors, CaptorCompletes(c) PROVE (CaptorOK /\ GrantsOK)'
  <2>1. CaptorOK'
    BY <1>9, CaptorToDoes, CaptorStops DEF CaptorCompletes, CaptorPc, CaptorOK
  <2> QED
    BY <1>9, <2>1 DEF CaptorCompletes, GrantsOK, history
<1>10. ASSUME NEW c \in Captors, CaptorFails(c) PROVE (CaptorOK /\ GrantsOK)'
  <2>1. CaptorOK'
    BY <1>10, CaptorToDoes, CaptorStops DEF CaptorFails, CaptorPc, CaptorOK
  <2> QED
    BY <1>10, <2>1 DEF CaptorFails, GrantsOK, history
<1>11. ASSUME NEW e \in Erasers, EraserClaims(e) PROVE (CaptorOK /\ GrantsOK)'
  BY <1>11 DEF EraserClaims, CaptorOK, GrantsOK
<1>12. ASSUME NEW e \in Erasers, EraserOpensJournal(e) PROVE (CaptorOK /\ GrantsOK)'
  BY <1>12 DEF EraserOpensJournal, CaptorOK, GrantsOK
<1>13. ASSUME NEW e \in Erasers, EraserRaisesBarrier(e) PROVE (CaptorOK /\ GrantsOK)'
  BY <1>13 DEF EraserRaisesBarrier, CaptorOK, GrantsOK
<1>14. ASSUME NEW e \in Erasers, EraserLists(e) PROVE (CaptorOK /\ GrantsOK)'
  BY <1>14 DEF EraserLists, CaptorOK, GrantsOK
<1>15. ASSUME NEW e \in Erasers, EraserTakesTarget(e) PROVE (CaptorOK /\ GrantsOK)'
  BY <1>15 DEF EraserTakesTarget, CaptorOK, GrantsOK
<1>16. ASSUME NEW e \in Erasers, EraserWithdraws(e) PROVE (CaptorOK /\ GrantsOK)'
  <2>1. meeting[Target(e)] \in RowType(grants) \/ Target(e) \notin Meetings
    BY DEF GrantsOK
  <2>2. Target(e) \in Meetings => [meeting[Target(e)] EXCEPT !.status = "ended"] \in RowType(grants)
    BY <2>1 DEF RowType
  <2>3. meeting' \in [Meetings -> RowType(grants)]
    BY <1>16, <2>2 DEF EraserWithdraws, GrantsOK
  <2> QED
    BY <1>16, <2>3 DEF EraserWithdraws, GrantsOK, CaptorOK, history
<1>17. ASSUME NEW e \in Erasers, EraserPlans(e) PROVE (CaptorOK /\ GrantsOK)'
  BY <1>17 DEF EraserPlans, CaptorOK, GrantsOK
<1>18. ASSUME NEW e \in Erasers, EraserPrepares(e) PROVE (CaptorOK /\ GrantsOK)'
  BY <1>18 DEF EraserPrepares, CaptorOK, GrantsOK
<1>19. ASSUME NEW e \in Erasers, EraserDeletes(e) PROVE (CaptorOK /\ GrantsOK)'
  <2>1. meeting[Target(e)] \in RowType(grants) \/ Target(e) \notin Meetings
    BY DEF GrantsOK
  <2>2. Target(e) \in Meetings => [meeting[Target(e)] EXCEPT !.status = "deleted"] \in RowType(grants)
    BY <2>1 DEF RowType
  <2>3. meeting' \in [Meetings -> RowType(grants)]
    BY <1>19, <2>2 DEF EraserDeletes, GrantsOK
  <2> QED
    BY <1>19, <2>3 DEF EraserDeletes, GrantsOK, CaptorOK, history
<1>20. ASSUME NEW e \in Erasers, EraserChecksIn(e) PROVE (CaptorOK /\ GrantsOK)'
  BY <1>20 DEF EraserChecksIn, CaptorOK, GrantsOK
<1>21. ASSUME NEW e \in Erasers, EraserFinalizes(e) PROVE (CaptorOK /\ GrantsOK)'
  <2>1. capture' \in [grant : 0..grants, meeting : 0..MaxMeetings]
    BY <1>21, BoundsAssumption DEF EraserFinalizes, NoCapture, GrantsOK
  <2> QED
    BY <1>21, <2>1 DEF EraserFinalizes, CaptorOK, GrantsOK
<1>22. ASSUME NEW e \in Erasers, EraserClosesTarget(e) PROVE (CaptorOK /\ GrantsOK)'
  BY <1>22 DEF EraserClosesTarget, CaptorOK, GrantsOK
<1>23. ASSUME NEW e \in Erasers, EraserErasesControl(e) PROVE (CaptorOK /\ GrantsOK)'
  <2>1. capture' \in [grant : 0..grants, meeting : 0..MaxMeetings]
    BY <1>23, BoundsAssumption DEF EraserErasesControl, NoCapture, GrantsOK
  <2> QED
    BY <1>23, <2>1 DEF EraserErasesControl, CaptorOK, GrantsOK
<1>24. ASSUME NEW e \in Erasers, EraserLowersBarrier(e) PROVE (CaptorOK /\ GrantsOK)'
  BY <1>24 DEF EraserLowersBarrier, CaptorOK, GrantsOK
<1>25. ASSUME NEW e \in Erasers, EraserCompletes(e) PROVE (CaptorOK /\ GrantsOK)'
  BY <1>25 DEF EraserCompletes, CaptorOK, GrantsOK
<1>26. ASSUME NEW e \in Erasers, EraserFails(e) PROVE (CaptorOK /\ GrantsOK)'
  BY <1>26 DEF EraserFails, CaptorOK, GrantsOK
<1>27. ASSUME NEW m \in Meetings, MeetingEnds(m) PROVE (CaptorOK /\ GrantsOK)'
  <2>1. meeting[m] \in RowType(grants) \/ m \notin Meetings
    BY DEF GrantsOK
  <2>2. m \in Meetings => [meeting[m] EXCEPT !.status = "ended"] \in RowType(grants)
    BY <2>1 DEF RowType
  <2>3. meeting' \in [Meetings -> RowType(grants)]
    BY <1>27, <2>2 DEF MeetingEnds, GrantsOK
  <2> QED
    BY <1>27, <2>3 DEF MeetingEnds, GrantsOK, CaptorOK, history
<1>28. ASSUME NEW o \in Operation, LeaseExpires(o) PROVE (CaptorOK /\ GrantsOK)'
  BY <1>28 DEF LeaseExpires, CaptorOK, GrantsOK
<1>29. CASE Ensure
  BY <1>29 DEF Ensure, CaptorOK, GrantsOK
<1>30. CASE UNCHANGED vars
  BY <1>30 DEF vars, CaptorOK, GrantsOK
<1> QED
  BY <1>1, <1>2, <1>3, <1>4, <1>5, <1>6, <1>7, <1>8, <1>9, <1>10, <1>11, <1>12, <1>13, <1>14, <1>15, <1>16, <1>17, <1>18, <1>19, <1>20, <1>21, <1>22, <1>23, <1>24, <1>25, <1>26, <1>27, <1>28, <1>29, <1>30 DEF Next, CaptorStep, EraserStep

LEMMA RestKept ==
  ASSUME Types, [Next]_vars
  PROVE  /\ CountsOK'
         /\ (subject \in [state : {"active", "erasing", "erased"}, fence : Nat, policy : Policy])'
<1> DEFINE SubjectOK == subject \in [state : {"active", "erasing", "erased"}, fence : Nat,
                                     policy : Policy]
<1> SUFFICES CountsOK' /\ SubjectOK'
  OBVIOUS
<1>0. CountsOK /\ SubjectOK /\ MaxFaults \in Nat
  BY BoundsAssumption DEF Types
<1> USE DEF CountsOK, history
<1>1. ASSUME NEW c \in Captors, CaptorStep(c) PROVE CountsOK' /\ SubjectOK'
  BY <1>0, <1>1 DEF CaptorStep, CaptorAdmitted, CaptorClaims, CaptorFinds, CaptorCreates,
     CaptorRecovers, CaptorFences, CaptorSpawns, CaptorBinds, CaptorCompletes
<1>2. ASSUME NEW c \in Captors, CaptorFails(c) PROVE CountsOK' /\ SubjectOK'
  BY <1>0, <1>2 DEF CaptorFails, Fault
<1>3. ASSUME NEW e \in Erasers, EraserFails(e) PROVE CountsOK' /\ SubjectOK'
  BY <1>0, <1>3 DEF EraserFails, Fault
<1>4. ASSUME NEW e \in Erasers, EraserErasesControl(e) PROVE CountsOK' /\ SubjectOK'
  <2>1. forgotten' \in BOOLEAN
    BY <1>4, Zenon DEF EraserErasesControl
  <2>2. SubjectOK'
    BY <1>0, <1>4 DEF EraserErasesControl, Policy
  <2> QED
    BY <1>0, <1>4, <2>1, <2>2 DEF EraserErasesControl
<1>5. ASSUME NEW e \in Erasers, EraserRaisesBarrier(e) PROVE CountsOK' /\ SubjectOK'
  <2>1. eraser[e].fence \in Nat
    BY DEF Types, EraserOK, EraserType
  <2> QED
    BY <1>0, <1>5, <2>1 DEF EraserRaisesBarrier
<1>6. ASSUME NEW e \in Erasers, EraserLowersBarrier(e) PROVE CountsOK' /\ SubjectOK'
  <2>1. \/ subject' = [subject EXCEPT !.state = "erased", !.fence = 0]
        \/ subject' = subject
    BY <1>6 DEF EraserLowersBarrier
  <2>2. forgotten' = forgotten /\ faults' = faults
    BY <1>6 DEF EraserLowersBarrier
  <2>3. SubjectOK'
    <3>1. CASE subject' = subject
      BY <1>0, <3>1
    <3>2. CASE subject' = [subject EXCEPT !.state = "erased", !.fence = 0]
      <4>1. 0 \in Nat /\ "erased" \in {"active", "erasing", "erased"}
        OBVIOUS
      <4> QED
        BY <1>0, <3>2, <4>1
    <3> QED
      BY <2>1, <3>1, <3>2
  <2>4. CountsOK'
    BY <1>0, <2>2
  <2> QED
    BY <2>3, <2>4
<1>7. ASSUME NEW e \in Erasers,
             \/ EraserClaims(e) \/ EraserOpensJournal(e) \/ EraserLists(e) \/ EraserTakesTarget(e)
             \/ EraserWithdraws(e) \/ EraserPlans(e) \/ EraserPrepares(e) \/ EraserDeletes(e)
             \/ EraserChecksIn(e) \/ EraserFinalizes(e) \/ EraserClosesTarget(e)
             \/ EraserCompletes(e)
      PROVE  CountsOK' /\ SubjectOK'
  BY <1>0, <1>7 DEF EraserClaims, EraserOpensJournal, EraserLists, EraserTakesTarget,
     EraserWithdraws, EraserPlans, EraserPrepares, EraserDeletes, EraserChecksIn,
     EraserFinalizes, EraserClosesTarget, EraserCompletes
<1>8. ASSUME NEW m \in Meetings, MeetingEnds(m) PROVE CountsOK' /\ SubjectOK'
  BY <1>0, <1>8 DEF MeetingEnds
<1>9. ASSUME NEW o \in Operation, LeaseExpires(o) PROVE CountsOK' /\ SubjectOK'
  BY <1>0, <1>9 DEF LeaseExpires, Fault
<1>10. CASE Ensure
  BY <1>0, <1>10 DEF Ensure, Policy
<1>11. CASE UNCHANGED vars
  BY <1>0, <1>11 DEF vars
<1> QED
  BY <1>1, <1>2, <1>3, <1>4, <1>5, <1>6, <1>7, <1>8, <1>9, <1>10, <1>11
     DEF Next, EraserStep

LEMMA TypesKept ==
  ASSUME Types, HasTarget, [Next]_vars
  PROVE  Types'
  BY LedgerKept, EraserKept, GrantsKept, RestKept DEF Types

-----------------------------------------------------------------------------
(* Erasure: what each step does to the executor, the ledger and the rows. *)

Advances(e, pc) ==
  /\ eraser'[e].pc = pc /\ eraser'[e].fence = eraser[e].fence
  /\ eraser'[e].todo = eraser[e].todo /\ eraser'[e].journal = eraser[e].journal

\* Nothing that an erasure reads has changed, but that a bot was started or came
\* to its end.
Quiet ==
  /\ eraser' = eraser /\ LedgerSame
  /\ \A m \in Meetings :
       /\ meeting'[m].status = "deleted" <=> meeting[m].status = "deleted"
       /\ meeting[m].status # "none" => meeting'[m].status # "none"

LEMMA OthersQuiet ==
  ASSUME Types, [Next]_vars, \A e \in Erasers : ~EraserStep(e) /\ ~EraserFails(e)
  PROVE  Quiet
<1> USE DEF Quiet, L, LedgerSame, history
<1>0. "erase" \in Operation /\ "capture" \in Operation /\ "erase" # "capture"
  BY DEF Operation
<1>1. ASSUME NEW c \in Captors, CaptorAdmitted(c) \/ CaptorFinds(c) \/ CaptorCreates(c)
                                \/ CaptorRecovers(c) \/ CaptorBinds(c) \/ CaptorFails(c)
      PROVE  Quiet
  BY <1>1 DEF CaptorAdmitted, CaptorFinds, CaptorCreates, CaptorRecovers, CaptorBinds, CaptorFails
<1>2. ASSUME NEW c \in Captors, CaptorClaims(c) \/ CaptorFences(c) \/ CaptorCompletes(c)
      PROVE  Quiet
  <2>1. NoJournal \in Journal /\ LedgerOK
    BY NoJournalType DEF Types
  <2>2. \/ ledger' = ledger \/ ledger' = Claimed("capture") \/ ledger' = Renewed("capture")
        \/ ledger' = Completed("capture")
    BY <1>2 DEF CaptorClaims, CaptorFences, CaptorCompletes
  <2>3. ledger'["erase"] = ledger["erase"]
    BY <1>0, <2>1, <2>2, LedgerWrites
  <2> QED
    BY <1>2, <2>3 DEF CaptorClaims, CaptorFences, CaptorCompletes
<1>3. ASSUME NEW c \in Captors, CaptorSpawns(c) PROVE Quiet
  <2>1. CASE meeting' = meeting
    BY <1>3, <2>1 DEF CaptorSpawns
  <2>2. ASSUME NEW m \in Meetings, meeting[m].status = "none",
               meeting' = [meeting EXCEPT ![m] = [status |-> "live", grant |-> captor[c].grant]]
        PROVE  Quiet
    <3>1. meeting'[m].status = "live" /\ \A n \in Meetings : n # m => meeting'[n] = meeting[n]
      BY <2>2 DEF Types, GrantsOK
    <3> QED
      BY <1>3, <2>2, <3>1 DEF CaptorSpawns
  <2> QED
    BY <1>3, <2>1, <2>2 DEF CaptorSpawns
<1>4. ASSUME NEW m \in Meetings, MeetingEnds(m) PROVE Quiet
  <2>1. meeting[m].status = "live" /\ meeting[m] \in RowType(grants)
    BY <1>4 DEF MeetingEnds, Live, Types, GrantsOK
  <2>2. meeting'[m].status = "ended" /\ \A n \in Meetings : n # m => meeting'[n] = meeting[n]
    BY <1>4, <2>1 DEF MeetingEnds, Types, GrantsOK, RowType
  <2> QED
    BY <1>4, <2>1, <2>2 DEF MeetingEnds
<1>5. ASSUME NEW o \in Operation, LeaseExpires(o) PROVE Quiet
  <2>1. ledger["erase"] \in LedgerType
    BY <1>0 DEF Types, LedgerOK
  <2>2. \/ ledger'["erase"] = ledger["erase"]
        \/ ledger'["erase"] = [ledger["erase"] EXCEPT !.leased = FALSE]
    BY <1>0, <1>5 DEF LeaseExpires, Types, LedgerOK
  <2>3. LedgerSame
    BY <2>1, <2>2 DEF LedgerType
  <2> QED
    BY <1>5, <2>3 DEF LeaseExpires
<1>6. CASE Ensure
  BY <1>6 DEF Ensure
<1>7. CASE UNCHANGED vars
  BY <1>7 DEF vars
<1> QED
  BY <1>1, <1>2, <1>3, <1>4, <1>5, <1>6, <1>7 DEF Next, CaptorStep

LEMMA EraserFacts ==
  ASSUME Types, NEW e \in Erasers
  PROVE  /\ "erase" \in Operation /\ LedgerOK /\ EraserOK /\ eraser[e] \in EraserType
         /\ ledger["erase"] \in LedgerType /\ eraser[e].journal \in Journal
         /\ NoJournal \in Journal
  BY NoJournalType DEF Operation, Types, LedgerOK, EraserOK, EraserType

LEMMA ClaimsDoes ==
  ASSUME Types, HasTarget, NEW e \in Erasers, EraserClaims(e)
  PROVE  /\ eraser[e].pc = "idle" /\ Alone(e) /\ meeting' = meeting
         /\ L.status # "completed" /\ L'.status = "pending"
         /\ L'.fence = L.fence + 1 /\ L'.journal = L.journal
         /\ eraser'[e].pc = "journal" /\ eraser'[e].fence = L.fence + 1
         /\ eraser'[e].todo = {} /\ eraser'[e].journal = L.journal
<1> USE DEF L, LedgerSame, Alone, history
<1>1. ledger' = Claimed("erase") /\ Claimable("erase")
  BY DEF EraserClaims
<1>2. /\ L'.status = "pending" /\ L'.fence = L.fence + 1 /\ L'.journal = L.journal
  BY EraserFacts, <1>1, LedgerWrites
<1>3. /\ Alone(e)
      /\ eraser'[e] = [pc |-> "journal", fence |-> ledger'["erase"].fence, todo |-> {},
                       journal |-> ledger["erase"].journal]
  BY EraserFacts DEF EraserClaims, EraserOK
<1> QED
  BY <1>1, <1>2, <1>3 DEF EraserClaims, Claimable

LEMMA OpensJournalDoes ==
  ASSUME Types, HasTarget, NEW e \in Erasers, EraserOpensJournal(e)
  PROVE  /\ eraser[e].pc = "journal" /\ Alone(e) /\ meeting' = meeting
         /\ \/ /\ Advances(e, "barrier") /\ Owns("erase", eraser[e].fence)
               /\ L'.status = L.status /\ L'.fence = L.fence
               /\ L'.journal = eraser[e].journal
            \/ GivenUp(e)
<1> USE DEF L, LedgerSame, Alone, history
<1>1. eraser[e].pc = "journal" /\ meeting' = meeting
      /\ Notes(e, eraser[e].journal, "barrier") /\ "barrier" \in EraserPc
  BY DEF EraserOpensJournal, EraserPc
<1> QED
  BY EraserFacts, <1>1, NotesDoes, LedgerWrites DEF Advances, GivenUp

LEMMA RaisesBarrierDoes ==
  ASSUME Types, HasTarget, NEW e \in Erasers, EraserRaisesBarrier(e)
  PROVE  /\ eraser[e].pc = "barrier" /\ Alone(e) /\ meeting' = meeting /\ LedgerSame
         /\ Advances(e, "list")
<1> USE DEF L, LedgerSame, Alone, history
<1> QED
  BY EraserFacts, EraserToDoes DEF EraserRaisesBarrier, EraserPc, Advances

LEMMA ListsDoes ==
  ASSUME Types, HasTarget, NEW e \in Erasers, EraserLists(e)
  PROVE  /\ eraser[e].pc = "list" /\ Alone(e) /\ meeting' = meeting /\ LedgerSame
         /\ eraser'[e].pc = "target" /\ eraser'[e].fence = eraser[e].fence
         /\ eraser'[e].journal = eraser[e].journal
         /\ eraser'[e].todo = {m \in Meetings :
                                 Stored(m) \/ eraser[e].journal[m].at # "nothing"}
<1> USE DEF L, LedgerSame, Alone, history
<1> DEFINE T == {m \in Meetings : Stored(m) \/ eraser[e].journal[m].at # "nothing"}
<1>1. eraser' = [eraser EXCEPT ![e] = [eraser[e] EXCEPT !.pc = "target", !.todo = T]]
  BY EraserFacts DEF EraserLists, EraserOK
<1> HIDE DEF T
<1>2. /\ eraser'[e] = [eraser[e] EXCEPT !.pc = "target", !.todo = T] /\ Alone(e)
  BY EraserFacts, <1>1 DEF EraserOK
<1>3. /\ eraser'[e].pc = "target" /\ eraser'[e].fence = eraser[e].fence
      /\ eraser'[e].journal = eraser[e].journal /\ eraser'[e].todo = T
  BY EraserFacts, <1>2 DEF EraserType
<1> QED
  BY <1>2, <1>3 DEF EraserLists, T

LEMMA TakesTargetDoes ==
  ASSUME Types, HasTarget, NEW e \in Erasers, EraserTakesTarget(e)
  PROVE  /\ eraser[e].pc = "target" /\ Alone(e) /\ meeting' = meeting /\ LedgerSame
         /\ \/ eraser[e].todo = {} /\ Advances(e, "control")
            \/ /\ eraser[e].todo # {}
               /\ \/ /\ eraser[e].journal[Target(e)].at = "finalized"
                     /\ eraser'[e].pc = "target" /\ eraser'[e].fence = eraser[e].fence
                     /\ eraser'[e].journal = eraser[e].journal
                     /\ eraser'[e].todo = eraser[e].todo \ {Target(e)}
                  \/ /\ eraser[e].journal[Target(e)].at = "raw_erased"
                     /\ Advances(e, "settled")
                  \/ Advances(e, "withdraw")
<1> USE DEF L, LedgerSame, Alone, history
<1>0. eraser[e].pc = "target" /\ meeting' = meeting /\ LedgerSame
  BY DEF EraserTakesTarget
<1>1. CASE eraser[e].todo = {}
  <2>1. EraserTo(e, "control") /\ "control" \in EraserPc
    BY <1>1 DEF EraserTakesTarget, EraserPc
  <2> QED
    BY EraserFacts, <1>0, <1>1, <2>1, EraserToDoes DEF Advances
<1>2. CASE eraser[e].todo # {} /\ eraser[e].journal[Target(e)].at = "finalized"
  <2>1. eraser' = [eraser EXCEPT ![e].todo = eraser[e].todo \ {Target(e)}]
    BY EraserFacts, <1>2 DEF EraserTakesTarget, EraserOK
  <2> DEFINE T == eraser[e].todo \ {Target(e)}
  <2> HIDE DEF T
  <2>2. eraser'[e] = [eraser[e] EXCEPT !.todo = T] /\ Alone(e)
    BY EraserFacts, <2>1 DEF EraserOK, T
  <2>3. /\ eraser'[e].pc = "target" /\ eraser'[e].fence = eraser[e].fence
        /\ eraser'[e].journal = eraser[e].journal /\ eraser'[e].todo = T
    BY EraserFacts, <1>0, <2>2 DEF EraserType
  <2> QED
    BY <1>0, <1>2, <2>2, <2>3 DEF T
<1>3. CASE eraser[e].todo # {} /\ eraser[e].journal[Target(e)].at = "raw_erased"
  <2>1. EraserTo(e, "settled") /\ "settled" \in EraserPc
    BY <1>3 DEF EraserTakesTarget, EraserPc
  <2> QED
    BY EraserFacts, <1>0, <1>3, <2>1, EraserToDoes DEF Advances
<1>4. CASE eraser[e].todo # {} /\ eraser[e].journal[Target(e)].at \notin {"finalized", "raw_erased"}
  <2>1. EraserTo(e, "withdraw") /\ "withdraw" \in EraserPc
    BY <1>4 DEF EraserTakesTarget, EraserPc
  <2> QED
    BY EraserFacts, <1>0, <1>4, <2>1, EraserToDoes DEF Advances
<1> QED
  BY <1>1, <1>2, <1>3, <1>4

LEMMA WithdrawsDoes ==
  ASSUME Types, HasTarget, NEW e \in Erasers, EraserWithdraws(e)
  PROVE  /\ eraser[e].pc = "withdraw" /\ Alone(e) /\ LedgerSame
         /\ \/ meeting' = meeting
            \/ /\ Stored(Target(e)) /\ meeting'[Target(e)].status = "ended"
               /\ \A m \in Meetings : m # Target(e) => meeting'[m] = meeting[m]
         /\ Advances(e, "plan") \/ GivenUp(e)
<1> USE DEF L, LedgerSame, Alone, history
<1>0. /\ eraser[e].pc = "withdraw" /\ "plan" \in EraserPc
      /\ Target(e) \in Meetings
  BY EraserFacts, TargetIsOne DEF EraserWithdraws, EraserPc, HasTarget, OnTarget
<1>1. CASE /\ Stored(Target(e)) /\ ledger' = Renewed("erase") /\ EraserTo(e, "plan")
           /\ meeting' = [meeting EXCEPT ![Target(e)].status = "ended"]
  <2>1. LedgerSame
    BY EraserFacts, <1>1, LedgerWrites
  <2>2. meeting[Target(e)] \in RowType(grants)
    BY <1>0 DEF Types, GrantsOK
  <2>3. /\ meeting'[Target(e)].status = "ended"
        /\ \A m \in Meetings : m # Target(e) => meeting'[m] = meeting[m]
    BY <1>0, <1>1, <2>2 DEF Types, GrantsOK, RowType
  <2> QED
    BY EraserFacts, <1>0, <1>1, <2>1, <2>3, EraserToDoes DEF Advances
<1>2. CASE EraserGivesUp(e) /\ UNCHANGED <<ledger, meeting>>
  BY EraserFacts, <1>0, <1>2, EraserStops DEF GivenUp
<1>3. CASE EraserTo(e, "plan") /\ UNCHANGED <<ledger, meeting>>
  BY EraserFacts, <1>0, <1>3, EraserToDoes DEF Advances
<1> QED
  BY <1>1, <1>2, <1>3 DEF EraserWithdraws

LEMMA PlansDoes ==
  ASSUME Types, HasTarget, NEW e \in Erasers, EraserPlans(e)
  PROVE  /\ eraser[e].pc = "plan" /\ Alone(e) /\ meeting' = meeting /\ LedgerSame
         /\ \/ Advances(e, "prepare")
            \/ ~Stored(Target(e)) /\ Advances(e, "absent")
<1> USE DEF L, LedgerSame, Alone, history
<1> QED
  BY EraserFacts, EraserToDoes DEF EraserPlans, EraserPc, Advances

LEMMA PreparesDoes ==
  ASSUME Types, HasTarget, NEW e \in Erasers, EraserPrepares(e)
  PROVE  /\ eraser[e].pc = "prepare" /\ Alone(e) /\ meeting' = meeting
         /\ Noted(e, "prepared", TRUE, "delete") \/ GivenUp(e)
<1> USE DEF L, LedgerSame, Alone, history
<1> QED
  BY EraserFacts, NotesTargetDoes DEF EraserPrepares, OnTarget, EraserPc

LEMMA DeletesDoes ==
  ASSUME Types, HasTarget, NEW e \in Erasers, EraserDeletes(e)
  PROVE  /\ eraser[e].pc = "delete" /\ Alone(e) /\ LedgerSame /\ Advances(e, "checkpoint")
         /\ meeting'[Target(e)].status = "deleted"
         /\ \A m \in Meetings : m # Target(e) => meeting'[m] = meeting[m]
<1> USE DEF L, LedgerSame, Alone, history
<1>1. Target(e) \in Meetings
  BY EraserFacts, TargetIsOne DEF EraserDeletes, HasTarget, OnTarget
<1>2. meeting[Target(e)] \in RowType(grants)
  BY <1>1 DEF Types, GrantsOK
<1>3. /\ meeting'[Target(e)].status = "deleted"
      /\ \A m \in Meetings : m # Target(e) => meeting'[m] = meeting[m]
  BY <1>1, <1>2 DEF EraserDeletes, Types, GrantsOK, RowType
<1> QED
  BY EraserFacts, <1>3, EraserToDoes DEF EraserDeletes, EraserPc, Advances

LEMMA ChecksInDoes ==
  ASSUME Types, HasTarget, NEW e \in Erasers, EraserChecksIn(e)
  PROVE  /\ eraser[e].pc \in {"checkpoint", "absent"} /\ Alone(e) /\ meeting' = meeting
         /\ \/ \E at \in {"absent", "raw_erased"} :
                 Noted(e, at, eraser[e].journal[Target(e)].counted, "settled")
            \/ GivenUp(e)
<1> USE DEF L, LedgerSame, Alone, history
<1>1. PICK at \in {"absent", "raw_erased"} :
        NotesTarget(e, at, eraser[e].journal[Target(e)].counted, "settled")
  BY DEF EraserChecksIn
<1> QED
  BY EraserFacts, <1>1, NotesTargetDoes DEF EraserChecksIn, OnTarget, EraserPc

LEMMA FinalizesDoes ==
  ASSUME Types, HasTarget, NEW e \in Erasers, EraserFinalizes(e)
  PROVE  /\ eraser[e].pc = "settled" /\ Alone(e) /\ meeting' = meeting /\ LedgerSame
         /\ Advances(e, "finalized")
<1> USE DEF L, LedgerSame, Alone, history
<1> QED
  BY EraserFacts, EraserToDoes DEF EraserFinalizes, EraserPc, Advances

LEMMA ClosesTargetDoes ==
  ASSUME Types, HasTarget, NEW e \in Erasers, EraserClosesTarget(e)
  PROVE  /\ eraser[e].pc = "finalized" /\ Alone(e) /\ meeting' = meeting
         /\ \/ Noted(e, "finalized", eraser[e].journal[Target(e)].counted, "target")
            \/ GivenUp(e)
<1> USE DEF L, LedgerSame, Alone, history
<1> QED
  BY EraserFacts, NotesTargetDoes DEF EraserClosesTarget, OnTarget, EraserPc

LEMMA ErasesControlDoes ==
  ASSUME Types, HasTarget, NEW e \in Erasers, EraserErasesControl(e)
  PROVE  /\ eraser[e].pc = "control" /\ Alone(e) /\ meeting' = meeting /\ LedgerSame
         /\ Advances(e, "lower")
<1> USE DEF L, LedgerSame, Alone, history
<1> QED
  BY EraserFacts, EraserToDoes DEF EraserErasesControl, EraserPc, Advances

LEMMA LowersBarrierDoes ==
  ASSUME Types, HasTarget, NEW e \in Erasers, EraserLowersBarrier(e)
  PROVE  /\ eraser[e].pc = "lower" /\ Alone(e) /\ meeting' = meeting /\ LedgerSame
         /\ Advances(e, "complete") \/ GivenUp(e)
<1> USE DEF L, LedgerSame, Alone, history
<1> QED
  BY EraserFacts, EraserToDoes, EraserStops DEF EraserLowersBarrier, EraserPc, Advances, GivenUp

LEMMA CompletesDoes ==
  ASSUME Types, HasTarget, NEW e \in Erasers, EraserCompletes(e)
  PROVE  /\ eraser[e].pc = "complete" /\ Alone(e) /\ meeting' = meeting
         /\ eraser'[e] = Asleep
         /\ \/ LedgerSame
            \/ /\ Owns("erase", eraser[e].fence) /\ L'.status = "completed"
               /\ L'.fence = L.fence /\ L'.journal = L.journal
<1> USE DEF L, LedgerSame, Alone, history
<1> QED
  BY EraserFacts, EraserStops, LedgerWrites DEF EraserCompletes

LEMMA FailsDoes ==
  ASSUME Types, HasTarget, NEW e \in Erasers, EraserFails(e)
  PROVE  Alone(e) /\ meeting' = meeting /\ GivenUp(e)
<1> USE DEF L, LedgerSame, Alone, history
<1> QED
  BY EraserFacts, EraserStops DEF EraserFails, GivenUp

-----------------------------------------------------------------------------
(* The inductive invariant: erasure. *)

\* The fences are handed out one by one, and who works under the last one has the
\* journal of the ledger.
Holders == \A e \in Erasers : eraser[e].pc # "idle" =>
             /\ eraser[e].fence \in 1..L.fence
             /\ eraser[e].fence = L.fence => eraser[e].journal = L.journal
OneHolder == \A e, f \in Erasers :
               /\ eraser[e].pc # "idle" /\ eraser[f].pc # "idle"
               /\ eraser[e].fence = eraser[f].fence
               => e = f

\* What a journal says of a meeting holds, and the ledger knows what was counted.
Tells(note, m) ==
  /\ note.at \in {"raw_erased", "absent", "finalized"} => meeting[m].status = "deleted"
  /\ note.at # "nothing" => meeting[m].status # "none"
  /\ note.counted => note.at # "nothing" /\ L.journal[m].counted
JournalsTell == \A m \in Meetings :
                  /\ Tells(L.journal[m], m)
                  /\ \A e \in Erasers : Tells(eraser[e].journal[m], m)

\* What was deleted had been counted.
DeletedCounted == \A m \in Meetings : meeting[m].status = "deleted" => L.journal[m].counted

\* The targets of an executor: meetings of the subject, with what has been done to
\* the one at hand, and none left out before the control data go.
Targets == \A e \in Erasers :
  /\ \A m \in eraser[e].todo : meeting[m].status # "none"
  /\ eraser[e].pc = "delete" => eraser[e].journal[Target(e)].counted
  /\ eraser[e].pc \in {"checkpoint", "absent", "settled", "finalized"} =>
       meeting[Target(e)].status = "deleted"
  /\ eraser[e].pc \in {"control", "lower", "complete"} => eraser[e].todo = {}
Finishing == \A e \in Erasers :
  eraser[e].pc \in {"target", "control", "lower", "complete"} \cup OnTarget =>
    \A m \in Meetings \ eraser[e].todo : eraser[e].journal[m].at \in {"nothing", "finalized"}

ReceiptHolds == L.status = "completed" =>
                  \A m \in Meetings : L.journal[m].counted => meeting[m].status = "deleted"

Erasure == /\ HasTarget /\ Holders /\ OneHolder /\ JournalsTell /\ DeletedCounted
           /\ Targets /\ Finishing /\ ReceiptHolds

(* The inductive invariant: captures. *)

\* A row has a grant from the day it is there; a capture that is bound has a grant,
\* and so does the executor that is past the search for one.
Rows ==
  /\ \A m \in Meetings : meeting[m].status = "none" <=> meeting[m].grant = 0
  /\ \A c \in Captors : captor[c].pc \in {"recover", "spawn", "insert", "fence", "bind"} =>
                          captor[c].grant # 0
  /\ capture.meeting # 0 =>
       capture.grant # 0 /\ meeting[capture.meeting].grant = capture.grant

\* Before anything of the subject is erased there is one grant, in one row.
Harmed == forgotten \/ \E m \in Meetings : meeting[m].status = "deleted"
OneGrant ==
  ~Harmed => /\ grants <= 1 /\ (grants = 1 => capture.grant = 1)
             /\ \A m, n \in Meetings :
                  meeting[m].status # "none" /\ meeting[n].status # "none" => m = n

Barrier == subject.state = "erasing" <=> subject.fence # 0

Inv == Types /\ Erasure /\ Rows /\ OneGrant /\ Barrier

LEMMA InitInv == Init => Inv
<1> SUFFICES ASSUME Init PROVE Inv
  OBVIOUS
<1>0. Types
  BY InitTypes
<1>1. /\ \A e \in Erasers : eraser[e] = Asleep
      /\ L = NotClaimed /\ \A m \in Meetings : NoJournal[m] = [at |-> "nothing", counted |-> FALSE]
      /\ \A m \in Meetings : meeting[m] = [status |-> "none", grant |-> 0]
  BY DEF Init, L, Operation, NoJournal
<1>2. HasTarget /\ Holders /\ OneHolder /\ Targets /\ Finishing
  BY <1>1 DEF HasTarget, Holders, OneHolder, Targets, Finishing, Asleep, OnTarget
<1>3. JournalsTell
  <2>1. ASSUME NEW m \in Meetings PROVE Tells(NoJournal[m], m)
    <3>1. NoJournal[m].at = "nothing" /\ ~NoJournal[m].counted
      BY <1>1
    <3> QED
      BY <3>1 DEF Tells
  <2> QED
    BY <1>1, <2>1 DEF JournalsTell, NotClaimed, Asleep
<1>4. DeletedCounted /\ ReceiptHolds
  BY <1>1 DEF DeletedCounted, ReceiptHolds, NotClaimed
<1>5. Rows
  BY <1>1 DEF Rows, Init, Idle, NoCapture
<1>6. OneGrant
  BY <1>1 DEF OneGrant, Harmed, Init
<1>7. Barrier
  BY DEF Init, Barrier
<1> QED
  BY <1>0, <1>2, <1>3, <1>4, <1>5, <1>6, <1>7 DEF Inv, Erasure

-----------------------------------------------------------------------------
(* Erasure, step by step. *)

\* Whoever does not move has what it had.
LEMMA HasTargetKept ==
  ASSUME Inv, [Next]_vars
  PROVE  HasTarget'
<1>0. Types /\ HasTarget
  BY DEF Inv, Erasure
<1> USE DEF HasTarget, OnTarget
<1>1. ASSUME NEW e \in Erasers, EraserClaims(e) \/ EraserOpensJournal(e) \/ EraserRaisesBarrier(e)
                              \/ EraserLists(e)
      PROVE  HasTarget'
  BY <1>0, <1>1, ClaimsDoes, OpensJournalDoes, RaisesBarrierDoes, ListsDoes
     DEF Alone, Advances, GivenUp, Asleep, Noted
<1>2. ASSUME NEW e \in Erasers, EraserTakesTarget(e)
      PROVE  HasTarget'
  BY <1>0, <1>2, TakesTargetDoes
     DEF Alone, Advances, GivenUp, Asleep, Noted
<1>3. ASSUME NEW e \in Erasers, EraserWithdraws(e) \/ EraserPlans(e)
      PROVE  HasTarget'
  BY <1>0, <1>3, WithdrawsDoes, PlansDoes
     DEF Alone, Advances, GivenUp, Asleep, Noted
<1>4. ASSUME NEW e \in Erasers, EraserPrepares(e) \/ EraserChecksIn(e) \/ EraserClosesTarget(e)
      PROVE  HasTarget'
  BY <1>0, <1>4, PreparesDoes, ChecksInDoes, ClosesTargetDoes
     DEF Alone, Advances, GivenUp, Asleep, Noted
<1>5. ASSUME NEW e \in Erasers, EraserDeletes(e) \/ EraserFinalizes(e) \/ EraserErasesControl(e) \/ EraserLowersBarrier(e)
                              \/ EraserCompletes(e) \/ EraserFails(e)
      PROVE  HasTarget'
  BY <1>0, <1>5, DeletesDoes, FinalizesDoes, ErasesControlDoes, LowersBarrierDoes, CompletesDoes, FailsDoes
     DEF Alone, Advances, GivenUp, Asleep, Noted
<1>6. CASE Quiet
  BY <1>0, <1>6 DEF Quiet
<1> QED
  BY <1>1, <1>2, <1>3, <1>4, <1>5, <1>6, OthersQuiet DEF EraserStep, Inv

LEMMA HoldersKept ==
  ASSUME Inv, [Next]_vars
  PROVE  Holders' /\ OneHolder'
<1>0. /\ Types /\ HasTarget /\ Holders /\ OneHolder /\ L.fence \in Nat
      /\ \A e \in Erasers : eraser[e].fence \in Nat
  BY DEF Inv, Erasure, Types, LedgerOK, EraserOK, LedgerType, EraserType, L, Operation
<1> USE DEF Holders, OneHolder
<1>1. ASSUME NEW e \in Erasers, EraserClaims(e)
      PROVE  Holders' /\ OneHolder'
  BY <1>0, <1>1, ClaimsDoes
     DEF Alone, Advances, GivenUp, Asleep, Noted, LedgerSame, Owns, L
<1>2. ASSUME NEW e \in Erasers, EraserOpensJournal(e)
      PROVE  Holders' /\ OneHolder'
  BY <1>0, <1>2, OpensJournalDoes
     DEF Alone, Advances, GivenUp, Asleep, Noted, LedgerSame, Owns, L
<1>3. ASSUME NEW e \in Erasers, EraserRaisesBarrier(e) \/ EraserLists(e) \/ EraserTakesTarget(e)
      PROVE  Holders' /\ OneHolder'
  BY <1>0, <1>3, RaisesBarrierDoes, ListsDoes, TakesTargetDoes
     DEF Alone, Advances, GivenUp, Asleep, Noted, LedgerSame, Owns, L
<1>4. ASSUME NEW e \in Erasers, EraserWithdraws(e) \/ EraserPlans(e)
      PROVE  Holders' /\ OneHolder'
  BY <1>0, <1>4, WithdrawsDoes, PlansDoes
     DEF Alone, Advances, GivenUp, Asleep, Noted, LedgerSame, Owns, L
<1>5. ASSUME NEW e \in Erasers, EraserPrepares(e)
      PROVE  Holders' /\ OneHolder'
  BY <1>0, <1>5, PreparesDoes
     DEF Alone, Advances, GivenUp, Asleep, Noted, LedgerSame, Owns, L
<1>6. ASSUME NEW e \in Erasers, EraserChecksIn(e)
      PROVE  Holders' /\ OneHolder'
  BY <1>0, <1>6, ChecksInDoes
     DEF Alone, Advances, GivenUp, Asleep, Noted, LedgerSame, Owns, L
<1>7. ASSUME NEW e \in Erasers, EraserClosesTarget(e)
      PROVE  Holders' /\ OneHolder'
  BY <1>0, <1>7, ClosesTargetDoes
     DEF Alone, Advances, GivenUp, Asleep, Noted, LedgerSame, Owns, L
<1>8. ASSUME NEW e \in Erasers, EraserDeletes(e) \/ EraserFinalizes(e) \/ EraserErasesControl(e)
      PROVE  Holders' /\ OneHolder'
  BY <1>0, <1>8, DeletesDoes, FinalizesDoes, ErasesControlDoes
     DEF Alone, Advances, GivenUp, Asleep, Noted, LedgerSame, Owns, L
<1>9. ASSUME NEW e \in Erasers, EraserLowersBarrier(e) \/ EraserCompletes(e) \/ EraserFails(e)
      PROVE  Holders' /\ OneHolder'
  BY <1>0, <1>9, LowersBarrierDoes, CompletesDoes, FailsDoes
     DEF Alone, Advances, GivenUp, Asleep, Noted, LedgerSame, Owns, L
<1>10. CASE Quiet
  BY <1>0, <1>10 DEF Quiet, LedgerSame
<1> QED
  BY <1>1, <1>2, <1>3, <1>4, <1>5, <1>6, <1>7, <1>8, <1>9, <1>10, OthersQuiet DEF EraserStep, Inv

\* What lasts: deleted rows, rows, and what the ledger has counted.
LEMMA Lasts ==
  ASSUME Inv, [Next]_vars
  PROVE  \A m \in Meetings :
           /\ meeting[m].status = "deleted" => meeting'[m].status = "deleted"
           /\ meeting[m].status # "none" => meeting'[m].status # "none"
           /\ L.journal[m].counted => L'.journal[m].counted
<1> DEFINE Last == \A m \in Meetings :
             /\ meeting[m].status = "deleted" => meeting'[m].status = "deleted"
             /\ meeting[m].status # "none" => meeting'[m].status # "none"
             /\ L.journal[m].counted => L'.journal[m].counted
<1> SUFFICES Last
  OBVIOUS
<1>0. Types /\ HasTarget /\ Holders
  BY DEF Inv, Erasure
<1>1. ASSUME NEW e \in Erasers, EraserClaims(e) \/ EraserRaisesBarrier(e) \/ EraserLists(e)
      PROVE  Last
  BY <1>0, <1>1, ClaimsDoes, RaisesBarrierDoes, ListsDoes
     DEF GivenUp, LedgerSame, Noted, Owns, Holders, L
<1>2. ASSUME NEW e \in Erasers, EraserOpensJournal(e)
      PROVE  Last
  <2>1. eraser[e].pc = "journal" /\ meeting' = meeting
    BY <1>0, <1>2, OpensJournalDoes
  <2>2. \/ eraser[e].fence = L.fence /\ L'.journal = eraser[e].journal
        \/ L'.journal = L.journal
    BY <1>0, <1>2, OpensJournalDoes DEF Owns, L, GivenUp, LedgerSame
  <2> QED
    BY <1>0, <2>1, <2>2 DEF Holders
<1>3. ASSUME NEW e \in Erasers, EraserTakesTarget(e)
      PROVE  Last
  BY <1>0, <1>3, TakesTargetDoes
     DEF GivenUp, LedgerSame, Noted, Owns, Holders, L
<1>4. ASSUME NEW e \in Erasers, EraserWithdraws(e)
      PROVE  Last
  BY <1>0, <1>4, WithdrawsDoes
     DEF GivenUp, LedgerSame, Stored
<1>5. ASSUME NEW e \in Erasers, EraserPlans(e) \/ EraserFinalizes(e) \/ EraserErasesControl(e)
      PROVE  Last
  BY <1>0, <1>5, PlansDoes, FinalizesDoes, ErasesControlDoes
     DEF GivenUp, LedgerSame, Noted, Owns, Holders, L
<1>6. ASSUME NEW e \in Erasers, EraserPrepares(e)
      PROVE  Last
  BY <1>0, <1>6, PreparesDoes
     DEF GivenUp, LedgerSame, Noted, Owns, Holders, L
<1>7. ASSUME NEW e \in Erasers, EraserDeletes(e)
      PROVE  Last
  BY <1>0, <1>7, DeletesDoes
     DEF GivenUp, LedgerSame, Noted, Owns, Holders, L
<1>8. ASSUME NEW e \in Erasers, EraserChecksIn(e)
      PROVE  Last
  BY SMTT(30), <1>0, <1>8, ChecksInDoes
     DEF GivenUp, LedgerSame, Noted, Owns, Holders, L
<1>9. ASSUME NEW e \in Erasers, EraserClosesTarget(e)
      PROVE  Last
  BY <1>0, <1>9, ClosesTargetDoes
     DEF GivenUp, LedgerSame, Noted, Owns, Holders, L
<1>10. ASSUME NEW e \in Erasers, EraserLowersBarrier(e) \/ EraserCompletes(e) \/ EraserFails(e)
      PROVE  Last
  BY <1>0, <1>10, LowersBarrierDoes, CompletesDoes, FailsDoes
     DEF GivenUp, LedgerSame, Noted, Owns, Holders, L
<1>11. CASE Quiet
  BY <1>0, <1>11 DEF Quiet, LedgerSame
<1> QED
  BY <1>1, <1>2, <1>3, <1>4, <1>5, <1>6, <1>7, <1>8, <1>9, <1>10, <1>11, OthersQuiet DEF EraserStep, Inv

\* What a note has to tell after the step.
Says(note, m) ==
  /\ note.at \in {"raw_erased", "absent", "finalized"} => meeting'[m].status = "deleted"
  /\ note.at # "nothing" => meeting'[m].status # "none"
  /\ note.counted => note.at # "nothing" /\ L'.journal[m].counted

LEMMA SaysStill ==
  ASSUME Inv, [Next]_vars
  PROVE  /\ \A m \in Meetings : \A note : Tells(note, m) => Says(note, m)
         /\ \A m \in Meetings : Says(NoJournal[m], m)
<1>1. \A m \in Meetings : NoJournal[m].at = "nothing" /\ ~NoJournal[m].counted
  BY DEF NoJournal
<1> QED
  BY <1>1, Lasts DEF Tells, Says

\* A note of the target at hand.
LEMMA NotedSays ==
  ASSUME Inv, [Next]_vars, NEW e \in Erasers, NEW at, NEW counted, NEW pc,
         Noted(e, at, counted, pc), Alone(e), Target(e) \in Meetings,
         at # "nothing", meeting'[Target(e)].status # "none",
         at = "prepared" \/ meeting'[Target(e)].status = "deleted"
  PROVE  /\ \A m \in Meetings : Says(L'.journal[m], m)
         /\ \A f \in Erasers, m \in Meetings : Says(eraser'[f].journal[m], m)
<1>0. JournalsTell
  BY DEF Inv, Erasure
<1>1. /\ \A m \in Meetings : m # Target(e) => Says(eraser'[e].journal[m], m)
      /\ L'.journal = eraser'[e].journal
  BY <1>0, SaysStill DEF Noted, JournalsTell
<1>2. Says(eraser'[e].journal[Target(e)], Target(e))
  <2>1. eraser'[e].journal[Target(e)].at = at /\ L'.journal = eraser'[e].journal
    BY DEF Noted
  <2> QED
    BY <2>1 DEF Says
<1>3. \A m \in Meetings : Says(eraser'[e].journal[m], m)
  BY <1>1, <1>2
<1>4. \A f \in Erasers, m \in Meetings : f # e => Says(eraser'[f].journal[m], m)
  BY <1>0, SaysStill DEF Alone, JournalsTell
<1> QED
  BY <1>1, <1>3, <1>4

LEMMA TargetThere ==
  ASSUME Inv, NEW e \in Erasers, eraser[e].pc \in OnTarget
  PROVE  Target(e) \in Meetings /\ Target(e) \in eraser[e].todo
  BY TargetIsOne DEF Inv, Types, EraserOK, EraserType, Erasure, HasTarget

LEMMA JournalsTellKept ==
  ASSUME Inv, [Next]_vars
  PROVE  JournalsTell'
<1> DEFINE AllSay == /\ \A m \in Meetings : Says(L'.journal[m], m)
                     /\ \A f \in Erasers, m \in Meetings : Says(eraser'[f].journal[m], m)
<1> SUFFICES AllSay
  BY DEF JournalsTell, Tells, Says
<1>0. Types /\ HasTarget /\ Targets
  BY DEF Inv, Erasure
<1>a. /\ \A m \in Meetings : Says(L.journal[m], m)
      /\ \A f \in Erasers, m \in Meetings : Says(eraser[f].journal[m], m)
      /\ \A m \in Meetings : Says(NoJournal[m], m)
  BY SaysStill DEF Inv, Erasure, JournalsTell
<1>1. ASSUME NEW e \in Erasers, EraserClaims(e)
      PROVE  AllSay
  BY <1>0, <1>a, <1>1, ClaimsDoes
     DEF Alone, Advances, GivenUp, Asleep, LedgerSame
<1>2. ASSUME NEW e \in Erasers, EraserOpensJournal(e)
      PROVE  AllSay
  BY <1>0, <1>a, <1>2, OpensJournalDoes
     DEF Alone, Advances, GivenUp, Asleep, LedgerSame
<1>3. ASSUME NEW e \in Erasers, EraserRaisesBarrier(e) \/ EraserLists(e)
      PROVE  AllSay
  BY <1>0, <1>a, <1>3, RaisesBarrierDoes, ListsDoes
     DEF Alone, Advances, GivenUp, Asleep, LedgerSame
<1>4. ASSUME NEW e \in Erasers, EraserTakesTarget(e)
      PROVE  AllSay
  BY <1>0, <1>a, <1>4, TakesTargetDoes
     DEF Alone, Advances, GivenUp, Asleep, LedgerSame
<1>5. ASSUME NEW e \in Erasers, EraserWithdraws(e)
      PROVE  AllSay
  BY <1>0, <1>a, <1>5, WithdrawsDoes
     DEF Alone, Advances, GivenUp, Asleep, LedgerSame
<1>6. ASSUME NEW e \in Erasers, EraserPlans(e) \/ EraserDeletes(e) \/ EraserFinalizes(e)
                              \/ EraserErasesControl(e)
      PROVE  AllSay
  BY <1>0, <1>a, <1>6, PlansDoes, DeletesDoes, FinalizesDoes, ErasesControlDoes
     DEF Alone, Advances, GivenUp, Asleep, LedgerSame
<1>7. ASSUME NEW e \in Erasers, EraserPrepares(e)
      PROVE  AllSay
  <2>0. eraser[e].pc \in OnTarget
    BY <1>0, <1>a, <1>7, PreparesDoes DEF OnTarget
  <2>1. Target(e) \in Meetings /\ Target(e) \in eraser[e].todo
    BY <2>0, TargetThere
  <2>2. CASE GivenUp(e)
    <3>1. Alone(e)
      BY <1>0, <1>a, <1>7, PreparesDoes
    <3> QED
      BY <1>a, <2>2, <3>1 DEF Alone, GivenUp, Asleep, LedgerSame
  <2>3. CASE Noted(e, "prepared", TRUE, "delete")
    <3>1. meeting'[Target(e)].status # "none" /\ Alone(e)
      BY <1>0, <1>a, <1>7, <2>1, PreparesDoes DEF Targets
    <3> QED
      BY <2>1, <2>3, <3>1, NotedSays
  <2> QED
    BY <1>0, <1>a, <1>7, <2>2, <2>3, PreparesDoes
<1>8. ASSUME NEW e \in Erasers, EraserChecksIn(e)
      PROVE  AllSay
  <2>0. eraser[e].pc \in OnTarget
    BY <1>0, <1>a, <1>8, ChecksInDoes DEF OnTarget
  <2>1. Target(e) \in Meetings /\ Target(e) \in eraser[e].todo
    BY <2>0, TargetThere
  <2>2. CASE GivenUp(e)
    <3>1. Alone(e)
      BY <1>0, <1>a, <1>8, ChecksInDoes
    <3> QED
      BY <1>a, <2>2, <3>1 DEF Alone, GivenUp, Asleep, LedgerSame
  <2>3. ASSUME NEW at \in {"absent", "raw_erased"},
               Noted(e, at, eraser[e].journal[Target(e)].counted, "settled")
        PROVE  AllSay
    <3>1. meeting'[Target(e)].status = "deleted" /\ Alone(e)
      BY <1>0, <1>a, <1>8, <2>1, ChecksInDoes DEF Targets
    <3> QED
      BY <2>1, <2>3, <3>1, NotedSays
  <2> QED
    BY <1>0, <1>a, <1>8, <2>2, <2>3, ChecksInDoes
<1>9. ASSUME NEW e \in Erasers, EraserClosesTarget(e)
      PROVE  AllSay
  <2>0. eraser[e].pc \in OnTarget
    BY <1>0, <1>a, <1>9, ClosesTargetDoes DEF OnTarget
  <2>1. Target(e) \in Meetings /\ Target(e) \in eraser[e].todo
    BY <2>0, TargetThere
  <2>2. CASE GivenUp(e)
    <3>1. Alone(e)
      BY <1>0, <1>a, <1>9, ClosesTargetDoes
    <3> QED
      BY <1>a, <2>2, <3>1 DEF Alone, GivenUp, Asleep, LedgerSame
  <2>3. CASE Noted(e, "finalized", eraser[e].journal[Target(e)].counted, "target")
    <3>1. meeting'[Target(e)].status = "deleted" /\ Alone(e)
      BY <1>0, <1>a, <1>9, <2>1, ClosesTargetDoes DEF Targets
    <3> QED
      BY <2>1, <2>3, <3>1, NotedSays
  <2> QED
    BY <1>0, <1>a, <1>9, <2>2, <2>3, ClosesTargetDoes
<1>10. ASSUME NEW e \in Erasers, EraserLowersBarrier(e) \/ EraserCompletes(e) \/ EraserFails(e)
      PROVE  AllSay
  BY <1>0, <1>a, <1>10, LowersBarrierDoes, CompletesDoes, FailsDoes
     DEF Alone, Advances, GivenUp, Asleep, LedgerSame
<1>11. CASE Quiet
  BY <1>0, <1>a, <1>11 DEF Quiet, LedgerSame
<1> QED
  BY <1>1, <1>2, <1>3, <1>4, <1>5, <1>6, <1>7, <1>8, <1>9, <1>10, <1>11, OthersQuiet DEF EraserStep, Inv

LEMMA DeletedCountedKept ==
  ASSUME Inv, [Next]_vars
  PROVE  DeletedCounted'
<1>0. Types /\ HasTarget /\ Targets /\ JournalsTell
  BY DEF Inv, Erasure
<1>a. \A m \in Meetings : meeting[m].status = "deleted" => L'.journal[m].counted
  BY Lasts DEF Inv, Erasure, DeletedCounted
<1> USE DEF DeletedCounted
<1>1. ASSUME NEW e \in Erasers, EraserClaims(e) \/ EraserOpensJournal(e) \/ EraserRaisesBarrier(e)
                              \/ EraserLists(e)
      PROVE  DeletedCounted'
  BY <1>0, <1>a, <1>1, ClaimsDoes, OpensJournalDoes, RaisesBarrierDoes, ListsDoes
<1>2. ASSUME NEW e \in Erasers, EraserTakesTarget(e)
      PROVE  DeletedCounted'
  BY <1>0, <1>a, <1>2, TakesTargetDoes
<1>3. ASSUME NEW e \in Erasers, EraserWithdraws(e)
      PROVE  DeletedCounted'
  BY <1>0, <1>a, <1>3, WithdrawsDoes
<1>4. ASSUME NEW e \in Erasers, EraserPlans(e) \/ EraserFinalizes(e) \/ EraserErasesControl(e)
      PROVE  DeletedCounted'
  BY <1>0, <1>a, <1>4, PlansDoes, FinalizesDoes, ErasesControlDoes
<1>5. ASSUME NEW e \in Erasers, EraserPrepares(e)
      PROVE  DeletedCounted'
  BY <1>0, <1>a, <1>5, PreparesDoes
<1>6. ASSUME NEW e \in Erasers, EraserDeletes(e)
      PROVE  DeletedCounted'
  <2>0. eraser[e].pc = "delete"
    BY <1>0, <1>a, <1>6, DeletesDoes
  <2>1. Target(e) \in Meetings
    BY <2>0, TargetThere DEF OnTarget
  <2>2. L'.journal[Target(e)].counted
    BY <1>0, <2>0, <2>1, Lasts DEF Targets, JournalsTell, Tells
  <2> QED
    BY <1>0, <1>a, <1>6, <2>2, DeletesDoes
<1>7. ASSUME NEW e \in Erasers, EraserChecksIn(e)
      PROVE  DeletedCounted'
  BY <1>0, <1>a, <1>7, ChecksInDoes
<1>8. ASSUME NEW e \in Erasers, EraserClosesTarget(e)
      PROVE  DeletedCounted'
  BY <1>0, <1>a, <1>8, ClosesTargetDoes
<1>9. ASSUME NEW e \in Erasers, EraserLowersBarrier(e) \/ EraserCompletes(e) \/ EraserFails(e)
      PROVE  DeletedCounted'
  BY <1>0, <1>a, <1>9, LowersBarrierDoes, CompletesDoes, FailsDoes
<1>10. CASE Quiet
  BY <1>0, <1>a, <1>10 DEF Quiet, LedgerSame
<1> QED
  BY <1>1, <1>2, <1>3, <1>4, <1>5, <1>6, <1>7, <1>8, <1>9, <1>10, OthersQuiet DEF EraserStep, Inv

LEMMA SameTarget ==
  ASSUME NEW e \in Erasers, eraser'[e].todo = eraser[e].todo
  PROVE  Target(e)' = Target(e)
  BY DEF Target

LEMMA TargetsKept ==
  ASSUME Inv, [Next]_vars
  PROVE  Targets'
<1> DEFINE One(f) == /\ \A m \in eraser'[f].todo : meeting'[m].status # "none"
                     /\ eraser'[f].pc = "delete" => eraser'[f].journal[Target(f)'].counted
                     /\ eraser'[f].pc \in {"checkpoint", "absent", "settled", "finalized"} =>
                          meeting'[Target(f)'].status = "deleted"
                     /\ eraser'[f].pc \in {"control", "lower", "complete"} => eraser'[f].todo = {}
<1> SUFFICES ASSUME NEW f \in Erasers PROVE One(f)
  BY DEF Targets
<1>0. Types /\ HasTarget /\ Targets /\ JournalsTell
      /\ \A g \in Erasers : eraser[g].todo \subseteq Meetings /\ eraser[g].pc \in EraserPc
      /\ \A m \in Meetings : meeting[m].status \in {"none", "live", "ended", "deleted"}
  BY DEF Inv, Erasure, Types, EraserOK, EraserType, GrantsOK, RowType
<1>a. eraser'[f] = eraser[f] => One(f)
  <2> SUFFICES ASSUME eraser'[f] = eraser[f] PROVE One(f)
    OBVIOUS
  <2>1. Target(f)' = Target(f)
    BY SameTarget
  <2>2. eraser[f].pc \in OnTarget => Target(f) \in Meetings
    BY TargetThere DEF Inv, Erasure
  <2>3. \A m \in eraser[f].todo : meeting'[m].status # "none"
    BY <1>0, Lasts DEF Targets
  <2>4. eraser[f].pc \in {"checkpoint", "absent", "settled", "finalized"} =>
          meeting'[Target(f)].status = "deleted"
    BY <1>0, <2>2, Lasts DEF Targets, OnTarget
  <2> QED
    BY <1>0, <2>1, <2>3, <2>4 DEF Targets
<1>b. eraser'[f] = Asleep => One(f)
  BY DEF Asleep
<1>c. eraser'[f].todo = eraser[f].todo =>
        /\ Target(f)' = Target(f)
        /\ \A m \in eraser'[f].todo : meeting'[m].status # "none"
  BY <1>0, Lasts, SameTarget DEF Targets
<1>d. eraser[f].pc \in OnTarget => Target(f) \in Meetings /\ Target(f) \in eraser[f].todo
  BY TargetThere
<1>1. ASSUME NEW e \in Erasers, EraserClaims(e)
      PROVE  One(f)
  <2>1. CASE f # e
    BY <1>0, <1>a, <1>1, <2>1, ClaimsDoes DEF Alone
  <2>2. CASE f = e
    BY <1>0, <1>b, <1>c, <1>d, <1>1, <2>2, ClaimsDoes
       DEF Advances, GivenUp, OnTarget
  <2> QED
    BY <2>1, <2>2
<1>2. ASSUME NEW e \in Erasers, EraserOpensJournal(e)
      PROVE  One(f)
  <2>1. CASE f # e
    BY <1>0, <1>a, <1>2, <2>1, OpensJournalDoes DEF Alone
  <2>2. CASE f = e
    BY <1>0, <1>b, <1>c, <1>d, <1>2, <2>2, OpensJournalDoes
       DEF Advances, GivenUp, OnTarget
  <2> QED
    BY <2>1, <2>2
<1>3. ASSUME NEW e \in Erasers, EraserRaisesBarrier(e)
      PROVE  One(f)
  <2>1. CASE f # e
    BY <1>0, <1>a, <1>3, <2>1, RaisesBarrierDoes DEF Alone
  <2>2. CASE f = e
    BY <1>0, <1>b, <1>c, <1>d, <1>3, <2>2, RaisesBarrierDoes
       DEF Advances, GivenUp, OnTarget
  <2> QED
    BY <2>1, <2>2
<1>4. ASSUME NEW e \in Erasers, EraserLists(e)
      PROVE  One(f)
  <2>1. CASE f # e
    BY <1>0, <1>a, <1>4, <2>1, ListsDoes DEF Alone
  <2>2. CASE f = e
    <3>1. /\ eraser'[f].pc = "target" /\ meeting' = meeting
          /\ eraser'[f].todo = {m \in Meetings : Stored(m) \/ eraser[f].journal[m].at # "nothing"}
      BY <1>0, <1>4, <2>2, ListsDoes
    <3>2. \A m \in eraser'[f].todo : meeting[m].status # "none"
      BY <1>0, <3>1 DEF Stored, JournalsTell, Tells
    <3> QED
      BY <3>1, <3>2
  <2> QED
    BY <2>1, <2>2
<1>5. ASSUME NEW e \in Erasers, EraserTakesTarget(e)
      PROVE  One(f)
  <2>1. CASE f # e
    BY <1>0, <1>a, <1>5, <2>1, TakesTargetDoes DEF Alone
  <2>2. CASE f = e
    <3>1. CASE eraser[f].todo = {} /\ Advances(f, "control")
      BY <1>c, <3>1 DEF Advances
    <3>2. CASE eraser'[f].pc = "target" /\ eraser'[f].todo = eraser[f].todo \ {Target(f)}
      BY <1>0, Lasts, <3>2 DEF Targets
    <3>3. CASE /\ eraser[f].todo # {} /\ eraser[f].journal[Target(f)].at = "raw_erased"
               /\ Advances(f, "settled")
      <4>1. Target(f) \in Meetings
        BY <1>0, <3>3, TargetIsOne DEF EraserOK, Types, EraserType
      <4>2. meeting'[Target(f)].status = "deleted"
        BY <1>0, <3>3, <4>1, Lasts DEF JournalsTell, Tells
      <4> QED
        BY <1>c, <3>3, <4>2 DEF Advances
    <3>4. CASE Advances(f, "withdraw")
      BY <1>c, <3>4 DEF Advances
    <3> QED
      BY <1>0, <1>5, <2>2, <3>1, <3>2, <3>3, <3>4, TakesTargetDoes
  <2> QED
    BY <2>1, <2>2
<1>6. ASSUME NEW e \in Erasers, EraserWithdraws(e)
      PROVE  One(f)
  <2>1. CASE f # e
    BY <1>0, <1>a, <1>6, <2>1, WithdrawsDoes DEF Alone
  <2>2. CASE f = e
    BY <1>0, <1>b, <1>c, <1>d, <1>6, <2>2, WithdrawsDoes
       DEF Advances, GivenUp, OnTarget
  <2> QED
    BY <2>1, <2>2
<1>7. ASSUME NEW e \in Erasers, EraserPlans(e)
      PROVE  One(f)
  <2>1. CASE f # e
    BY <1>0, <1>a, <1>7, <2>1, PlansDoes DEF Alone
  <2>2. CASE f = e
    <3>1. Target(f) \in Meetings /\ Target(f) \in eraser[f].todo /\ meeting' = meeting
      BY <1>0, <1>d, <1>7, <2>2, PlansDoes DEF OnTarget
    <3>2. ~Stored(Target(f)) => meeting'[Target(f)].status = "deleted"
      BY <1>0, <3>1 DEF Stored, Targets
    <3> QED
      BY <1>0, <1>c, <1>7, <2>2, <3>2, PlansDoes DEF Advances
  <2> QED
    BY <2>1, <2>2
<1>8. ASSUME NEW e \in Erasers, EraserPrepares(e)
      PROVE  One(f)
  <2>1. CASE f # e
    BY <1>0, <1>a, <1>8, <2>1, PreparesDoes DEF Alone
  <2>2. CASE f = e
    <3>1. CASE GivenUp(f)
      BY <1>b, <3>1 DEF GivenUp
    <3>2. CASE Noted(f, "prepared", TRUE, "delete")
      BY <1>c, <3>2 DEF Noted
    <3> QED
      BY <1>0, <1>8, <2>2, <3>1, <3>2, PreparesDoes
  <2> QED
    BY <2>1, <2>2
<1>9. ASSUME NEW e \in Erasers, EraserDeletes(e)
      PROVE  One(f)
  <2>1. CASE f # e
    BY <1>0, <1>a, <1>9, <2>1, DeletesDoes DEF Alone
  <2>2. CASE f = e
    BY <1>0, <1>b, <1>c, <1>d, <1>9, <2>2, DeletesDoes
       DEF Advances, GivenUp, OnTarget
  <2> QED
    BY <2>1, <2>2
<1>10. ASSUME NEW e \in Erasers, EraserChecksIn(e)
      PROVE  One(f)
  <2>1. CASE f # e
    BY <1>0, <1>a, <1>10, <2>1, ChecksInDoes DEF Alone
  <2>2. CASE f = e
    <3>1. CASE GivenUp(f)
      BY <1>b, <3>1 DEF GivenUp
    <3>2. ASSUME NEW at, Noted(f, at, eraser[f].journal[Target(f)].counted, "settled")
          PROVE  One(f)
      <4>1. eraser'[f].pc = "settled" /\ eraser'[f].todo = eraser[f].todo
        BY <3>2 DEF Noted
      <4>2. meeting'[Target(f)].status = "deleted"
        BY <1>0, <1>10, <2>2, ChecksInDoes DEF Targets
      <4> QED
        BY <1>c, <4>1, <4>2
    <3> QED
      BY <1>0, <1>10, <2>2, <3>1, <3>2, ChecksInDoes
  <2> QED
    BY <2>1, <2>2
<1>11. ASSUME NEW e \in Erasers, EraserFinalizes(e)
      PROVE  One(f)
  <2>1. CASE f # e
    BY <1>0, <1>a, <1>11, <2>1, FinalizesDoes DEF Alone
  <2>2. CASE f = e
    BY <1>0, <1>c, <1>11, <2>2, FinalizesDoes DEF Advances, Targets
  <2> QED
    BY <2>1, <2>2
<1>12. ASSUME NEW e \in Erasers, EraserClosesTarget(e)
      PROVE  One(f)
  <2>1. CASE f # e
    BY <1>0, <1>a, <1>12, <2>1, ClosesTargetDoes DEF Alone
  <2>2. CASE f = e
    <3>1. CASE GivenUp(f)
      BY <1>b, <3>1 DEF GivenUp
    <3>2. CASE Noted(f, "finalized", eraser[f].journal[Target(f)].counted, "target")
      BY <1>c, <3>2 DEF Noted
    <3> QED
      BY <1>0, <1>12, <2>2, <3>1, <3>2, ClosesTargetDoes
  <2> QED
    BY <2>1, <2>2
<1>13. ASSUME NEW e \in Erasers, EraserErasesControl(e)
      PROVE  One(f)
  <2>1. CASE f # e
    BY <1>0, <1>a, <1>13, <2>1, ErasesControlDoes DEF Alone
  <2>2. CASE f = e
    BY <1>0, <1>c, <1>13, <2>2, ErasesControlDoes DEF Advances, Targets
  <2> QED
    BY <2>1, <2>2
<1>14. ASSUME NEW e \in Erasers, EraserLowersBarrier(e)
      PROVE  One(f)
  <2>1. CASE f # e
    BY <1>0, <1>a, <1>14, <2>1, LowersBarrierDoes DEF Alone
  <2>2. CASE f = e
    BY <1>0, <1>b, <1>c, <1>14, <2>2, LowersBarrierDoes DEF Advances, GivenUp, Targets
  <2> QED
    BY <2>1, <2>2
<1>15. ASSUME NEW e \in Erasers, EraserCompletes(e)
      PROVE  One(f)
  <2>1. CASE f # e
    BY <1>0, <1>a, <1>15, <2>1, CompletesDoes DEF Alone
  <2>2. CASE f = e
    BY <1>0, <1>b, <1>c, <1>d, <1>15, <2>2, CompletesDoes
       DEF Advances, GivenUp, OnTarget
  <2> QED
    BY <2>1, <2>2
<1>16. ASSUME NEW e \in Erasers, EraserFails(e)
      PROVE  One(f)
  <2>1. CASE f # e
    BY <1>0, <1>a, <1>16, <2>1, FailsDoes DEF Alone
  <2>2. CASE f = e
    BY <1>0, <1>b, <1>c, <1>d, <1>16, <2>2, FailsDoes
       DEF Advances, GivenUp, OnTarget
  <2> QED
    BY <2>1, <2>2
<1>17. CASE Quiet
  BY <1>a, <1>17 DEF Quiet
<1> QED
  BY <1>1, <1>2, <1>3, <1>4, <1>5, <1>6, <1>7, <1>8, <1>9, <1>10, <1>11, <1>12, <1>13, <1>14, <1>15, <1>16, <1>17, OthersQuiet DEF EraserStep, Inv

LEMMA FinishingKept ==
  ASSUME Inv, [Next]_vars
  PROVE  Finishing'
<1> DEFINE One(f) == eraser'[f].pc \in {"target", "control", "lower", "complete"} \cup OnTarget =>
                       \A m \in Meetings \ eraser'[f].todo :
                         eraser'[f].journal[m].at \in {"nothing", "finalized"}
<1> SUFFICES ASSUME NEW f \in Erasers PROVE One(f)
  BY DEF Finishing
<1>0. Types /\ HasTarget /\ Finishing
  BY DEF Inv, Erasure
<1>a. eraser'[f] = eraser[f] => One(f)
  BY <1>0 DEF Finishing
<1>b. eraser'[f] = Asleep => One(f)
  BY DEF Asleep, OnTarget
<1>c. /\ eraser[f].pc \in {"target", "control", "lower", "complete"} \cup OnTarget
      /\ eraser'[f].todo = eraser[f].todo /\ eraser'[f].journal = eraser[f].journal
      => One(f)
  BY <1>0 DEF Finishing
<1>d. eraser[f].pc \in OnTarget => Target(f) \in Meetings /\ Target(f) \in eraser[f].todo
  BY TargetThere
<1>1. ASSUME NEW e \in Erasers, EraserClaims(e)
      PROVE  One(f)
  <2>1. CASE f # e
    BY <1>0, <1>a, <1>1, <2>1, ClaimsDoes DEF Alone
  <2>2. CASE f = e
    BY <1>0, <1>b, <1>1, <2>2, ClaimsDoes DEF Advances, GivenUp, OnTarget
  <2> QED
    BY <2>1, <2>2
<1>2. ASSUME NEW e \in Erasers, EraserOpensJournal(e)
      PROVE  One(f)
  <2>1. CASE f # e
    BY <1>0, <1>a, <1>2, <2>1, OpensJournalDoes DEF Alone
  <2>2. CASE f = e
    BY <1>0, <1>b, <1>2, <2>2, OpensJournalDoes DEF Advances, GivenUp, OnTarget
  <2> QED
    BY <2>1, <2>2
<1>3. ASSUME NEW e \in Erasers, EraserRaisesBarrier(e)
      PROVE  One(f)
  <2>1. CASE f # e
    BY <1>0, <1>a, <1>3, <2>1, RaisesBarrierDoes DEF Alone
  <2>2. CASE f = e
    BY <1>0, <1>b, <1>3, <2>2, RaisesBarrierDoes DEF Advances, GivenUp, OnTarget
  <2> QED
    BY <2>1, <2>2
<1>4. ASSUME NEW e \in Erasers, EraserLists(e)
      PROVE  One(f)
  <2>1. CASE f # e
    BY <1>0, <1>a, <1>4, <2>1, ListsDoes DEF Alone
  <2>2. CASE f = e
    <3>1. /\ eraser'[f].journal = eraser[f].journal
          /\ \A m \in Meetings \ eraser'[f].todo : eraser[f].journal[m].at = "nothing"
      BY <1>0, <1>4, <2>2, ListsDoes
    <3> QED
      BY <3>1
  <2> QED
    BY <2>1, <2>2
<1>5. ASSUME NEW e \in Erasers, EraserTakesTarget(e)
      PROVE  One(f)
  <2>1. CASE f # e
    BY <1>0, <1>a, <1>5, <2>1, TakesTargetDoes DEF Alone
  <2>2. CASE f = e
    <3>1. CASE \E pc : Advances(f, pc)
      BY <1>0, <1>c, <1>5, <2>2, <3>1, TakesTargetDoes DEF Advances
    <3>2. CASE /\ eraser[f].journal[Target(f)].at = "finalized"
               /\ eraser'[f].journal = eraser[f].journal
               /\ eraser'[f].todo = eraser[f].todo \ {Target(f)}
      BY <1>0, <1>5, <2>2, <3>2, TakesTargetDoes DEF Finishing
    <3> QED
      BY <1>0, <1>5, <2>2, <3>1, <3>2, TakesTargetDoes
  <2> QED
    BY <2>1, <2>2
<1>6. ASSUME NEW e \in Erasers, EraserWithdraws(e)
      PROVE  One(f)
  <2>1. CASE f # e
    BY <1>0, <1>a, <1>6, <2>1, WithdrawsDoes DEF Alone
  <2>2. CASE f = e
    <3>1. GivenUp(f) \/ /\ eraser[f].pc \in {"target", "control", "lower", "complete"} \cup OnTarget
                        /\ eraser'[f].todo = eraser[f].todo
                        /\ eraser'[f].journal = eraser[f].journal
      BY <1>0, <1>6, <2>2, WithdrawsDoes DEF Advances, OnTarget
    <3> QED
      BY <1>b, <1>c, <3>1 DEF GivenUp
  <2> QED
    BY <2>1, <2>2
<1>7. ASSUME NEW e \in Erasers, EraserPlans(e)
      PROVE  One(f)
  <2>1. CASE f # e
    BY <1>0, <1>a, <1>7, <2>1, PlansDoes DEF Alone
  <2>2. CASE f = e
    <3>1. GivenUp(f) \/ /\ eraser[f].pc \in {"target", "control", "lower", "complete"} \cup OnTarget
                        /\ eraser'[f].todo = eraser[f].todo
                        /\ eraser'[f].journal = eraser[f].journal
      BY <1>0, <1>7, <2>2, PlansDoes DEF Advances, OnTarget
    <3> QED
      BY <1>b, <1>c, <3>1 DEF GivenUp
  <2> QED
    BY <2>1, <2>2
<1>8. ASSUME NEW e \in Erasers, EraserPrepares(e)
      PROVE  One(f)
  <2>1. CASE f # e
    BY <1>0, <1>a, <1>8, <2>1, PreparesDoes DEF Alone
  <2>2. CASE f = e
    <3>1. CASE GivenUp(f)
      BY <1>b, <3>1 DEF GivenUp
    <3>2. ASSUME Noted(f, "prepared", TRUE, "delete")
          PROVE  One(f)
      <4>1. /\ eraser'[f].todo = eraser[f].todo /\ eraser[f].pc \in OnTarget
            /\ \A m \in Meetings \ eraser'[f].todo : eraser'[f].journal[m] = eraser[f].journal[m]
        <5>1. eraser[f].pc \in OnTarget
          BY <1>0, <1>8, <2>2, PreparesDoes DEF OnTarget
        <5> QED
          BY <1>d, <3>2, <5>1 DEF Noted
      <4> QED
        BY <1>0, <4>1 DEF Finishing
    <3> QED
      BY <1>0, <1>8, <2>2, <3>1, <3>2, PreparesDoes
  <2> QED
    BY <2>1, <2>2
<1>9. ASSUME NEW e \in Erasers, EraserDeletes(e)
      PROVE  One(f)
  <2>1. CASE f # e
    BY <1>0, <1>a, <1>9, <2>1, DeletesDoes DEF Alone
  <2>2. CASE f = e
    <3>1. GivenUp(f) \/ /\ eraser[f].pc \in {"target", "control", "lower", "complete"} \cup OnTarget
                        /\ eraser'[f].todo = eraser[f].todo
                        /\ eraser'[f].journal = eraser[f].journal
      BY <1>0, <1>9, <2>2, DeletesDoes DEF Advances, OnTarget
    <3> QED
      BY <1>b, <1>c, <3>1 DEF GivenUp
  <2> QED
    BY <2>1, <2>2
<1>10. ASSUME NEW e \in Erasers, EraserChecksIn(e)
      PROVE  One(f)
  <2>1. CASE f # e
    BY <1>0, <1>a, <1>10, <2>1, ChecksInDoes DEF Alone
  <2>2. CASE f = e
    <3>1. CASE GivenUp(f)
      BY <1>b, <3>1 DEF GivenUp
    <3>2. ASSUME NEW at, Noted(f, at, eraser[f].journal[Target(f)].counted, "settled")
          PROVE  One(f)
      <4>1. /\ eraser'[f].todo = eraser[f].todo /\ eraser[f].pc \in OnTarget
            /\ \A m \in Meetings \ eraser'[f].todo : eraser'[f].journal[m] = eraser[f].journal[m]
        <5>1. eraser[f].pc \in OnTarget
          BY <1>0, <1>10, <2>2, ChecksInDoes DEF OnTarget
        <5> QED
          BY <1>d, <3>2, <5>1 DEF Noted
      <4> QED
        BY <1>0, <4>1 DEF Finishing
    <3> QED
      BY <1>0, <1>10, <2>2, <3>1, <3>2, ChecksInDoes
  <2> QED
    BY <2>1, <2>2
<1>11. ASSUME NEW e \in Erasers, EraserFinalizes(e)
      PROVE  One(f)
  <2>1. CASE f # e
    BY <1>0, <1>a, <1>11, <2>1, FinalizesDoes DEF Alone
  <2>2. CASE f = e
    <3>1. GivenUp(f) \/ /\ eraser[f].pc \in {"target", "control", "lower", "complete"} \cup OnTarget
                        /\ eraser'[f].todo = eraser[f].todo
                        /\ eraser'[f].journal = eraser[f].journal
      BY <1>0, <1>11, <2>2, FinalizesDoes DEF Advances, OnTarget
    <3> QED
      BY <1>b, <1>c, <3>1 DEF GivenUp
  <2> QED
    BY <2>1, <2>2
<1>12. ASSUME NEW e \in Erasers, EraserClosesTarget(e)
      PROVE  One(f)
  <2>1. CASE f # e
    BY <1>0, <1>a, <1>12, <2>1, ClosesTargetDoes DEF Alone
  <2>2. CASE f = e
    <3>1. CASE GivenUp(f)
      BY <1>b, <3>1 DEF GivenUp
    <3>2. ASSUME Noted(f, "finalized", eraser[f].journal[Target(f)].counted, "target")
          PROVE  One(f)
      <4>1. /\ eraser'[f].todo = eraser[f].todo /\ eraser[f].pc \in OnTarget
            /\ \A m \in Meetings \ eraser'[f].todo : eraser'[f].journal[m] = eraser[f].journal[m]
        <5>1. eraser[f].pc \in OnTarget
          BY <1>0, <1>12, <2>2, ClosesTargetDoes DEF OnTarget
        <5> QED
          BY <1>d, <3>2, <5>1 DEF Noted
      <4> QED
        BY <1>0, <4>1 DEF Finishing
    <3> QED
      BY <1>0, <1>12, <2>2, <3>1, <3>2, ClosesTargetDoes
  <2> QED
    BY <2>1, <2>2
<1>13. ASSUME NEW e \in Erasers, EraserErasesControl(e)
      PROVE  One(f)
  <2>1. CASE f # e
    BY <1>0, <1>a, <1>13, <2>1, ErasesControlDoes DEF Alone
  <2>2. CASE f = e
    <3>1. GivenUp(f) \/ /\ eraser[f].pc \in {"target", "control", "lower", "complete"} \cup OnTarget
                        /\ eraser'[f].todo = eraser[f].todo
                        /\ eraser'[f].journal = eraser[f].journal
      BY <1>0, <1>13, <2>2, ErasesControlDoes DEF Advances, OnTarget
    <3> QED
      BY <1>b, <1>c, <3>1 DEF GivenUp
  <2> QED
    BY <2>1, <2>2
<1>14. ASSUME NEW e \in Erasers, EraserLowersBarrier(e)
      PROVE  One(f)
  <2>1. CASE f # e
    BY <1>0, <1>a, <1>14, <2>1, LowersBarrierDoes DEF Alone
  <2>2. CASE f = e
    <3>1. GivenUp(f) \/ /\ eraser[f].pc \in {"target", "control", "lower", "complete"} \cup OnTarget
                        /\ eraser'[f].todo = eraser[f].todo
                        /\ eraser'[f].journal = eraser[f].journal
      BY <1>0, <1>14, <2>2, LowersBarrierDoes DEF Advances, OnTarget
    <3> QED
      BY <1>b, <1>c, <3>1 DEF GivenUp
  <2> QED
    BY <2>1, <2>2
<1>15. ASSUME NEW e \in Erasers, EraserCompletes(e)
      PROVE  One(f)
  <2>1. CASE f # e
    BY <1>0, <1>a, <1>15, <2>1, CompletesDoes DEF Alone
  <2>2. CASE f = e
    BY <1>0, <1>b, <1>15, <2>2, CompletesDoes DEF Advances, GivenUp, OnTarget
  <2> QED
    BY <2>1, <2>2
<1>16. ASSUME NEW e \in Erasers, EraserFails(e)
      PROVE  One(f)
  <2>1. CASE f # e
    BY <1>0, <1>a, <1>16, <2>1, FailsDoes DEF Alone
  <2>2. CASE f = e
    BY <1>0, <1>b, <1>16, <2>2, FailsDoes DEF Advances, GivenUp, OnTarget
  <2> QED
    BY <2>1, <2>2
<1>17. CASE Quiet
  BY <1>a, <1>17 DEF Quiet
<1> QED
  BY <1>1, <1>2, <1>3, <1>4, <1>5, <1>6, <1>7, <1>8, <1>9, <1>10, <1>11, <1>12, <1>13, <1>14, <1>15, <1>16, <1>17, OthersQuiet DEF EraserStep, Inv

LEMMA ReceiptHoldsKept ==
  ASSUME Inv, [Next]_vars
  PROVE  ReceiptHolds'
<1>0. Types /\ HasTarget /\ ReceiptHolds
  BY DEF Inv, Erasure
<1>a. LedgerSame => ReceiptHolds'
  BY <1>0, Lasts DEF LedgerSame, ReceiptHolds
<1>b. ASSUME NEW e \in Erasers, NEW at, NEW counted, NEW pc, Noted(e, at, counted, pc)
      PROVE  ReceiptHolds'
  <2>1. L'.status = "pending"
    BY <1>b DEF Noted, Owns, L
  <2> QED
    BY <2>1 DEF ReceiptHolds
<1>c. ASSUME NEW e \in Erasers, GivenUp(e) PROVE ReceiptHolds'
  BY <1>a, <1>c DEF GivenUp
<1>1. ASSUME NEW e \in Erasers, EraserClaims(e)
      PROVE  ReceiptHolds'
  BY <1>0, <1>1, ClaimsDoes DEF ReceiptHolds
<1>2. ASSUME NEW e \in Erasers, EraserOpensJournal(e)
      PROVE  ReceiptHolds'
  BY <1>0, <1>c, <1>2, OpensJournalDoes DEF Owns, L, ReceiptHolds
<1>3. ASSUME NEW e \in Erasers, EraserRaisesBarrier(e) \/ EraserLists(e) \/ EraserTakesTarget(e)
      PROVE  ReceiptHolds'
  BY <1>0, <1>a, <1>3, RaisesBarrierDoes, ListsDoes, TakesTargetDoes
<1>4. ASSUME NEW e \in Erasers, EraserWithdraws(e) \/ EraserPlans(e)
      PROVE  ReceiptHolds'
  BY <1>0, <1>a, <1>4, WithdrawsDoes, PlansDoes
<1>5. ASSUME NEW e \in Erasers, EraserPrepares(e)
      PROVE  ReceiptHolds'
  BY <1>0, <1>b, <1>c, <1>5, PreparesDoes
<1>6. ASSUME NEW e \in Erasers, EraserDeletes(e) \/ EraserFinalizes(e) \/ EraserErasesControl(e)
                              \/ EraserLowersBarrier(e)
      PROVE  ReceiptHolds'
  BY <1>0, <1>a, <1>6, DeletesDoes, FinalizesDoes, ErasesControlDoes, LowersBarrierDoes
<1>7. ASSUME NEW e \in Erasers, EraserChecksIn(e)
      PROVE  ReceiptHolds'
  BY <1>0, <1>b, <1>c, <1>7, ChecksInDoes
<1>8. ASSUME NEW e \in Erasers, EraserClosesTarget(e)
      PROVE  ReceiptHolds'
  BY <1>0, <1>b, <1>c, <1>8, ClosesTargetDoes
<1>9. ASSUME NEW e \in Erasers, EraserCompletes(e)
      PROVE  ReceiptHolds'
  <2>0. /\ eraser[e].pc = "complete" /\ meeting' = meeting
        /\ \/ LedgerSame
           \/ Owns("erase", eraser[e].fence) /\ L'.journal = L.journal
    BY <1>0, <1>9, CompletesDoes
  <2>1. CASE Owns("erase", eraser[e].fence) /\ L'.journal = L.journal
    <3>1. L.journal = eraser[e].journal /\ eraser[e].todo = {}
      BY <2>0, <2>1 DEF Owns, L, Inv, Erasure, Holders, Targets
    <3>2. \A m \in Meetings : L.journal[m].at \in {"nothing", "finalized"}
      BY <2>0, <3>1 DEF Inv, Erasure, Finishing
    <3>3. \A m \in Meetings : L.journal[m].counted => meeting[m].status = "deleted"
      BY <3>2 DEF Inv, Erasure, JournalsTell, Tells
    <3> QED
      BY <2>0, <2>1, <3>3 DEF ReceiptHolds
  <2> QED
    BY <1>a, <2>0, <2>1
<1>10. ASSUME NEW e \in Erasers, EraserFails(e)
      PROVE  ReceiptHolds'
  BY <1>0, <1>c, <1>10, FailsDoes
<1>11. CASE Quiet
  BY <1>a, <1>11 DEF Quiet
<1> QED
  BY <1>1, <1>2, <1>3, <1>4, <1>5, <1>6, <1>7, <1>8, <1>9, <1>10, <1>11, OthersQuiet DEF EraserStep, Inv

-----------------------------------------------------------------------------
(* Captures, step by step. *)

\* What each step does to the rows and the capture.
RowStep ==
  \/ meeting' = meeting
  \/ \E m \in Meetings, c \in Captors :
       /\ meeting[m].status = "none" /\ captor[c].pc = "insert" /\ Carrying(captor[c].grant) = {}
       /\ meeting' = [meeting EXCEPT ![m] = [status |-> "live", grant |-> captor[c].grant]]
  \/ \E m \in Meetings, s \in {"ended", "deleted"} :
       meeting[m].status # "none" /\ meeting' = [meeting EXCEPT ![m].status = s]
CaptureStep ==
  \/ capture' = capture /\ grants' = grants
  \/ \E c \in Captors : captor[c].pc = "create" /\ capture = NoCapture /\ Grant(c)
  \/ \E c \in Captors, m \in Meetings :
       /\ captor[c].pc = "bind" /\ capture.grant = captor[c].grant /\ grants' = grants
       /\ meeting[m].grant = captor[c].grant
       /\ capture' = [capture EXCEPT !.meeting = m]
  \/ /\ capture' = NoCapture /\ grants' = grants /\ capture.meeting \in Meetings
     /\ meeting[capture.meeting].status = "deleted"
  \/ capture' = NoCapture /\ grants' = grants /\ forgotten'
Untouched == meeting' = meeting /\ capture' = capture /\ grants' = grants /\ forgotten' = forgotten

LEMMA RowSteps ==
  ASSUME Inv, [Next]_vars
  PROVE  /\ RowStep /\ CaptureStep
         /\ forgotten => forgotten'
         /\ meeting' = meeting \/ (capture' = capture /\ grants' = grants)
<1> DEFINE G == /\ RowStep /\ CaptureStep
                /\ forgotten => forgotten'
                /\ meeting' = meeting \/ (capture' = capture /\ grants' = grants)
<1> SUFFICES G
  OBVIOUS
<1>0. Untouched => G
  BY DEF Untouched, RowStep, CaptureStep
<1> USE DEF history
<1>1. ASSUME NEW c \in Captors,
             \/ CaptorAdmitted(c) \/ CaptorClaims(c) \/ CaptorFinds(c) \/ CaptorRecovers(c)
             \/ CaptorFences(c) \/ CaptorCompletes(c) \/ CaptorFails(c)
      PROVE  G
  BY <1>0, <1>1 DEF Untouched, CaptorAdmitted, CaptorClaims, CaptorFinds, CaptorRecovers,
     CaptorFences, CaptorCompletes, CaptorFails
<1>2. ASSUME NEW c \in Captors, CaptorCreates(c) PROVE G
  <2>1. CASE Grant(c) /\ capture = NoCapture
    <3>1. CaptureStep
      BY <1>2, <2>1, Zenon DEF CaptureStep, CaptorCreates
    <3> QED
      BY <1>2, <3>1 DEF RowStep, CaptorCreates
  <2>2. CASE UNCHANGED <<capture, grants>>
    BY <1>0, <1>2, <2>2 DEF Untouched, CaptorCreates
  <2> QED
    BY <1>2, <2>1, <2>2 DEF CaptorCreates
<1>3. ASSUME NEW c \in Captors, CaptorSpawns(c) PROVE G
  <2>1. CASE meeting' = meeting
    BY <1>0, <1>3, <2>1 DEF Untouched, CaptorSpawns
  <2>2. ASSUME NEW m \in Meetings, meeting[m].status = "none", Carrying(captor[c].grant) = {},
               meeting' = [meeting EXCEPT ![m] = [status |-> "live", grant |-> captor[c].grant]]
        PROVE  G
    <3>1. RowStep
      BY <1>3, <2>2, Zenon DEF RowStep, CaptorSpawns
    <3> QED
      BY <1>3, <3>1 DEF CaptureStep, CaptorSpawns
  <2> QED
    BY <1>3, <2>1, <2>2 DEF CaptorSpawns
<1>4. ASSUME NEW c \in Captors, CaptorBinds(c) PROVE G
  <2>1. CASE capture.grant = captor[c].grant
    <3>1. PICK m \in Meetings : /\ meeting[m].grant = captor[c].grant
                                /\ capture' = [capture EXCEPT !.meeting = m]
      BY <1>4, <2>1 DEF CaptorBinds
    <3>2. captor[c].pc = "bind" /\ grants' = grants
      BY <1>4 DEF CaptorBinds
    <3>3. CaptureStep
      BY <2>1, <3>1, <3>2, Zenon DEF CaptureStep
    <3> QED
      BY <1>4, <3>3 DEF RowStep, CaptorBinds
  <2>2. CASE capture.grant # captor[c].grant
    BY <1>0, <1>4, <2>2 DEF Untouched, CaptorBinds
  <2> QED
    BY <2>1, <2>2
<1>5. ASSUME NEW e \in Erasers,
             \/ EraserClaims(e) \/ EraserOpensJournal(e) \/ EraserRaisesBarrier(e)
             \/ EraserLists(e) \/ EraserTakesTarget(e) \/ EraserPlans(e) \/ EraserPrepares(e)
             \/ EraserChecksIn(e) \/ EraserClosesTarget(e) \/ EraserLowersBarrier(e)
             \/ EraserCompletes(e) \/ EraserFails(e)
      PROVE  G
  BY <1>0, <1>5 DEF Untouched, EraserClaims, EraserOpensJournal, EraserRaisesBarrier,
     EraserLists, EraserTakesTarget, EraserPlans, EraserPrepares, EraserChecksIn,
     EraserClosesTarget, EraserLowersBarrier, EraserCompletes, EraserFails
<1>6. ASSUME NEW e \in Erasers, EraserWithdraws(e) PROVE G
  <2>1. Target(e) \in Meetings /\ meeting[Target(e)].status # "none"
    BY <1>6, TargetThere DEF EraserWithdraws, OnTarget, Inv, Erasure, Targets
  <2>2. capture' = capture /\ grants' = grants /\ forgotten' = forgotten
    BY <1>6 DEF EraserWithdraws
  <2>3. meeting' = meeting \/ meeting' = [meeting EXCEPT ![Target(e)].status = "ended"]
    BY <1>6 DEF EraserWithdraws
  <2>4. RowStep
    BY <2>1, <2>3, Zenon DEF RowStep
  <2> QED
    BY <2>2, <2>4 DEF CaptureStep
<1>7. ASSUME NEW e \in Erasers, EraserDeletes(e) PROVE G
  <2>1. Target(e) \in Meetings /\ meeting[Target(e)].status # "none"
    BY <1>7, TargetThere DEF EraserDeletes, OnTarget, Inv, Erasure, Targets
  <2>2. capture' = capture /\ grants' = grants /\ forgotten' = forgotten
    BY <1>7 DEF EraserDeletes
  <2>3. meeting' = [meeting EXCEPT ![Target(e)].status = "deleted"]
    BY <1>7 DEF EraserDeletes
  <2>4. RowStep
    BY <2>1, <2>3, Zenon DEF RowStep
  <2> QED
    BY <2>2, <2>4 DEF CaptureStep
<1>8. ASSUME NEW e \in Erasers, EraserFinalizes(e) PROVE G
  <2>1. Target(e) \in Meetings /\ meeting[Target(e)].status = "deleted"
    BY <1>8, TargetThere DEF EraserFinalizes, OnTarget, Inv, Erasure, Targets
  <2>2. meeting' = meeting /\ grants' = grants /\ forgotten' = forgotten
    BY <1>8 DEF EraserFinalizes
  <2>3. capture' = capture \/ (capture' = NoCapture /\ capture.meeting = Target(e))
    BY <1>8 DEF EraserFinalizes
  <2>4. CaptureStep
    BY <2>1, <2>2, <2>3, Zenon DEF CaptureStep
  <2> QED
    BY <2>2, <2>4 DEF RowStep
<1>9. ASSUME NEW e \in Erasers, EraserErasesControl(e) PROVE G
  BY <1>9 DEF EraserErasesControl, RowStep, CaptureStep
<1>10. ASSUME NEW m \in Meetings, MeetingEnds(m) PROVE G
  <2>1. meeting[m].status # "none" /\ meeting' = [meeting EXCEPT ![m].status = "ended"]
    BY <1>10 DEF MeetingEnds, Live
  <2>2. RowStep
    BY <2>1, Zenon DEF RowStep
  <2> QED
    BY <1>10, <2>2 DEF MeetingEnds, CaptureStep
<1>11. ASSUME NEW o \in Operation, LeaseExpires(o) PROVE G
  BY <1>0, <1>11 DEF Untouched, LeaseExpires
<1>12. CASE Ensure
  BY <1>0, <1>12 DEF Untouched, Ensure
<1>13. CASE UNCHANGED vars
  BY <1>0, <1>13 DEF Untouched, vars
<1> QED
  BY <1>1, <1>2, <1>3, <1>4, <1>5, <1>6, <1>7, <1>8, <1>9, <1>10, <1>11, <1>12, <1>13
     DEF Next, CaptorStep, EraserStep

\* What the rows are after a step.
LEMMA RowsAfter ==
  ASSUME Inv, [Next]_vars
  PROVE  \/ meeting' = meeting
         \/ \E m \in Meetings, c \in Captors :
              /\ meeting[m].status = "none" /\ captor[c].pc = "insert"
              /\ Carrying(captor[c].grant) = {}
              /\ meeting'[m].status = "live" /\ meeting'[m].grant = captor[c].grant
              /\ \A n \in Meetings : n # m => meeting'[n] = meeting[n]
         \/ \E m \in Meetings :
              /\ meeting[m].status # "none" /\ meeting'[m].status # "none"
              /\ meeting'[m].grant = meeting[m].grant
              /\ \A n \in Meetings : n # m => meeting'[n] = meeting[n]
<1>0. meeting \in [Meetings -> RowType(grants)]
  BY DEF Inv, Types, GrantsOK
<1>1. ASSUME NEW m \in Meetings, NEW g,
             meeting' = [meeting EXCEPT ![m] = [status |-> "live", grant |-> g]]
      PROVE  /\ meeting'[m].status = "live" /\ meeting'[m].grant = g
             /\ \A n \in Meetings : n # m => meeting'[n] = meeting[n]
  BY <1>0, <1>1
<1>2. ASSUME NEW m \in Meetings, NEW s \in {"ended", "deleted"},
             meeting' = [meeting EXCEPT ![m].status = s]
      PROVE  /\ meeting'[m].status # "none" /\ meeting'[m].grant = meeting[m].grant
             /\ \A n \in Meetings : n # m => meeting'[n] = meeting[n]
  BY <1>0, <1>2 DEF RowType
<1>3. CASE \E m \in Meetings, c \in Captors :
             /\ meeting[m].status = "none" /\ captor[c].pc = "insert"
             /\ Carrying(captor[c].grant) = {}
             /\ meeting' = [meeting EXCEPT ![m] = [status |-> "live", grant |-> captor[c].grant]]
  <2>1. PICK m \in Meetings, c \in Captors :
          /\ meeting[m].status = "none" /\ captor[c].pc = "insert"
          /\ Carrying(captor[c].grant) = {}
          /\ meeting' = [meeting EXCEPT ![m] = [status |-> "live", grant |-> captor[c].grant]]
    BY <1>3
  <2>2. /\ meeting'[m].status = "live" /\ meeting'[m].grant = captor[c].grant
        /\ \A n \in Meetings : n # m => meeting'[n] = meeting[n]
    BY <1>1, <2>1
  <2> QED
    BY <2>1, <2>2
<1>4. CASE \E m \in Meetings, s \in {"ended", "deleted"} :
             meeting[m].status # "none" /\ meeting' = [meeting EXCEPT ![m].status = s]
  BY <1>2, <1>4
<1> QED
  BY <1>3, <1>4, RowSteps DEF RowStep

LEMMA RowsKept ==
  ASSUME Inv, [Next]_vars
  PROVE  Rows'
<1>0. Types /\ Rows /\ CaptorOK /\ GrantsOK
  BY DEF Inv, Types
<1>1. \A m \in Meetings : meeting'[m].status = "none" <=> meeting'[m].grant = 0
  BY <1>0, RowsAfter DEF Rows
<1>2. capture'.meeting # 0 =>
        capture'.grant # 0 /\ meeting'[capture'.meeting].grant = capture'.grant
  <2>1. CASE meeting' = meeting
    <3>1. CASE capture' = capture
      BY <1>0, <2>1, <3>1 DEF Rows
    <3>2. ASSUME NEW c \in Captors, Grant(c) PROVE capture'.meeting = 0
      BY <3>2 DEF Grant
    <3>3. ASSUME NEW c \in Captors, NEW m \in Meetings, captor[c].pc = "bind",
                 capture.grant = captor[c].grant, meeting[m].grant = captor[c].grant,
                 capture' = [capture EXCEPT !.meeting = m]
          PROVE  capture'.grant # 0 /\ meeting'[capture'.meeting].grant = capture'.grant
      <4>1. capture'.grant = capture.grant /\ capture'.meeting = m
        BY <1>0, <3>3 DEF GrantsOK
      <4> QED
        BY <1>0, <2>1, <3>3, <4>1 DEF Rows
    <3>4. CASE capture' = NoCapture
      BY <3>4 DEF NoCapture
    <3> QED
      BY <3>1, <3>2, <3>3, <3>4, RowSteps DEF CaptureStep
  <2>2. CASE capture' = capture /\ meeting' # meeting
    <3>1. capture.meeting # 0 => capture.meeting \in Meetings
      BY <1>0, BoundsAssumption DEF GrantsOK, Meetings
    <3>2. ASSUME NEW m \in Meetings, meeting[m].grant # 0
          PROVE  meeting'[m].grant = meeting[m].grant
      BY <1>0, <3>2, RowsAfter DEF Rows
    <3> QED
      BY <1>0, <2>2, <3>1, <3>2 DEF Rows
  <2> QED
    BY <2>1, <2>2, RowSteps
<1>3. \A c \in Captors : captor'[c].pc \in {"recover", "spawn", "insert", "fence", "bind"} =>
                           captor'[c].grant # 0
  <2> SUFFICES ASSUME NEW d \in Captors
               PROVE  captor'[d].pc \in {"recover", "spawn", "insert", "fence", "bind"} =>
                        captor'[d].grant # 0
    OBVIOUS
  <2> DEFINE One == captor'[d].pc \in {"recover", "spawn", "insert", "fence", "bind"} =>
                      captor'[d].grant # 0
  <2> USE DEF history
  <2>a. captor'[d] = captor[d] => One
    BY <1>0 DEF Rows
  <2>b. ASSUME NEW c \in Captors, CaptorGivesUp(c) PROVE One
    BY <2>a, <1>0, <2>b, CaptorStops DEF Idle, CaptorGivesUp, CaptorOK
  <2>c. ASSUME NEW c \in Captors, NEW pc, CaptorTo(c, pc),
               \/ captor[c].pc \in {"recover", "spawn", "insert", "fence", "bind"}
               \/ pc \notin {"recover", "spawn", "insert", "fence", "bind"}
        PROVE  One
    <3>1. CASE c # d
      BY <2>a, <1>0, <2>c, <3>1 DEF CaptorTo, CaptorOK
    <3>2. CASE c = d
      <4>1. captor'[d].pc = pc /\ captor'[d].grant = captor[d].grant
        BY <1>0, <2>c, <3>2 DEF CaptorTo, CaptorOK, CaptorType
      <4> QED
        BY <1>0, <2>c, <3>2, <4>1 DEF Rows
    <3> QED
      BY <3>1, <3>2
  <2>1. ASSUME NEW c \in Captors, CaptorAdmitted(c) PROVE One
    BY <2>c, <2>1 DEF CaptorAdmitted
  <2>2. ASSUME NEW c \in Captors, CaptorClaims(c) PROVE One
    <3>1. CASE CaptorGivesUp(c)
      BY <2>b, <3>1
    <3>2. CASE captor' = [captor EXCEPT ![c] =
                 [pc |-> "find", fence |-> ledger'["capture"].fence, grant |-> 0]]
      <4>1. captor'[d] = captor[d] \/ captor'[d].pc = "find"
        BY <1>0, <3>2 DEF CaptorOK
      <4> QED
        BY <2>a, <4>1
    <3> QED
      BY <2>2, <3>1, <3>2 DEF CaptorClaims
  <2>3. ASSUME NEW c \in Captors, CaptorFinds(c) PROVE One
    <3>1. PICK pc \in {"create", "seal", "recover"} :
            /\ captor' = [captor EXCEPT ![c] = [captor[c] EXCEPT !.pc = pc, !.grant = capture.grant]]
            /\ pc = "recover" => capture # NoCapture /\ capture.meeting = 0
      <4>1. CASE capture = NoCapture
        <5>1. captor' = [captor EXCEPT ![c] =
                           [captor[c] EXCEPT !.pc = "create", !.grant = capture.grant]]
          BY <1>0, <2>3, <4>1 DEF CaptorFinds, CaptorOK, NoCapture
        <5> QED
          BY <5>1
      <4>2. CASE capture # NoCapture /\ capture.meeting # 0
        BY <1>0, <2>3, <4>2 DEF CaptorFinds, CaptorOK
      <4>3. CASE capture # NoCapture /\ capture.meeting = 0
        BY <1>0, <2>3, <4>3 DEF CaptorFinds, CaptorOK
      <4> QED
        BY <4>1, <4>2, <4>3
    <3>2. pc = "recover" => capture.grant # 0
      BY <1>0, <3>1 DEF NoCapture, GrantsOK
    <3>3. captor'[d] = captor[d] \/ (captor'[d].pc = pc /\ captor'[d].grant = capture.grant)
      BY <1>0, <3>1 DEF CaptorOK, CaptorType
    <3> QED
      BY <2>a, <3>1, <3>2, <3>3
  <2>4. ASSUME NEW c \in Captors, CaptorCreates(c) PROVE One
    <3>1. CASE CaptorGivesUp(c)
      BY <2>b, <3>1
    <3>2. CASE Grant(c)
      <4>1. grants + 1 # 0 /\ grants' = grants + 1
        BY <1>0, <3>2 DEF Grant, GrantsOK
      <4>2. captor'[d] = captor[d] \/ captor'[d].grant = grants'
        <5> DEFINE g == grants'
        <5>1. captor' = [captor EXCEPT ![c] = [captor[c] EXCEPT !.pc = "recover", !.grant = g]]
          BY <1>0, <3>2 DEF Grant, CaptorOK
        <5> HIDE DEF g
        <5>2. captor'[d] = captor[d] \/ captor'[d].grant = g
          BY <1>0, <5>1 DEF CaptorOK, CaptorType
        <5> QED
          BY <5>2 DEF g
      <4> QED
        BY <2>a, <4>1, <4>2
    <3> QED
      BY <2>4, <3>1, <3>2 DEF CaptorCreates
  <2>5. ASSUME NEW c \in Captors, CaptorRecovers(c) PROVE One
    BY <2>c, <2>5 DEF CaptorRecovers
  <2>6. ASSUME NEW c \in Captors, CaptorFences(c) PROVE One
    <3>1. CASE CaptorGivesUp(c)
      BY <2>b, <3>1
    <3>2. ASSUME ~CaptorGivesUp(c) PROVE One
      <4>1. \/ captor[c].pc = "spawn" /\ CaptorTo(c, "insert")
            \/ captor[c].pc = "fence" /\ CaptorTo(c, "bind")
            \/ captor[c].pc = "seal" /\ CaptorTo(c, "complete")
        BY <2>6, <3>2 DEF CaptorFences
      <4> QED
        BY <2>c, <4>1
    <3> QED
      BY <3>1, <3>2
  <2>7. ASSUME NEW c \in Captors, CaptorSpawns(c) PROVE One
    BY <2>b, <2>c, <2>7 DEF CaptorSpawns
  <2>8. ASSUME NEW c \in Captors, CaptorBinds(c) PROVE One
    BY <2>b, <2>c, <2>8 DEF CaptorBinds
  <2>9. ASSUME NEW c \in Captors, CaptorCompletes(c) \/ CaptorFails(c) PROVE One
    BY <2>b, <2>9 DEF CaptorCompletes, CaptorFails
  <2>10. ASSUME NEW e \in Erasers, EraserStep(e) \/ EraserFails(e) PROVE One
    BY <2>a, <2>10 DEF EraserStep, EraserClaims, EraserOpensJournal, EraserRaisesBarrier,
       EraserLists, EraserTakesTarget, EraserWithdraws, EraserPlans, EraserPrepares,
       EraserDeletes, EraserChecksIn, EraserFinalizes, EraserClosesTarget,
       EraserErasesControl, EraserLowersBarrier, EraserCompletes, EraserFails
  <2>11. CASE \/ Ensure \/ \E m \in Meetings : MeetingEnds(m)
              \/ \E o \in Operation : LeaseExpires(o)
              \/ UNCHANGED vars
    BY <2>a, <2>11 DEF Ensure, MeetingEnds, LeaseExpires, vars
  <2> QED
    BY <2>1, <2>2, <2>3, <2>4, <2>5, <2>6, <2>7, <2>8, <2>9, <2>10, <2>11 DEF Next, CaptorStep
<1> QED
  BY <1>1, <1>2, <1>3 DEF Rows

LEMMA OneGrantKept ==
  ASSUME Inv, [Next]_vars
  PROVE  OneGrant'
<1>0. /\ Types /\ Rows /\ OneGrant /\ GrantsOK
      /\ \A m \in Meetings : meeting[m] \in RowType(grants)
  BY DEF Inv, Types, GrantsOK
<1>1. SUFFICES ASSUME ~Harmed'
               PROVE  /\ grants' <= 1 /\ (grants' = 1 => capture'.grant = 1)
                      /\ \A m, n \in Meetings :
                           meeting'[m].status # "none" /\ meeting'[n].status # "none" => m = n
  BY DEF OneGrant, Harmed
<1>2. ~Harmed
  BY <1>1, Lasts, RowSteps DEF Harmed
<1>3. /\ grants <= 1 /\ (grants = 1 => capture.grant = 1)
      /\ \A m, n \in Meetings : meeting[m].status # "none" /\ meeting[n].status # "none" => m = n
  BY <1>0, <1>2 DEF OneGrant
<1>4. grants' <= 1 /\ (grants' = 1 => capture'.grant = 1)
  <2>1. CASE capture' = capture /\ grants' = grants
    BY <1>3, <2>1
  <2>2. ASSUME NEW c \in Captors, capture = NoCapture, Grant(c)
        PROVE  grants' <= 1 /\ (grants' = 1 => capture'.grant = 1)
    <3>1. grants = 0
      BY <1>0, <1>3, <2>2 DEF GrantsOK, NoCapture
    <3> QED
      BY <2>2, <3>1 DEF Grant
  <2>3. ASSUME NEW m \in Meetings, capture' = [capture EXCEPT !.meeting = m], grants' = grants
        PROVE  grants' <= 1 /\ (grants' = 1 => capture'.grant = 1)
    BY <1>0, <1>3, <2>3 DEF GrantsOK
  <2>4. ~(/\ capture.meeting \in Meetings /\ meeting[capture.meeting].status = "deleted")
    BY <1>2 DEF Harmed
  <2>5. ~forgotten'
    BY <1>1 DEF Harmed
  <2> QED
    BY <2>1, <2>2, <2>3, <2>4, <2>5, RowSteps DEF CaptureStep
<1>5. ASSUME NEW a \in Meetings, NEW c \in Captors, captor[c].pc = "insert",
             Carrying(captor[c].grant) = {}, NEW n \in Meetings
      PROVE  meeting[n].status = "none"
  <2>1. captor[c].grant \in 0..grants /\ captor[c].grant # 0
    BY <1>0, <1>5 DEF Types, CaptorOK, CaptorType, Rows
  <2>2. captor[c].grant = 1 /\ grants = 1
    BY <1>0, <1>3, <2>1 DEF GrantsOK
  <2>3. meeting[n].status # "none" => meeting[n].grant = 1
    BY <1>0, <2>2 DEF Rows, RowType
  <2>4. meeting[n].status # "none" => Stored(n)
    BY <1>0, <1>2 DEF Stored, RowType, Harmed
  <2> QED
    BY <1>5, <2>2, <2>3, <2>4 DEF Carrying
<1>6. \A m, n \in Meetings :
        meeting'[m].status # "none" /\ meeting'[n].status # "none" => m = n
  BY <1>3, <1>5, RowsAfter
<1> QED
  BY <1>4, <1>6

LEMMA BarrierKept ==
  ASSUME Inv, [Next]_vars
  PROVE  Barrier'
<1>0. /\ Barrier /\ subject \in [state : {"active", "erasing", "erased"}, fence : Nat, policy : Policy]
      /\ \A e \in Erasers : eraser[e].pc # "idle" => eraser[e].fence # 0
  <2>1. L.fence \in Nat
    BY DEF Inv, Types, LedgerOK, LedgerType, L, Operation
  <2> QED
    BY <2>1 DEF Inv, Types, Erasure, Holders
<1>a. UNCHANGED subject => Barrier'
  BY <1>0 DEF Barrier
<1>1. ASSUME NEW c \in Captors, CaptorStep(c) \/ CaptorFails(c) PROVE Barrier'
  BY <1>a, <1>1 DEF CaptorStep, CaptorAdmitted, CaptorClaims, CaptorFinds, CaptorCreates,
     CaptorRecovers, CaptorFences, CaptorSpawns, CaptorBinds, CaptorCompletes, CaptorFails
<1>2. ASSUME NEW e \in Erasers, EraserRaisesBarrier(e) PROVE Barrier'
  <2>1. subject'.state = "erasing" /\ subject'.fence = eraser[e].fence /\ eraser[e].fence # 0
    BY <1>0, <1>2 DEF EraserRaisesBarrier
  <2> QED
    BY <2>1 DEF Barrier
<1>3. ASSUME NEW e \in Erasers, EraserLowersBarrier(e) PROVE Barrier'
  <2>1. CASE subject' = [subject EXCEPT !.state = "erased", !.fence = 0]
    <3>1. subject'.state = "erased" /\ subject'.fence = 0
      BY <1>0, <2>1
    <3> QED
      BY <3>1 DEF Barrier
  <2> QED
    BY <1>a, <1>3, <2>1 DEF EraserLowersBarrier
<1>4. ASSUME NEW e \in Erasers, EraserErasesControl(e) PROVE Barrier'
  <2>1. subject'.state = subject.state /\ subject'.fence = subject.fence
    BY <1>0, <1>4 DEF EraserErasesControl
  <2> QED
    BY <1>0, <2>1 DEF Barrier
<1>5. ASSUME NEW e \in Erasers,
             \/ EraserClaims(e) \/ EraserOpensJournal(e) \/ EraserLists(e) \/ EraserTakesTarget(e)
             \/ EraserWithdraws(e) \/ EraserPlans(e) \/ EraserPrepares(e) \/ EraserDeletes(e)
             \/ EraserChecksIn(e) \/ EraserFinalizes(e) \/ EraserClosesTarget(e)
             \/ EraserCompletes(e) \/ EraserFails(e)
      PROVE  Barrier'
  BY <1>a, <1>5 DEF EraserClaims, EraserOpensJournal, EraserLists, EraserTakesTarget,
     EraserWithdraws, EraserPlans, EraserPrepares, EraserDeletes, EraserChecksIn,
     EraserFinalizes, EraserClosesTarget, EraserCompletes, EraserFails
<1>6. CASE Ensure
  <2>1. subject'.state = "active" /\ subject'.fence = 0
    BY <1>6 DEF Ensure
  <2> QED
    BY <2>1 DEF Barrier
<1>7. CASE \/ \E m \in Meetings : MeetingEnds(m)
           \/ \E o \in Operation : LeaseExpires(o)
           \/ UNCHANGED vars
  BY <1>a, <1>7 DEF MeetingEnds, LeaseExpires, vars
<1> QED
  BY <1>1, <1>2, <1>3, <1>4, <1>5, <1>6, <1>7 DEF Next, EraserStep

-----------------------------------------------------------------------------
LEMMA InvKept == Inv /\ [Next]_vars => Inv'
<1> SUFFICES ASSUME Inv, [Next]_vars PROVE Inv'
  OBVIOUS
<1>1. Types /\ HasTarget
  BY DEF Inv, Erasure
<1>2. Types'
  BY <1>1, TypesKept
<1>3. Erasure'
  BY HasTargetKept, HoldersKept, JournalsTellKept, DeletedCountedKept, TargetsKept,
     FinishingKept, ReceiptHoldsKept DEF Erasure
<1> QED
  BY <1>2, <1>3, RowsKept, OneGrantKept, BarrierKept DEF Inv

LEMMA Invariant == Spec => []Inv
  BY InitInv, InvKept, PTL DEF Spec

\* The ledger, the barrier, the journals and the captures of a subject hold what
\* their tables and CHECKs allow, a fence stands in the row exactly while the
\* barrier is up, and a bound capture names a meeting that carries its id.
THEOREM TypesHold == Spec => []TypeOK
<1>1. Inv => TypeOK
  <2> SUFFICES ASSUME Inv PROVE TypeOK
    OBVIOUS
  <2>1. LedgerOK /\ EraserOK /\ CaptorOK /\ GrantsOK /\ CountsOK
    BY DEF Inv, Types
  <2>2. (subject.state = "erasing") = (subject.fence # 0)
    BY DEF Inv, Barrier
  <2>3. capture.meeting # 0 => meeting[capture.meeting].grant = capture.grant
    BY DEF Inv, Rows
  <2> QED
    BY <2>1, <2>2, <2>3
       DEF Inv, Types, TypeOK, LedgerOK, EraserOK, CaptorOK, GrantsOK, CountsOK, LedgerType,
           EraserType, CaptorType, RowType, Journal
<1> QED
  BY <1>1, Invariant, PTL

\* One capture operation puts one bot into the meeting for as long as nothing of
\* the subject is erased: whoever takes it over finds the grant of the one before,
\* and a row that carries it.
THEOREM OneBot == Spec => []OneBotPerOperation
<1>1. Inv => OneBotPerOperation
  <2> SUFFICES ASSUME Inv, ~Harmed
               PROVE  Cardinality({m \in Meetings : meeting[m].status # "none"}) <= 1
    BY DEF OneBotPerOperation, Harmed
  <2> DEFINE S == {m \in Meetings : meeting[m].status # "none"}
  <2>1. \A m, n \in S : m = n
    BY DEF Inv, OneGrant
  <2>2. S = {} \/ \E m : S = {m}
    BY <2>1
  <2>3. Cardinality(S) = 0 \/ Cardinality(S) = 1
    BY <2>2, FS_EmptySet, FS_Singleton
  <2> QED
    BY <2>3
<1> QED
  BY <1>1, Invariant, PTL

\* A receipt of an account erasure counts the meetings that were deleted, no more
\* and no less: what a slow executor notes, it notes under a fence that is its own,
\* in the journal its successors were given.
THEOREM ReceiptIsExact == Spec => []ReceiptCountsWhatWasErased
<1>1. Inv => ReceiptCountsWhatWasErased
  BY DEF Inv, Erasure, ReceiptHolds, DeletedCounted, ReceiptCountsWhatWasErased, L
<1> QED
  BY <1>1, Invariant, PTL
=============================================================================
