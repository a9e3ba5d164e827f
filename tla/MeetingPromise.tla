--------------------------- MODULE MeetingPromise ---------------------------
(***************************************************************************)
(* What meeting-api promises about the runs (sessions) of a meeting: each  *)
(* run is concluded at most once, with the right verdict, and its end is   *)
(* announced once, after it is concluded.  A service that forgets what it  *)
(* concluded in memory still never announces it again.                     *)
(***************************************************************************)
CONSTANT Runs

VARIABLES seat,     \* runs whose bot was admitted to the meeting
          asked,    \* a user asked for the meeting to stop
          verdict,  \* verdict[r]: how run r ended
          told      \* runs whose end was announced

vars == <<seat, asked, verdict, told>>

Verdict == {"none", "clean", "stopped", "failed"}

TypeOK ==
  /\ seat \subseteq Runs
  /\ asked \in BOOLEAN
  /\ verdict \in [Runs -> Verdict]
  /\ told \subseteq Runs

Init ==
  /\ seat = {}
  /\ asked = FALSE
  /\ verdict = [r \in Runs |-> "none"]
  /\ told = {}

Admit(r) ==
  /\ seat' = seat \cup {r}
  /\ UNCHANGED <<asked, verdict, told>>

Ask ==
  /\ asked' = TRUE
  /\ UNCHANGED <<seat, verdict, told>>

\* A clean end needs a bot that was in the meeting, a stopped one a user.
Conclude(r, v) ==
  /\ verdict[r] = "none" /\ v # "none"
  /\ v = "clean" => r \in seat
  /\ v = "stopped" => asked
  /\ verdict' = [verdict EXCEPT ![r] = v]
  /\ UNCHANGED <<seat, asked, told>>

Tell(r) ==
  /\ verdict[r] # "none" /\ r \notin told
  /\ told' = told \cup {r}
  /\ UNCHANGED <<seat, asked, verdict>>

Forget ==
  /\ verdict' = [r \in Runs |-> "none"]
  /\ UNCHANGED <<seat, asked, told>>

Next ==
  \/ \E r \in Runs : \/ Admit(r) \/ Tell(r)
                     \/ \E v \in Verdict : Conclude(r, v)
  \/ Ask \/ Forget

Spec == Init /\ [][Next]_vars
=============================================================================
