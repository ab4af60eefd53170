---------------------------- MODULE DurableJobs ----------------------------
(***************************************************************************)
(* What internal/jobs promises a caller, with leases, owners, clocks and   *)
(* wake-ups left out: a job accepted once is attempted at most MaxAttempts *)
(* times, only a running attempt can settle it, success and failure are    *)
(* final, and failure is declared only when no attempt is left.            *)
(***************************************************************************)
EXTENDS Naturals

CONSTANTS Job, MaxAttempts

VARIABLES phase, tries

vars == <<phase, tries>>

Init == phase = [j \in Job |-> "absent"] /\ tries = [j \in Job |-> 0]

Submit(j) ==
  /\ phase[j] = "absent"
  /\ phase' = [phase EXCEPT ![j] = "waiting"]
  /\ UNCHANGED tries

Start(j) ==
  /\ phase[j] = "waiting"
  /\ tries[j] < MaxAttempts
  /\ phase' = [phase EXCEPT ![j] = "running"]
  /\ tries' = [tries EXCEPT ![j] = @ + 1]

Succeed(j) ==
  /\ phase[j] = "running"
  /\ phase' = [phase EXCEPT ![j] = "done"]
  /\ UNCHANGED tries

\* Where a lost attempt leaves its job.
AfterLoss(n) == IF n < MaxAttempts THEN "waiting" ELSE "failed"

\* One sweep of the lease reaper may take several running attempts away.
Lose(S) ==
  /\ S # {} /\ \A j \in S : phase[j] = "running"
  /\ phase' = [j \in Job |-> IF j \in S THEN AfterLoss(tries[j]) ELSE phase[j]]
  /\ UNCHANGED tries

Next ==
  \/ \E j \in Job : Submit(j) \/ Start(j) \/ Succeed(j)
  \/ \E S \in SUBSET Job : Lose(S)

Spec == Init /\ [][Next]_vars
=============================================================================
