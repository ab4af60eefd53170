----------------------------- MODULE LeasedJobs -----------------------------
(***************************************************************************)
(* internal/jobs: durable jobs in PostgreSQL, executed under leases.       *)
(* A row of alexandria_jobs is claimed by setting its owner and lease and  *)
(* counting an attempt; the result is written back only while the row is   *)
(* still leased by that owner for that attempt.  Every action is one SQL   *)
(* statement or one step of a worker between two statements.               *)
(***************************************************************************)
EXTENDS Naturals, FiniteSets

CONSTANTS
  Job,          \* idempotency keys; a row per key
  Worker,       \* worker invocations that may run at the same time
  Poller,       \* the workers that poll (WorkOnce); the rest run by wake-up
  Owner,        \* lease_owner names
  OwnerOf,      \* the name a worker leases under; invocations may share one
  MaxAttempts,  \* max_attempts of every job
  NoOwner

ASSUME JobsAssumption ==
  /\ MaxAttempts \in Nat \ {0}
  /\ Poller \subseteq Worker
  /\ OwnerOf \in [Worker -> Owner]
  /\ NoOwner \notin Owner

VARIABLES
  row,        \* alexandria_jobs
  claim,      \* what each worker holds in memory
  unlaunched, \* jobs whose creating request has yet to call the launcher
  wakeup,     \* launched executions that have not started
  succeeded   \* history: attempts whose handler returned no error

vars == <<row, claim, unlaunched, wakeup, succeeded>>

Statuses == {"absent", "pending", "leased", "done", "failed"}

Row == [status : Statuses, owner : Owner \cup {NoOwner}, attempts : 0..MaxAttempts,
        due : BOOLEAN, expired : BOOLEAN]

NoClaim == [phase |-> "idle"]

\* phase: "chosen" (WorkOnce read its id), "running", "ok" or "error" (handler returned).
Claim == {NoClaim} \cup [phase : {"chosen"}, job : Job, attempt : {0}]
                   \cup [phase : {"running", "ok", "error"}, job : Job, attempt : 1..MaxAttempts]

TypeOK ==
  /\ row \in [Job -> Row]
  /\ claim \in [Worker -> Claim]
  /\ unlaunched \subseteq Job
  /\ wakeup \subseteq Job
  /\ succeeded \in [Job -> SUBSET (1..MaxAttempts)]

Init ==
  /\ row = [j \in Job |-> [status |-> "absent", owner |-> NoOwner, attempts |-> 0,
                           due |-> TRUE, expired |-> FALSE]]
  /\ claim = [w \in Worker |-> NoClaim]
  /\ unlaunched = {}
  /\ wakeup = {}
  /\ succeeded = [j \in Job |-> {}]

-----------------------------------------------------------------------------
(* Submission: Service.Enqueue.  A repeated key returns the stored id and   *)
(* launches nothing, so it is a stuttering step.                            *)

Enqueue(j) ==
  /\ row[j].status = "absent"
  /\ row' = [row EXCEPT ![j].status = "pending"]
  /\ unlaunched' = unlaunched \cup {j}
  /\ UNCHANGED <<claim, wakeup, succeeded>>

\* The scheduler accepted the job.
Launch(j) ==
  /\ j \in unlaunched
  /\ unlaunched' = unlaunched \ {j}
  /\ wakeup' = wakeup \cup {j}
  /\ UNCHANGED <<row, claim, succeeded>>

\* The submit call failed, or the request died before it: the row stays pending.
LaunchFails(j) ==
  /\ j \in unlaunched
  /\ unlaunched' = unlaunched \ {j}
  /\ UNCHANGED <<row, claim, wakeup, succeeded>>

-----------------------------------------------------------------------------
(* Claiming.                                                                *)

\* Fault: the row is not checked again when it is claimed by id.
ClaimableWhenDue(j) == row[j].due

Claimable(j) ==
  /\ row[j].status = "pending"
  /\ row[j].due
  /\ row[j].attempts < MaxAttempts

LeasedTo(w, j) ==
  [row[j] EXCEPT !.status = "leased", !.owner = OwnerOf[w], !.expired = FALSE,
                 !.attempts = row[j].attempts + 1]

\* ClaimID: nothing changes and the worker goes idle when the row is not claimable.
ClaimID(w, j) ==
  /\ IF Claimable(j)
     THEN /\ row' = [row EXCEPT ![j] = LeasedTo(w, j)]
          /\ claim' = [claim EXCEPT ![w] = [phase |-> "running", job |-> j,
                                            attempt |-> row[j].attempts + 1]]
     ELSE /\ claim' = [claim EXCEPT ![w] = NoClaim]
          /\ UNCHANGED row
  /\ UNCHANGED <<unlaunched, succeeded>>

\* WorkOnce reads the id of a due job ...
Choose(w, j) ==
  /\ w \in Poller
  /\ claim[w] = NoClaim
  /\ Claimable(j)
  /\ claim' = [claim EXCEPT ![w] = [phase |-> "chosen", job |-> j, attempt |-> 0]]
  /\ UNCHANGED <<row, unlaunched, wakeup, succeeded>>

\* ... and then runs it by id; another worker may have taken it in between.
RunChosen(w) ==
  /\ claim[w].phase = "chosen"
  /\ ClaimID(w, claim[w].job)
  /\ UNCHANGED wakeup

\* A launched execution starts; the scheduler may start it again later.
RunWakeup(w, j) ==
  /\ w \notin Poller
  /\ claim[w] = NoClaim
  /\ j \in wakeup
  /\ ClaimID(w, j)
  /\ wakeup' \in {wakeup, wakeup \ {j}}

\* Runner.Run: Store.Claim selects and leases in one statement.
ClaimNext(w, j) ==
  /\ w \in Poller
  /\ claim[w] = NoClaim
  /\ Claimable(j)
  /\ ClaimID(w, j)
  /\ UNCHANGED wakeup

-----------------------------------------------------------------------------
(* Executing and reporting.                                                 *)

Handle(w, verdict) ==
  /\ claim[w].phase = "running"
  /\ claim' = [claim EXCEPT ![w].phase = verdict]
  /\ succeeded' = IF verdict = "ok"
                  THEN [succeeded EXCEPT ![claim[w].job] = @ \cup {claim[w].attempt}]
                  ELSE succeeded
  /\ UNCHANGED <<row, unlaunched, wakeup>>

\* Fault: the lease is recognised by its owner's name alone.
HoldsByOwner(w) ==
  /\ row[claim[w].job].status = "leased"
  /\ row[claim[w].job].owner = OwnerOf[w]

\* The WHERE clause of Complete and Fail.
Holds(w) ==
  /\ row[claim[w].job].status = "leased"
  /\ row[claim[w].job].owner = OwnerOf[w]
  /\ row[claim[w].job].attempts = claim[w].attempt

Released(r, status) == [r EXCEPT !.status = status, !.owner = NoOwner, !.expired = FALSE]

\* Complete; when the lease is lost the row is left alone (ErrLeaseLost).
Complete(w) ==
  /\ claim[w].phase = "ok"
  /\ row' = IF Holds(w) THEN [row EXCEPT ![claim[w].job] = Released(@, "done")] ELSE row
  /\ claim' = [claim EXCEPT ![w] = NoClaim]
  /\ UNCHANGED <<unlaunched, wakeup, succeeded>>

\* Fault: the limit is not applied to failures.
RetryForever(attempts) == "pending"

AfterFailure(attempts) == IF attempts >= MaxAttempts THEN "failed" ELSE "pending"

\* Fail: back to pending after a delay while an attempt is left.
Fail(w) ==
  /\ claim[w].phase = "error"
  /\ row' = IF Holds(w)
            THEN [row EXCEPT ![claim[w].job] =
                   [Released(@, AfterFailure(claim[w].attempt)) EXCEPT
                     !.due = AfterFailure(claim[w].attempt) # "pending"]]
            ELSE row
  /\ claim' = [claim EXCEPT ![w] = NoClaim]
  /\ UNCHANGED <<unlaunched, wakeup, succeeded>>

-----------------------------------------------------------------------------
(* Time, crashes and maintenance.                                           *)

\* available_at passes.
BecomeDue(j) ==
  /\ ~row[j].due
  /\ row' = [row EXCEPT ![j].due = TRUE]
  /\ UNCHANGED <<claim, unlaunched, wakeup, succeeded>>

\* lease_until passes; the worker may well be alive and slow.
LeaseExpires(j) ==
  /\ row[j].status = "leased" /\ ~row[j].expired
  /\ row' = [row EXCEPT ![j].expired = TRUE]
  /\ UNCHANGED <<claim, unlaunched, wakeup, succeeded>>

Crash(w) ==
  /\ claim[w] # NoClaim
  /\ claim' = [claim EXCEPT ![w] = NoClaim]
  /\ UNCHANGED <<row, unlaunched, wakeup, succeeded>>

\* Fault: leases on the last attempt are never reaped.
ExpiredUnspent == {j \in Job : row[j].status = "leased" /\ row[j].expired /\ row[j].attempts < MaxAttempts}

Expired == {j \in Job : row[j].status = "leased" /\ row[j].expired}

\* RequeueExpired, one statement over every expired row.
RequeueExpired ==
  /\ Expired # {}
  /\ row' = [j \in Job |-> IF j \in Expired
                           THEN Released(row[j], AfterFailure(row[j].attempts)) ELSE row[j]]
  /\ UNCHANGED <<claim, unlaunched, wakeup, succeeded>>

-----------------------------------------------------------------------------
WorkerStep(w) ==
  \/ RunChosen(w) \/ Complete(w) \/ Fail(w)
  \/ \E verdict \in {"ok", "error"} : Handle(w, verdict)

Next ==
  \/ \E j \in Job : Enqueue(j) \/ Launch(j) \/ LaunchFails(j) \/ BecomeDue(j) \/ LeaseExpires(j)
  \/ \E w \in Worker : WorkerStep(w) \/ Crash(w)
  \/ \E w \in Worker, j \in Job : Choose(w, j) \/ ClaimNext(w, j) \/ RunWakeup(w, j)
  \/ RequeueExpired

Spec == Init /\ [][Next]_vars

\* A poller takes job j, by either of the two polling paths.
Poll(w, j) == ClaimNext(w, j) \/ (claim[w].phase = "chosen" /\ claim[w].job = j /\ RunChosen(w))

(* Clocks advance; Reconcile runs at every turn of the worker loop; a live  *)
(* poller takes the oldest due job, so a due job is not passed over forever;*)
(* a handler returns (it is given a context, and a crash frees the worker). *)
(* Nothing is assumed of crashes, or of the launcher.                       *)
Fairness ==
  /\ \A j \in Job : WF_vars(BecomeDue(j)) /\ WF_vars(LeaseExpires(j))
  /\ \A w \in Worker : WF_vars(WorkerStep(w))
  /\ \A j \in Job : SF_vars(\E w \in Poller : Poll(w, j))
  /\ \A j \in Job : SF_vars(\E w \in Worker : RunWakeup(w, j))
  /\ WF_vars(RequeueExpired)

FairSpec == Spec /\ Fairness

-----------------------------------------------------------------------------
(* Properties.                                                              *)

\* A worker whose claim is still the one the row records.
Current(w) == claim[w].phase \in {"running", "ok", "error"} /\ Holds(w)

\* No two invocations hold one job at once, whatever names they lease under
\* and however late they are: the attempt number separates them.
OneHolder ==
  \A v, w \in Worker : v # w /\ Current(v) /\ Current(w) => claim[v].job # claim[w].job

\* A job is done only if the attempt the row counts last is one whose handler
\* succeeded: a slow worker's success never settles a later worker's attempt.
DoneByLastAttempt ==
  \A j \in Job : row[j].status = "done" => row[j].attempts \in succeeded[j]

AbstractPhase ==
  [j \in Job |-> CASE row[j].status = "pending" -> "waiting"
                   [] row[j].status = "leased"  -> "running"
                   [] OTHER -> row[j].status]

Abstract == INSTANCE DurableJobs WITH phase <- AbstractPhase,
                                      tries <- [j \in Job |-> row[j].attempts]

\* The leased queue implements the abstract job: bounded attempts, final outcome.
ImplementsDurableJobs == Abstract!Spec

\* Every accepted job is eventually settled, through crashes, lost leases and
\* failed launches, when somebody polls.  ("Reconciliation can launch it later",
\* launcher.go says of a failed launch: without a poller nothing does.)
EverySubmissionSettles ==
  \A j \in Job : row[j].status # "absent" ~> row[j].status \in {"done", "failed"}
=============================================================================
