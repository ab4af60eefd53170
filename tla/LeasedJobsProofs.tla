-------------------------- MODULE LeasedJobsProofs --------------------------
(***************************************************************************)
(* Proofs about LeasedJobs, for any sets of jobs and workers, any way of   *)
(* naming the workers and any limit of attempts.                           *)
(***************************************************************************)
EXTENDS LeasedJobs, TLAPS

Active(w) == claim[w].phase \in {"running", "ok", "error"}

\* An attempt held in memory was counted, and no other worker holds the same one.
ClaimsCounted ==
  \A w \in Worker : Active(w) => claim[w].attempt <= row[claim[w].job].attempts

ClaimsDistinct ==
  \A v, w \in Worker :
    v # w /\ Active(v) /\ Active(w) /\ claim[v].job = claim[w].job
      => claim[v].attempt # claim[w].attempt

\* A success about to be reported is on record.
SuccessRecorded ==
  \A w \in Worker : claim[w].phase = "ok" => claim[w].attempt \in succeeded[claim[w].job]

IInv == TypeOK /\ ClaimsCounted /\ ClaimsDistinct /\ SuccessRecorded /\ DoneByLastAttempt

LEMMA ClaimCases ==
  ASSUME TypeOK, NEW w \in Worker
  PROVE  /\ claim[w] = NoClaim \/ claim[w].phase # "idle"
         /\ claim[w].phase = "chosen" => claim[w].job \in Job
         /\ Active(w) => claim[w].job \in Job /\ claim[w].attempt \in 1..MaxAttempts
         /\ claim[w] = NoClaim => ~Active(w) /\ claim[w].phase = "idle"
  BY DEF TypeOK, Claim, NoClaim, Active

\* The initial state satisfies the invariant.
LEMMA InitInv == Init => IInv
  <1> SUFFICES ASSUME Init PROVE IInv
    OBVIOUS
  <1> USE JobsAssumption DEF JobsAssumption, Init
  <1>1. TypeOK
    BY DEF TypeOK, Row, Statuses, Claim
  <1>2. ClaimsCounted /\ ClaimsDistinct /\ SuccessRecorded
    BY DEF ClaimsCounted, ClaimsDistinct, SuccessRecorded, Active, NoClaim
  <1>3. DoneByLastAttempt
    BY DEF DoneByLastAttempt
  <1> QED BY <1>1, <1>2, <1>3 DEF IInv

\* Claiming by id: the only step that counts an attempt.
LEMMA ClaimIDInv ==
  ASSUME IInv, NEW w \in Worker, NEW j \in Job, ClaimID(w, j), wakeup' \subseteq Job
  PROVE  IInv'
  <1> USE JobsAssumption DEF JobsAssumption, ClaimID
  <1>1. TypeOK /\ ClaimsCounted /\ ClaimsDistinct /\ SuccessRecorded /\ DoneByLastAttempt
    BY DEF IInv
  <1>2. CASE Claimable(j)
    <2>1. /\ row' = [row EXCEPT ![j] = LeasedTo(w, j)]
          /\ claim' = [claim EXCEPT ![w] = [phase |-> "running", job |-> j,
                                            attempt |-> row[j].attempts + 1]]
          /\ unlaunched' = unlaunched /\ succeeded' = succeeded
      BY <1>2
    <2>2. /\ row[j] \in Row /\ row[j].attempts \in 0..MaxAttempts
          /\ row[j].attempts + 1 \in 1..MaxAttempts
          /\ row[j].status = "pending"
      BY <1>1, <1>2 DEF TypeOK, Row, Claimable
    <2>3. LeasedTo(w, j) \in Row
      <3>1. OwnerOf[w] \in Owner /\ row[j].attempts + 1 \in 0..MaxAttempts
        BY <2>2
      <3>2. row[j] \in Row
        BY <2>2
      <3> QED BY <3>1, <3>2 DEF LeasedTo, Row, Statuses
    <2>4. TypeOK'
      BY <1>1, <2>1, <2>2, <2>3 DEF TypeOK, Claim
    <2>5. /\ \A k \in Job : k # j => row'[k] = row[k]
          /\ row'[j].attempts = row[j].attempts + 1 /\ row'[j].status = "leased"
      BY <1>1, <2>1, <2>2, <2>3 DEF TypeOK, Row, LeasedTo
    <2>6. /\ \A v \in Worker : v # w => claim'[v] = claim[v]
          /\ claim'[w] = [phase |-> "running", job |-> j, attempt |-> row[j].attempts + 1]
      BY <1>1, <2>1 DEF TypeOK
    <2>7. \A v \in Worker : Active(v) => /\ claim[v].attempt \in Nat /\ claim[v].job \in Job
                                         /\ row[claim[v].job].attempts \in Nat
      BY <1>1, ClaimCases DEF TypeOK, Row
    <2>8. ClaimsCounted'
      BY <1>1, <2>2, <2>5, <2>6, <2>7 DEF ClaimsCounted, Active
    <2>9. ClaimsDistinct'
      BY <1>1, <2>2, <2>5, <2>6, <2>7 DEF ClaimsDistinct, ClaimsCounted, Active
    <2>10. SuccessRecorded'
      BY <1>1, <2>1, <2>6 DEF SuccessRecorded
    <2>11. DoneByLastAttempt'
      BY <1>1, <2>1, <2>5 DEF DoneByLastAttempt
    <2> QED BY <2>4, <2>8, <2>9, <2>10, <2>11 DEF IInv
  <1>3. CASE ~Claimable(j)
    <2>1. /\ row' = row /\ claim' = [claim EXCEPT ![w] = NoClaim]
          /\ unlaunched' = unlaunched /\ succeeded' = succeeded
      BY <1>3
    <2>2. TypeOK'
      BY <1>1, <2>1 DEF TypeOK, Claim
    <2>3. /\ \A v \in Worker : v # w => claim'[v] = claim[v]
          /\ claim'[w] = NoClaim
      BY <1>1, <2>1 DEF TypeOK
    <2>4. ClaimsCounted' /\ ClaimsDistinct' /\ SuccessRecorded'
      BY <1>1, <2>1, <2>3
         DEF ClaimsCounted, ClaimsDistinct, SuccessRecorded, Active, NoClaim
    <2>5. DoneByLastAttempt'
      BY <1>1, <2>1 DEF DoneByLastAttempt
    <2> QED BY <2>2, <2>4, <2>5 DEF IInv
  <1> QED BY <1>2, <1>3

\* A worker that goes idle, or that moves on without touching the rows.
LEMMA ReleaseInv ==
  ASSUME IInv, NEW w \in Worker, NEW status \in Statuses, NEW due \in BOOLEAN,
         claim[w].job \in Job, Holds(w),
         status = "done" => claim[w].phase = "ok",
         row' = [row EXCEPT ![claim[w].job] = [Released(@, status) EXCEPT !.due = due]],
         claim' = [claim EXCEPT ![w] = NoClaim],
         UNCHANGED <<unlaunched, wakeup, succeeded>>
  PROVE  IInv'
  <1> DEFINE j == claim[w].job
  <1>1. TypeOK /\ ClaimsCounted /\ ClaimsDistinct /\ SuccessRecorded /\ DoneByLastAttempt
    BY DEF IInv
  <1>2. row[j] \in Row
    BY <1>1 DEF TypeOK
  <1>3. [Released(row[j], status) EXCEPT !.due = due] \in Row
    BY <1>2 DEF Released, Row
  <1>4. row' \in [Job -> Row] /\ claim' \in [Worker -> Claim]
    BY <1>1, <1>3 DEF TypeOK, Claim
  <1>5. TypeOK'
    BY <1>1, <1>4 DEF TypeOK
  <1>6. /\ \A k \in Job : row'[k].attempts = row[k].attempts
        /\ \A k \in Job : k # j => row'[k] = row[k]
        /\ row'[j].status = status
    BY <1>1, <1>2 DEF TypeOK, Released, Row
  <1>7. /\ \A v \in Worker : v # w => claim'[v] = claim[v]
        /\ claim'[w] = NoClaim
    BY <1>1 DEF TypeOK
  <1>8. \A v \in Worker : Active(v) => claim[v].job \in Job
    BY <1>1, ClaimCases
  <1>9. ClaimsCounted' /\ ClaimsDistinct' /\ SuccessRecorded'
    BY <1>1, <1>6, <1>7, <1>8
       DEF ClaimsCounted, ClaimsDistinct, SuccessRecorded, Active, NoClaim
  <1>10. status = "done" => row[j].attempts \in succeeded[j]
    BY <1>1 DEF SuccessRecorded, Holds
  <1>11. DoneByLastAttempt'
    BY <1>1, <1>6, <1>10 DEF DoneByLastAttempt
  <1> QED BY <1>5, <1>9, <1>11 DEF IInv

\* Steps that leave the rows alone and only forget claims.
LEMMA ForgetInv ==
  ASSUME IInv, NEW w \in Worker, claim' = [claim EXCEPT ![w] = NoClaim],
         UNCHANGED <<row, unlaunched, wakeup, succeeded>>
  PROVE  IInv'
  <1>1. TypeOK /\ ClaimsCounted /\ ClaimsDistinct /\ SuccessRecorded /\ DoneByLastAttempt
    BY DEF IInv
  <1>2. TypeOK'
    BY <1>1 DEF TypeOK, Claim
  <1>3. /\ \A v \in Worker : v # w => claim'[v] = claim[v]
        /\ claim'[w] = NoClaim
    BY <1>1 DEF TypeOK
  <1>4. ClaimsCounted' /\ ClaimsDistinct' /\ SuccessRecorded' /\ DoneByLastAttempt'
    BY <1>1, <1>3
       DEF ClaimsCounted, ClaimsDistinct, SuccessRecorded, DoneByLastAttempt, Active, NoClaim
  <1> QED BY <1>2, <1>4 DEF IInv

\* Steps on the rows that keep attempts and finish nothing.
LEMMA RowInv ==
  ASSUME IInv, row' \in [Job -> Row], unlaunched' \subseteq Job, wakeup' \subseteq Job,
         \A k \in Job : row'[k].attempts = row[k].attempts,
         \A k \in Job : row'[k].status = "done" => row[k].status = "done",
         UNCHANGED <<claim, succeeded>>
  PROVE  IInv'
  <1>1. TypeOK /\ ClaimsCounted /\ ClaimsDistinct /\ SuccessRecorded /\ DoneByLastAttempt
    BY DEF IInv
  <1>2. TypeOK'
    BY <1>1 DEF TypeOK
  <1>3. \A v \in Worker : Active(v) => claim[v].job \in Job
    BY <1>1, ClaimCases
  <1>4. ClaimsCounted' /\ ClaimsDistinct' /\ SuccessRecorded' /\ DoneByLastAttempt'
    BY <1>1, <1>3 DEF ClaimsCounted, ClaimsDistinct, SuccessRecorded, DoneByLastAttempt, Active
  <1> QED BY <1>2, <1>4 DEF IInv

LEMMA NextInv == IInv /\ [Next]_vars => IInv'
  <1> SUFFICES ASSUME IInv, [Next]_vars PROVE IInv'
    OBVIOUS
  <1> USE JobsAssumption DEF JobsAssumption
  <1>t. TypeOK /\ row \in [Job -> Row] /\ unlaunched \subseteq Job /\ wakeup \subseteq Job
    BY DEF IInv, TypeOK
  <1>1. ASSUME NEW j \in Job, Enqueue(j) PROVE IInv'
    <2>1. row' \in [Job -> Row] /\ unlaunched' \subseteq Job
      BY <1>1, <1>t DEF Enqueue, Row, Statuses
    <2>2. \A k \in Job : row'[k].attempts = row[k].attempts /\ (row'[k].status = "done" => row[k].status = "done")
      BY <1>1, <1>t DEF Enqueue, Row
    <2> QED BY <1>1, <1>t, <2>1, <2>2, RowInv DEF Enqueue
  <1>2. ASSUME NEW j \in Job, Launch(j) \/ LaunchFails(j) PROVE IInv'
    BY <1>2, <1>t, RowInv DEF Launch, LaunchFails
  <1>3. ASSUME NEW j \in Job, BecomeDue(j) \/ LeaseExpires(j) PROVE IInv'
    <2>1. row' \in [Job -> Row]
      <3>1. [row[j] EXCEPT !.due = TRUE] \in Row /\ [row[j] EXCEPT !.expired = TRUE] \in Row
        BY <1>t DEF Row
      <3> QED BY <1>3, <1>t, <3>1 DEF BecomeDue, LeaseExpires
    <2>2. \A k \in Job : row'[k].attempts = row[k].attempts /\ row'[k].status = row[k].status
      <3>1. CASE BecomeDue(j)
        BY <3>1, <1>t DEF BecomeDue, Row
      <3>2. CASE LeaseExpires(j)
        BY <3>2, <1>t DEF LeaseExpires, Row
      <3> QED BY <1>3, <3>1, <3>2
    <2> QED BY <1>3, <1>t, <2>1, <2>2, RowInv DEF BecomeDue, LeaseExpires
  <1>4. ASSUME NEW w \in Worker, RunChosen(w) PROVE IInv'
    <2>1. claim[w].job \in Job
      BY <1>4, <1>t, ClaimCases DEF RunChosen
    <2> QED BY <1>4, <1>t, <2>1, ClaimIDInv DEF RunChosen
  <1>5. ASSUME NEW w \in Worker, NEW j \in Job, ClaimNext(w, j) \/ RunWakeup(w, j) PROVE IInv'
    <2>1. wakeup' \subseteq Job
      BY <1>5, <1>t DEF ClaimNext, RunWakeup
    <2> QED BY <1>5, <2>1, ClaimIDInv DEF ClaimNext, RunWakeup
  <1>6. ASSUME NEW w \in Worker, NEW j \in Job, Choose(w, j) PROVE IInv'
    <2>1. TypeOK'
      BY <1>6, <1>t DEF Choose, TypeOK, Claim
    <2>2. /\ \A v \in Worker : v # w => claim'[v] = claim[v]
          /\ claim'[w] = [phase |-> "chosen", job |-> j, attempt |-> 0]
      BY <1>6, <1>t DEF Choose, TypeOK
    <2>3. ClaimsCounted' /\ ClaimsDistinct' /\ SuccessRecorded' /\ DoneByLastAttempt'
      BY <1>6, <2>2
         DEF Choose, IInv, ClaimsCounted, ClaimsDistinct, SuccessRecorded, DoneByLastAttempt, Active
    <2> QED BY <2>1, <2>3 DEF IInv
  <1>7. ASSUME NEW w \in Worker, NEW verdict \in {"ok", "error"}, Handle(w, verdict) PROVE IInv'
    <2>1. Active(w) /\ claim[w].job \in Job /\ claim[w].attempt \in 1..MaxAttempts
      BY <1>7, <1>t, ClaimCases DEF Handle, Active
    <2>2. claim[w] \in [phase : {"running", "ok", "error"}, job : Job, attempt : 1..MaxAttempts]
      BY <1>7, <1>t DEF Handle, TypeOK, Claim, NoClaim
    <2>3. /\ \A v \in Worker : v # w => claim'[v] = claim[v]
          /\ claim'[w] = [claim[w] EXCEPT !.phase = verdict]
      BY <1>7, <1>t DEF Handle, TypeOK
    <2>4. /\ claim'[w].phase = verdict /\ claim'[w].job = claim[w].job
          /\ claim'[w].attempt = claim[w].attempt
      BY <2>2, <2>3
    <2>5. /\ succeeded' \in [Job -> SUBSET (1..MaxAttempts)]
          /\ \A k \in Job : succeeded[k] \subseteq succeeded'[k]
          /\ verdict = "ok" => claim[w].attempt \in succeeded'[claim[w].job]
      BY <1>7, <1>t, <2>1 DEF Handle, TypeOK
    <2>6. TypeOK'
      <3>1. claim'[w] \in Claim
        BY <2>2, <2>3 DEF Claim
      <3>2. claim' \in [Worker -> Claim]
        BY <1>7, <1>t, <3>1 DEF Handle, TypeOK
      <3> QED BY <1>7, <1>t, <2>5, <3>2 DEF Handle, TypeOK
    <2>7. \A v \in Worker : Active(v) => claim[v].job \in Job
      BY <1>t, ClaimCases
    <2>8. ClaimsCounted' /\ ClaimsDistinct'
      BY <1>7, <2>1, <2>3, <2>4 DEF Handle, IInv, ClaimsCounted, ClaimsDistinct, Active
    <2>9. SuccessRecorded' /\ DoneByLastAttempt'
      BY <1>7, <2>3, <2>4, <2>5, <2>7 DEF Handle, IInv, SuccessRecorded, DoneByLastAttempt, Active
    <2> QED BY <2>6, <2>8, <2>9 DEF IInv
  <1>8. ASSUME NEW w \in Worker, Complete(w) PROVE IInv'
    <2>1. claim[w].job \in Job
      BY <1>8, <1>t, ClaimCases DEF Complete, Active
    <2>2. CASE ~Holds(w)
      BY <1>8, <2>2, ForgetInv DEF Complete
    <2>3. CASE Holds(w)
      <3> DEFINE due == row[claim[w].job].due
      <3>1. due \in BOOLEAN /\ row[claim[w].job] \in Row
        BY <1>t, <2>1 DEF Row
      <3>2. [Released(row[claim[w].job], "done") EXCEPT !.due = due]
              = Released(row[claim[w].job], "done")
        BY <3>1 DEF Released, Row
      <3>3. row' = [row EXCEPT ![claim[w].job] = [Released(@, "done") EXCEPT !.due = due]]
        BY <1>8, <2>3, <3>2 DEF Complete
      <3> HIDE DEF due
      <3> QED BY <1>8, <2>1, <2>3, <3>1, <3>3, ReleaseInv DEF Complete, Statuses
    <2> QED BY <2>2, <2>3
  <1>9. ASSUME NEW w \in Worker, Fail(w) PROVE IInv'
    <2>1. claim[w].job \in Job
      BY <1>9, <1>t, ClaimCases DEF Fail, Active
    <2>2. CASE ~Holds(w)
      BY <1>9, <2>2, ForgetInv DEF Fail
    <2>3. CASE Holds(w)
      <3> DEFINE status == AfterFailure(claim[w].attempt)
      <3>1. status \in Statuses /\ status # "done"
        BY DEF AfterFailure, Statuses
      <3>2. row' = [row EXCEPT ![claim[w].job] =
                     [Released(@, status) EXCEPT !.due = (status # "pending")]]
        BY <1>9, <2>3 DEF Fail
      <3> HIDE DEF status
      <3> QED BY <1>9, <2>1, <2>3, <3>1, <3>2, ReleaseInv DEF Fail
    <2> QED BY <2>2, <2>3
  <1>10. ASSUME NEW w \in Worker, Crash(w) PROVE IInv'
    BY <1>10, ForgetInv DEF Crash
  <1>11. CASE RequeueExpired
    <2>1. \A j \in Job : Released(row[j], AfterFailure(row[j].attempts)) \in Row
      BY <1>t DEF Released, Row, AfterFailure, Statuses
    <2>2. row' \in [Job -> Row]
      BY <1>11, <1>t, <2>1 DEF RequeueExpired
    <2>3. \A k \in Job : row'[k].attempts = row[k].attempts /\ (row'[k].status = "done" => row[k].status = "done")
      BY <1>11, <1>t DEF RequeueExpired, Released, Row, AfterFailure
    <2> QED BY <1>11, <1>t, <2>2, <2>3, RowInv DEF RequeueExpired
  <1>12. CASE UNCHANGED vars
    BY <1>12, <1>t, RowInv DEF vars
  <1> QED BY <1>1, <1>2, <1>3, <1>4, <1>5, <1>6, <1>7, <1>8, <1>9, <1>10, <1>11, <1>12
          DEF Next, WorkerStep

-----------------------------------------------------------------------------
\* Every reachable state satisfies the invariant.
THEOREM Invariance == Spec => []IInv
  <1> QED BY InitInv, NextInv, PTL DEF Spec

\* The rows, claims and wake-ups keep their types (LeasedJobs!TypeOK).
THEOREM TypeCorrect == Spec => []TypeOK
  <1>1. IInv => TypeOK
    BY DEF IInv
  <1> QED BY <1>1, Invariance, PTL

\* No two workers hold one job at once (Store.ClaimID counts the attempt that
\* Complete and Fail compare).
THEOREM SingleHolder == Spec => []OneHolder
  <1>1. IInv => OneHolder
    BY DEF IInv, OneHolder, ClaimsDistinct, Current, Active, Holds
  <1> QED BY <1>1, Invariance, PTL

\* A finished job records the attempt that succeeded (Store.Complete).
THEOREM FinishedBySuccess == Spec => []DoneByLastAttempt
  <1>1. IInv => DoneByLastAttempt
    BY DEF IInv
  <1> QED BY <1>1, Invariance, PTL

-----------------------------------------------------------------------------
(* Refinement: each step is a step of the abstract job, or none.            *)

LEMMA AbstractValue ==
  ASSUME NEW j \in Job, row[j].status \in Statuses
  PROVE  /\ row[j].status = "absent"  => AbstractPhase[j] = "absent"
         /\ row[j].status = "pending" => AbstractPhase[j] = "waiting"
         /\ row[j].status = "leased"  => AbstractPhase[j] = "running"
         /\ row[j].status = "done"    => AbstractPhase[j] = "done"
         /\ row[j].status = "failed"  => AbstractPhase[j] = "failed"
  BY DEF AbstractPhase

Tries == [j \in Job |-> row[j].attempts]

\* Nothing the abstract job can see has moved.
LEMMA AbstractStutter ==
  ASSUME row' \in [Job -> Row],
         \A k \in Job : row'[k].status = row[k].status /\ row'[k].attempts = row[k].attempts
  PROVE  UNCHANGED Abstract!vars
  BY DEF Abstract!vars, AbstractPhase

\* A set of running jobs loses its attempts, as Lose of the abstract job says.
LEMMA LoseStep ==
  ASSUME TypeOK, row' \in [Job -> Row], NEW S \in SUBSET Job, S # {},
         \A k \in S : /\ row[k].status = "leased"
                      /\ row'[k].status = AfterFailure(row[k].attempts),
         \A k \in Job \ S : row'[k].status = row[k].status,
         \A k \in Job : row'[k].attempts = row[k].attempts
  PROVE  Abstract!Lose(S)
  <1> USE JobsAssumption DEF JobsAssumption
  <1>1. \A k \in Job : row[k].status \in Statuses /\ row'[k].status \in Statuses /\ row[k].attempts \in 0..MaxAttempts
    BY DEF TypeOK, Row
  <1>2. \A k \in S : AbstractPhase[k] = "running"
    BY <1>1, AbstractValue
  <1>3. \A k \in S : AbstractPhase'[k] = Abstract!AfterLoss(row[k].attempts)
    BY <1>1 DEF AbstractPhase, Abstract!AfterLoss, AfterFailure
  <1>4. \A k \in Job \ S : AbstractPhase'[k] = AbstractPhase[k]
    BY DEF AbstractPhase
  <1>5. Tries' = Tries
    BY DEF Tries
  <1>6. AbstractPhase' = [k \in Job |-> IF k \in S THEN Abstract!AfterLoss(Tries[k])
                                                 ELSE AbstractPhase[k]]
    <2>1. \A k \in S : Tries[k] = row[k].attempts
      BY DEF Tries
    <2>2. \A k \in Job : AbstractPhase'[k] = IF k \in S THEN Abstract!AfterLoss(Tries[k])
                                                          ELSE AbstractPhase[k]
      BY <1>3, <1>4, <2>1
    <2>3. AbstractPhase' = [k \in Job |-> AbstractPhase'[k]]
      BY DEF AbstractPhase
    <2> QED BY <2>2, <2>3
  <1> QED BY <1>2, <1>5, <1>6 DEF Abstract!Lose, Tries

\* One running job is settled or given back.
LEMMA ReleaseStep ==
  ASSUME IInv, IInv', NEW j \in Job, row[j].status = "leased",
         row'[j].status \in {"done", AfterFailure(row[j].attempts)},
         \A k \in Job : row'[k].attempts = row[k].attempts,
         \A k \in Job \ {j} : row'[k].status = row[k].status
  PROVE  Abstract!Next
  <1> DEFINE status == row'[j].status
  <1>1. TypeOK /\ row \in [Job -> Row] /\ row' \in [Job -> Row] /\ row[j] \in Row
    BY DEF IInv, TypeOK
  <1>2. /\ \A k \in Job : row'[k].attempts = row[k].attempts
        /\ \A k \in Job \ {j} : row'[k].status = row[k].status
        /\ row'[j].status = status /\ row[j].status = "leased"
    OBVIOUS
  <1>3. CASE status = "done"
    <2>1. AbstractPhase[j] = "running"
      BY <1>2, AbstractValue DEF Statuses
    <2>2. AbstractPhase' = [AbstractPhase EXCEPT ![j] = "done"]
      <3>1. \A k \in Job : AbstractPhase'[k] = IF k = j THEN "done" ELSE AbstractPhase[k]
        BY <1>2, <1>3 DEF AbstractPhase
      <3>2. AbstractPhase' = [k \in Job |-> AbstractPhase'[k]]
        BY DEF AbstractPhase
      <3>3. AbstractPhase = [k \in Job |-> AbstractPhase[k]]
        BY DEF AbstractPhase
      <3> QED BY <3>1, <3>2, <3>3
    <2>3. Tries' = Tries
      BY <1>2 DEF Tries
    <2>4. Abstract!Succeed(j)
      BY <2>1, <2>2, <2>3 DEF Abstract!Succeed, Tries
    <2> QED BY <2>4 DEF Abstract!Next
  <1>4. CASE status # "done"
    <2>1. Abstract!Lose({j})
      BY <1>1, <1>2, <1>4, LoseStep
    <2> QED BY <2>1 DEF Abstract!Next
  <1> QED BY <1>3, <1>4

\* Counting an attempt starts the abstract job.
LEMMA ClaimStep ==
  ASSUME IInv, IInv', NEW w \in Worker, NEW j \in Job, ClaimID(w, j)
  PROVE  [Abstract!Next]_(Abstract!vars)
  <1>1. TypeOK /\ row \in [Job -> Row] /\ row' \in [Job -> Row] /\ row[j] \in Row
    BY DEF IInv, TypeOK
  <1>2. CASE Claimable(j)
    <2>1. /\ \A k \in Job \ {j} : row'[k].attempts = row[k].attempts /\ row'[k].status = row[k].status
          /\ row'[j].attempts = row[j].attempts + 1 /\ row'[j].status = "leased"
      BY <1>1, <1>2 DEF ClaimID, LeasedTo, Row
    <2>2. AbstractPhase[j] = "waiting" /\ Tries[j] < MaxAttempts
      BY <1>2, AbstractValue DEF Claimable, Statuses, Tries
    <2>3. AbstractPhase' = [AbstractPhase EXCEPT ![j] = "running"]
      <3>1. \A k \in Job : AbstractPhase'[k] = IF k = j THEN "running" ELSE AbstractPhase[k]
        BY <2>1 DEF AbstractPhase
      <3>2. /\ AbstractPhase' = [k \in Job |-> AbstractPhase'[k]]
            /\ AbstractPhase = [k \in Job |-> AbstractPhase[k]]
        BY DEF AbstractPhase
      <3> QED BY <3>1, <3>2
    <2>4. Tries' = [Tries EXCEPT ![j] = @ + 1]
      BY <2>1 DEF Tries
    <2>5. Abstract!Start(j)
      BY <2>2, <2>3, <2>4 DEF Abstract!Start, Tries
    <2> QED BY <2>5 DEF Abstract!Next
  <1>3. CASE ~Claimable(j)
    BY <1>1, <1>3, AbstractStutter DEF ClaimID
  <1> QED BY <1>2, <1>3

LEMMA StepSimulation == IInv /\ IInv' /\ [Next]_vars => [Abstract!Next]_(Abstract!vars)
  <1> SUFFICES ASSUME IInv, IInv', [Next]_vars PROVE [Abstract!Next]_(Abstract!vars)
    OBVIOUS
  <1>t. TypeOK /\ row \in [Job -> Row] /\ row' \in [Job -> Row]
    BY DEF IInv, TypeOK
  <1>1. ASSUME NEW j \in Job, Enqueue(j) PROVE [Abstract!Next]_(Abstract!vars)
    <2>1. /\ \A k \in Job : row'[k].attempts = row[k].attempts
          /\ \A k \in Job \ {j} : row'[k].status = row[k].status
          /\ row'[j].status = "pending" /\ row[j].status = "absent"
      BY <1>1, <1>t DEF Enqueue, Row
    <2>2. AbstractPhase[j] = "absent"
      BY <2>1, AbstractValue DEF Statuses
    <2>3. AbstractPhase' = [AbstractPhase EXCEPT ![j] = "waiting"]
      <3>1. \A k \in Job : AbstractPhase'[k] = IF k = j THEN "waiting" ELSE AbstractPhase[k]
        BY <2>1 DEF AbstractPhase
      <3>2. /\ AbstractPhase' = [k \in Job |-> AbstractPhase'[k]]
            /\ AbstractPhase = [k \in Job |-> AbstractPhase[k]]
        BY DEF AbstractPhase
      <3> QED BY <3>1, <3>2
    <2>4. Tries' = Tries
      BY <2>1 DEF Tries
    <2>5. Abstract!Submit(j)
      BY <2>2, <2>3, <2>4 DEF Abstract!Submit, Tries
    <2> QED BY <2>5 DEF Abstract!Next
  <1>2. ASSUME NEW j \in Job, Launch(j) \/ LaunchFails(j) PROVE UNCHANGED Abstract!vars
    BY <1>2, <1>t, AbstractStutter DEF Launch, LaunchFails
  <1>3. ASSUME NEW j \in Job, BecomeDue(j) \/ LeaseExpires(j) PROVE UNCHANGED Abstract!vars
    <2>1. \A k \in Job : row'[k].status = row[k].status /\ row'[k].attempts = row[k].attempts
      <3>1. CASE BecomeDue(j)
        BY <3>1, <1>t DEF BecomeDue, Row
      <3>2. CASE LeaseExpires(j)
        BY <3>2, <1>t DEF LeaseExpires, Row
      <3> QED BY <1>3, <3>1, <3>2
    <2> QED BY <1>t, <2>1, AbstractStutter
  <1>4. ASSUME NEW w \in Worker, RunChosen(w) PROVE [Abstract!Next]_(Abstract!vars)
    <2>1. claim[w].job \in Job
      BY <1>4, <1>t, ClaimCases DEF RunChosen
    <2> QED BY <1>4, <2>1, ClaimStep DEF RunChosen
  <1>5. ASSUME NEW w \in Worker, NEW j \in Job, ClaimNext(w, j) \/ RunWakeup(w, j)
        PROVE  [Abstract!Next]_(Abstract!vars)
    BY <1>5, ClaimStep DEF ClaimNext, RunWakeup
  <1>6. ASSUME NEW w \in Worker, NEW j \in Job, Choose(w, j) PROVE UNCHANGED Abstract!vars
    BY <1>6, <1>t, AbstractStutter DEF Choose
  <1>7. ASSUME NEW w \in Worker, NEW verdict \in {"ok", "error"}, Handle(w, verdict)
        PROVE  UNCHANGED Abstract!vars
    BY <1>7, <1>t, AbstractStutter DEF Handle
  <1>8. ASSUME NEW w \in Worker, Complete(w) PROVE [Abstract!Next]_(Abstract!vars)
    <2>1. claim[w].job \in Job
      BY <1>8, <1>t, ClaimCases DEF Complete, Active
    <2>2. CASE ~Holds(w)
      BY <1>8, <1>t, <2>2, AbstractStutter DEF Complete
    <2>3. CASE Holds(w)
      <3> DEFINE j == claim[w].job
      <3>1. row[j] \in Row /\ row[j].status = "leased"
        BY <1>t, <2>1, <2>3 DEF Holds
      <3>2. /\ \A k \in Job : row'[k].attempts = row[k].attempts
            /\ \A k \in Job \ {j} : row'[k].status = row[k].status
            /\ row'[j].status = "done"
        BY <1>8, <1>t, <2>1, <2>3, <3>1 DEF Complete, Released, Row
      <3> HIDE DEF j
      <3> QED BY <2>1, <3>1, <3>2, ReleaseStep DEF j
    <2> QED BY <2>2, <2>3
  <1>9. ASSUME NEW w \in Worker, Fail(w) PROVE [Abstract!Next]_(Abstract!vars)
    <2>1. claim[w].job \in Job
      BY <1>9, <1>t, ClaimCases DEF Fail, Active
    <2>2. CASE ~Holds(w)
      BY <1>9, <1>t, <2>2, AbstractStutter DEF Fail
    <2>3. CASE Holds(w)
      <3> DEFINE j == claim[w].job
      <3>1. row[j] \in Row /\ row[j].status = "leased" /\ row[j].attempts = claim[w].attempt
        BY <1>t, <2>1, <2>3 DEF Holds
      <3>2. /\ \A k \in Job : row'[k].attempts = row[k].attempts
            /\ \A k \in Job \ {j} : row'[k].status = row[k].status
            /\ row'[j].status = AfterFailure(row[j].attempts)
        BY <1>9, <1>t, <2>1, <2>3, <3>1 DEF Fail, Released, Row
      <3> HIDE DEF j
      <3> QED BY <2>1, <3>1, <3>2, ReleaseStep DEF j
    <2> QED BY <2>2, <2>3
  <1>10. ASSUME NEW w \in Worker, Crash(w) PROVE UNCHANGED Abstract!vars
    BY <1>10, <1>t, AbstractStutter DEF Crash
  <1>11. CASE RequeueExpired
    <2>1. /\ \A k \in Job : row'[k].attempts = row[k].attempts
          /\ \A k \in Expired : row'[k].status = AfterFailure(row[k].attempts)
          /\ \A k \in Job \ Expired : row'[k].status = row[k].status
      <3>1. \A k \in Job : row[k] \in Row
        BY <1>t
      <3>2. \A k \in Job : row'[k] = IF k \in Expired
              THEN Released(row[k], AfterFailure(row[k].attempts)) ELSE row[k]
        BY <1>11 DEF RequeueExpired
      <3>3. \A k \in Job : LET r == Released(row[k], AfterFailure(row[k].attempts))
                           IN  r.attempts = row[k].attempts /\ r.status = AfterFailure(row[k].attempts)
        BY <3>1 DEF Released, Row
      <3>4. Expired \subseteq Job
        BY DEF Expired
      <3> QED BY <3>2, <3>3, <3>4
    <2>2. Expired \in SUBSET Job /\ Expired # {} /\ \A k \in Expired : row[k].status = "leased"
      BY <1>11 DEF RequeueExpired, Expired
    <2>3. Abstract!Lose(Expired)
      BY <1>t, <2>1, <2>2, LoseStep
    <2> QED BY <2>2, <2>3 DEF Abstract!Next
  <1>12. CASE UNCHANGED vars
    BY <1>12, <1>t, AbstractStutter DEF vars
  <1> QED BY <1>1, <1>2, <1>3, <1>4, <1>5, <1>6, <1>7, <1>8, <1>9, <1>10, <1>11, <1>12
          DEF Next, WorkerStep

\* internal/jobs implements the abstract job of DurableJobs for any number of
\* jobs, workers and attempts.
THEOREM Refinement == Spec => ImplementsDurableJobs
  <1>1. Init => Abstract!Init
    BY DEF Init, Abstract!Init, AbstractPhase
  <1> QED BY <1>1, Invariance, StepSimulation, PTL DEF Spec, ImplementsDurableJobs, Abstract!Spec
=============================================================================
