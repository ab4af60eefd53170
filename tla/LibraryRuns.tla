------------------------------ MODULE LibraryRuns ------------------------------
(***************************************************************************)
(* alexandria/recognition: library runs.  A run lists the notebooks of a    *)
(* source, reads each one's page list for the owner's review, and hands the *)
(* pages the owner confirmed to the recognition queue, a chunk at a time.   *)
(* A step commits its lease, reads the page list outside any transaction,   *)
(* and settles in a second one, while leases lapse under workers that go    *)
(* on, page lists change, and the owner pauses, resumes, retries and        *)
(* cancels the run, its batches and single jobs.                            *)
(***************************************************************************)
EXTENDS Naturals, Sequences, FiniteSets, FiniteSetsExt, Functions

CONSTANTS
  Notebook,   \* a set of numbers, in the order of the notebooks' ids
  Lists,      \* the page lists each notebook may have; no page is in two notebooks
  Run,        \* 1..n, in the order of creation
  Worker,
  NoWorker,
  ChunkSize,  \* 100
  MaxAttempts,\* bound: jobs of one page
  MaxEdits    \* bound: changes by tablets, and by the owner to single notebooks and jobs

Deleted == <<"deleted">>        \* a notebook deleted on the tablet
Unreadable == <<"unreadable">>  \* a part of its page list has not arrived
NotRead == <<"not read">>

PagesOf(n) == UNION {Range(l) : l \in Lists[n]}
AnyPage == UNION {PagesOf(n) : n \in Notebook}
AnyList == UNION {Lists[n] : n \in Notebook}
HomeOf(p) == CHOOSE n \in Notebook : p \in PagesOf(n)

\* Tablets list a page once; a row of the queue is of one notebook's page.
RunsAssumption ==
  /\ Notebook \subseteq Nat /\ Run \subseteq Nat \ {0}
  /\ \A n \in Notebook : \A l \in Lists[n] :
       l \in Seq(PagesOf(n)) /\ IsInjective(l) /\ l \notin {Deleted, Unreadable, NotRead}
  /\ \A m, n \in Notebook : m # n => PagesOf(m) \cap PagesOf(n) = {}
  /\ NoWorker \notin Worker
  /\ ChunkSize \in Nat \ {0} /\ MaxAttempts \in Nat /\ MaxEdits \in Nat

VARIABLES
  list,    \* the page list of each notebook, as the projection has it
  barred,  \* notebooks the owner skips, or that exceed the page limit
  jobs,    \* alexandria_recognition_job: the jobs of each page; the last is its row's
  run,     \* alexandria_recognition_run
  entry,   \* alexandria_recognition_run_notebook
  step,    \* the locals of each StepRun
  sent,    \* history: how often a run queued each page
  resumed, \* history: jobs the owner set going by themselves since their run stopped
  edits

lvars == <<list, barred, jobs, run, entry, step, sent, resumed, edits>>

-----------------------------------------------------------------------------
(* Types.                                                                   *)

\* "queued" stands for processing too, and "failed" for blocked: no statement below
\* but a skip, which leaves a page being processed alone, tells them apart.  The
\* detail of a row tells "retired" (cancelled, as its notebook was deleted) from
\* "cancelled", and "passed" (skipped with its notebook) from "skipped".
Settled == {"ready", "failed", "cancelled", "retired", "skipped", "passed"}
JobState == {"queued", "paused"} \cup Settled

\* A job's batch: the one of a run and the page's notebook, or none.  A batch the
\* owner asked for by itself is not told apart from none.
NoBatch == 0
Job == [state : JobState, batch : Run \cup {NoBatch}]

RunState == [state : {"absent", "preparing", "review", "queued", "paused", "cancelled"},
             token : Worker \cup {NoWorker}, leased : BOOLEAN]
Entry == [state : {"none", "pending", "ready", "unavailable", "excluded", "queued"},
          pages : AnyList \cup {<<>>}, cursor : Nat, queued : Nat, skipped : Nat]

\* was: the notebook's row as the claim read it.
Idle == [phase |-> "idle"]
Stepping == [phase : {"preparing", "queued"}, run : Run, notebook : Notebook, was : Entry,
             read : AnyList \cup {NotRead, Deleted, Unreadable}]

TypeOK ==
  /\ list \in [Notebook -> AnyList \cup {Deleted, Unreadable}]
  /\ barred \in [Notebook -> {"no", "skip", "large"}]
  /\ jobs \in [AnyPage -> Seq(Job)] /\ \A p \in AnyPage : Len(jobs[p]) <= MaxAttempts
  /\ run \in [Run -> RunState] /\ entry \in [Run -> [Notebook -> Entry]]
  /\ step \in [Worker -> {Idle} \cup Stepping]
  /\ sent \in [Run -> [AnyPage -> Nat]]
  /\ resumed \subseteq AnyPage \X (1..MaxAttempts)
  /\ edits \in 0..MaxEdits

Unlisted == [state |-> "none", pages |-> <<>>, cursor |-> 0, queued |-> 0, skipped |-> 0]

Init ==
  /\ list \in {l \in [Notebook -> AnyList] : \A n \in Notebook : l[n] \in Lists[n]}
  /\ barred = [n \in Notebook |-> "no"]
  /\ jobs = [p \in AnyPage |-> <<>>]
  /\ run = [r \in Run |-> [state |-> "absent", token |-> NoWorker, leased |-> FALSE]]
  /\ entry = [r \in Run |-> [n \in Notebook |-> Unlisted]]
  /\ step = [w \in Worker |-> Idle]
  /\ sent = [r \in Run |-> [p \in AnyPage |-> 0]]
  /\ resumed = {} /\ edits = 0

-----------------------------------------------------------------------------
(* A page's row of the queue and its jobs.  The triggers keep the last job in *)
(* the row's state, and give a row that is queued again a new job, outside    *)
(* any batch.                                                                *)

StateOf(p) == IF jobs[p] = <<>> THEN "none" ELSE jobs[p][Len(jobs[p])].state

Put(js, state) ==
  IF js = <<>> \/ (state = "queued" /\ js[Len(js)].state \in Settled)
  THEN Append(js, [state |-> state, batch |-> NoBatch])
  ELSE [js EXCEPT ![Len(js)].state = state]

\* bound
Room(S) == \A p \in S : Len(jobs[p]) < MaxAttempts

\* queueTx for one page: work that waits, runs or is paused keeps its job and its
\* batch, and a skipped page stays skipped.
Requestable(p) == StateOf(p) \in {"none", "ready", "failed", "cancelled", "retired"}
Request(p, batch) ==
  LET js == Put(jobs[p], "queued") IN [js EXCEPT ![Len(js)].batch = batch]

\* applyControl for one job of page p: a job that was replaced is left alone; a
\* replacement takes its batch over.
Allowed(action) ==
  CASE action = "pause"  -> {"queued"}
    [] action = "resume" -> {"paused"}
    [] action = "cancel" -> {"queued", "paused", "failed"}
    [] action = "retry"  -> {"failed"}
    [] action = "skip"   -> {"queued", "paused", "failed", "cancelled", "retired"}
    [] action = "unskip" -> {"skipped", "passed"}
Target(action) ==
  CASE action = "pause" -> "paused" [] action = "cancel" -> "cancelled"
    [] action = "skip" -> "skipped" [] OTHER -> "queued"

\* A retry of a notebook over the limit or deleted on the tablet changes nothing.
Controlled(p, action) ==
  /\ StateOf(p) \in Allowed(action)
  /\ Target(action) = "queued" => barred[HomeOf(p)] # "large" /\ list[HomeOf(p)] # Deleted

Control(p, action) ==
  LET old == jobs[p]
      new == Put(old, Target(action))
  IN IF Len(new) = Len(old) THEN new
     ELSE [i \in 1..Len(new) |->
             CASE i = Len(new) -> [new[i] EXCEPT !.batch = old[Len(old)].batch]
               [] i = Len(old) -> [old[i] EXCEPT !.batch = NoBatch]
               [] OTHER -> old[i]]

InBatch(p, r) == jobs[p] # <<>> /\ jobs[p][Len(jobs[p])].batch = r

-----------------------------------------------------------------------------
(* StepRun.                                                                 *)

Listed(n) == list[n] # Deleted

\* CreateRun: the inventory of the notebooks that are there.
CreateRun(r) ==
  /\ run[r].state = "absent" /\ \A q \in Run : q < r => run[q].state # "absent"
  /\ run' = [run EXCEPT ![r].state = "preparing"]
  /\ entry' = [entry EXCEPT ![r] = [n \in Notebook |->
                 IF Listed(n) THEN [Unlisted EXCEPT !.state = "pending"] ELSE Unlisted]]
  /\ UNCHANGED <<list, barred, jobs, step, sent, resumed, edits>>

Wanted(r) == IF run[r].state = "queued" THEN "ready" ELSE "pending"
Waiting(r) == {n \in Notebook : entry[r][n].state = Wanted(r)}

\* A run somebody may step: not leased, being prepared or with pages to send.
Due(r) ==
  /\ ~run[r].leased
  /\ run[r].state = "preparing" \/ (run[r].state = "queued" /\ Waiting(r) # {})

\* The first transaction: the oldest run, its next notebook, a lease.  The token
\* is new with each claim; a worker has one claim at a time, so its name will do.
Claim(w) ==
  \E r \in Run :
    /\ step[w] = Idle /\ Due(r) /\ \A q \in Run : q < r => ~Due(q)
    /\ Waiting(r) # {}
    /\ run' = [run EXCEPT ![r].token = w, ![r].leased = TRUE]
    /\ LET n == Min(Waiting(r)) IN
       step' = [step EXCEPT ![w] = [phase |-> run[r].state, run |-> r, notebook |-> n,
                                    was |-> entry[r][n], read |-> NotRead]]
    /\ UNCHANGED <<list, barred, jobs, entry, sent, resumed, edits>>

\* Nothing is left to prepare.
Prepared ==
  \E r \in Run :
    /\ Due(r) /\ \A q \in Run : q < r => ~Due(q)
    /\ Waiting(r) = {}
    /\ run' = [run EXCEPT ![r].state = "review"]
    /\ UNCHANGED <<list, barred, jobs, entry, step, sent, resumed, edits>>

\* The page list, read in a snapshot of its own, or not within its time.
ReadCatalog(w) ==
  /\ step[w] # Idle /\ step[w].read = NotRead
  /\ \E l \in {list[step[w].notebook], Unreadable} : step' = [step EXCEPT ![w].read = l]
  /\ UNCHANGED <<list, barred, jobs, run, entry, sent, resumed, edits>>

\* Fault: the settlement trusts the state of the run, whoever holds its lease.
FencedByState(w) == run[step[w].run].state # step[w].phase

\* The owner stopped or retried the run, or the lease was taken over.
Fenced(w) == run[step[w].run].state # step[w].phase \/ run[step[w].run].token # w

Dropped(w) ==
  /\ step[w] # Idle /\ step[w].read # NotRead /\ Fenced(w)
  /\ step' = [step EXCEPT ![w] = Idle]
  /\ UNCHANGED <<list, barred, jobs, run, entry, sent, resumed, edits>>

\* What a page list turns a notebook under preparation into.
Reviewed(s) ==
  CASE s.read = Deleted -> [s.was EXCEPT !.state = "excluded"]
    [] s.read = Unreadable -> [s.was EXCEPT !.state = "unavailable"]
    [] OTHER -> [s.was EXCEPT !.pages = s.read,
                   !.state = IF s.read = <<>> THEN "unavailable"
                             ELSE IF barred[s.notebook] # "no" THEN "excluded" ELSE "ready"]

Release(r) == run' = [run EXCEPT ![r].token = NoWorker, ![r].leased = FALSE]

\* The second transaction, for a notebook under preparation.
Prepare(w) ==
  LET s == step[w] IN
  /\ s # Idle /\ s.phase = "preparing" /\ s.read # NotRead /\ ~Fenced(w)
  /\ Release(s.run)
  /\ entry' = [entry EXCEPT ![s.run][s.notebook] = Reviewed(s)]
  /\ step' = [step EXCEPT ![w] = Idle]
  /\ UNCHANGED <<list, barred, jobs, sent, resumed, edits>>

\* The chunk a dispatch is about, and those of its pages it queues: none when the
\* notebook was deleted, skipped or grew too large since.
ChunkEnd(s) == Min({s.was.cursor + ChunkSize, Len(s.read)})
Chunk(s) == {s.read[i] : i \in (s.was.cursor + 1)..ChunkEnd(s)}
Refused(n) == list[n] = Deleted \/ barred[n] = "large"
Queued(s) ==
  IF Refused(s.notebook) \/ barred[s.notebook] = "skip" THEN {}
  ELSE {p \in Chunk(s) : Requestable(p)}

Dispatched(s) ==
  [s.was EXCEPT
     !.queued = @ + Cardinality(Queued(s)),
     !.skipped = @ + Cardinality(Chunk(s)) - Cardinality(Queued(s)),
     !.cursor = ChunkEnd(s),
     !.state = IF Refused(s.notebook) THEN "excluded"
               ELSE IF ChunkEnd(s) = Len(s.read) THEN "queued" ELSE "ready"]

\* The second transaction, for a notebook of a confirmed run whose list is as the
\* owner reviewed it.
Dispatch(w) ==
  LET s == step[w] IN
  /\ s # Idle /\ s.phase = "queued" /\ s.read = s.was.pages /\ ~Fenced(w)
  /\ Room(Queued(s))
  /\ Release(s.run)
  /\ entry' = [entry EXCEPT ![s.run][s.notebook] = Dispatched(s)]
  /\ jobs' = [p \in AnyPage |-> IF p \in Queued(s) THEN Request(p, s.run) ELSE jobs[p]]
  /\ sent' = [sent EXCEPT ![s.run] =
                [p \in AnyPage |-> @[p] + (IF p \in Queued(s) THEN 1 ELSE 0)]]
  /\ step' = [step EXCEPT ![w] = Idle]
  /\ UNCHANGED <<list, barred, resumed, edits>>

\* The list changed after the review, or cannot be read: nothing more is sent.
Withdraw(w) ==
  LET s == step[w] IN
  /\ s # Idle /\ s.phase = "queued" /\ s.read \notin {NotRead, s.was.pages} /\ ~Fenced(w)
  /\ Release(s.run)
  /\ entry' = [entry EXCEPT ![s.run][s.notebook] =
                 [s.was EXCEPT !.state = IF s.read = Deleted THEN "excluded" ELSE "unavailable"]]
  /\ step' = [step EXCEPT ![w] = Idle]
  /\ UNCHANGED <<list, barred, jobs, sent, resumed, edits>>

\* The worker dies or a statement fails: only its lease is left.
Fail(w) ==
  /\ step[w] # Idle
  /\ step' = [step EXCEPT ![w] = Idle]
  /\ UNCHANGED <<list, barred, jobs, run, entry, sent, resumed, edits>>

LeaseLapses(r) ==
  /\ run[r].leased
  /\ run' = [run EXCEPT ![r].leased = FALSE]
  /\ UNCHANGED <<list, barred, jobs, entry, step, sent, resumed, edits>>

-----------------------------------------------------------------------------
(* The owner.                                                               *)

\* ApproveRun: the notebooks under review but for those excluded, at least one.
ApproveRun(r, excluded) ==
  LET ready == {n \in Notebook : entry[r][n].state = "ready"} IN
  /\ run[r].state = "review" /\ excluded \subseteq ready /\ excluded # ready
  /\ run' = [run EXCEPT ![r].state = "queued"]
  /\ entry' = [entry EXCEPT ![r] =
       [n \in Notebook |-> IF n \in excluded THEN [@[n] EXCEPT !.state = "excluded"] ELSE @[n]]]
  /\ UNCHANGED <<list, barred, jobs, step, sent, resumed, edits>>

\* ControlRun "prepare": the lists that could not be read are read again.
PrepareAgain(r) ==
  /\ run[r].state = "review"
  /\ run' = [run EXCEPT ![r].state = "preparing"]
  /\ entry' = [entry EXCEPT ![r] =
       [n \in Notebook |-> IF @[n].state = "unavailable" THEN [@[n] EXCEPT !.state = "pending"]
                           ELSE @[n]]]
  /\ UNCHANGED <<list, barred, jobs, step, sent, resumed, edits>>

\* ControlRun's other actions: the jobs of the run's batches, then the run, whose
\* lease they take away.
ControlRun(r, action) ==
  LET S == {p \in AnyPage : InBatch(p, r) /\ Controlled(p, action)}
      state == run[r].state
  IN
  /\ CASE action = "pause"  -> state = "queued"
       [] action = "resume" -> state = "paused"
       [] action = "cancel" -> state \notin {"absent", "cancelled"}
       [] action = "retry"  -> state = "queued" /\ Room(S)
  /\ jobs' = [p \in AnyPage |-> IF p \in S THEN Control(p, action) ELSE jobs[p]]
  /\ run' = [run EXCEPT ![r] =
       [state |-> CASE action = "pause" -> "paused" [] action = "cancel" -> "cancelled"
                    [] OTHER -> "queued",
        token |-> NoWorker, leased |-> FALSE]]
  /\ resumed' = {j \in resumed : ~InBatch(j[1], r)}
  /\ UNCHANGED <<list, barred, entry, step, sent, edits>>

\* Control, ControlGroup and ActOnMatching: one job, or those of one notebook that
\* are in the same batch.
ControlJobs(n, S, action) ==
  LET T == {p \in S : Controlled(p, action)} IN
  /\ edits < MaxEdits /\ edits' = edits + 1
  /\ \/ Cardinality(S) = 1
     \/ \E r \in Run \cup {NoBatch} : S = {p \in PagesOf(n) : InBatch(p, r)}
  /\ T # {} /\ (Target(action) = "queued" => Room(T))
  /\ jobs' = [p \in AnyPage |-> IF p \in T THEN Control(p, action) ELSE jobs[p]]
  /\ resumed' = IF Target(action) = "queued"
                THEN resumed \cup {<<p, Len(jobs'[p])>> : p \in T} ELSE resumed
  /\ UNCHANGED <<list, barred, run, entry, step, sent>>

\* Queue and QueuePagesTx: pages the owner or a setting asks for outside any run.
QueuePage(p) ==
  LET n == HomeOf(p) IN
  /\ edits < MaxEdits /\ edits' = edits + 1
  /\ list[n] \in Lists[n] /\ p \in Range(list[n]) /\ barred[n] = "no"
  /\ Requestable(p) /\ Room({p})
  /\ jobs' = [jobs EXCEPT ![p] = Request(p, NoBatch)]
  /\ UNCHANGED <<list, barred, run, entry, step, sent, resumed>>

\* SkipNotebook and the page limit (one at a time): what becomes of the notebook's jobs.
Bar(n, how) ==
  /\ how # barred[n] /\ "no" \in {how, barred[n]}
  /\ edits < MaxEdits /\ edits' = edits + 1
  /\ barred' = [barred EXCEPT ![n] = how]
  /\ jobs' = [p \in AnyPage |->
       IF p \notin PagesOf(n) \/ jobs[p] = <<>> THEN jobs[p]
       ELSE CASE how = "skip" /\ StateOf(p) \notin {"ready", "skipped"} -> Put(jobs[p], "passed")
              [] how = "large" /\ StateOf(p) = "queued" -> Put(jobs[p], "cancelled")
              [] how = "no" /\ StateOf(p) = "passed" -> Put(jobs[p], "cancelled")
              [] OTHER -> jobs[p]]
  /\ UNCHANGED <<list, run, entry, step, sent, resumed>>

-----------------------------------------------------------------------------
(* The tablet and the recognition worker.                                    *)

\* boox_invalidate_page_index: what a change of the notebook makes of a page's row.
Invalidated(n, new, p) ==
  LET state == StateOf(p) IN
  IF state \in {"none", "paused", "cancelled", "skipped", "passed"} THEN jobs[p]
  ELSE IF new = Deleted THEN Put(jobs[p], "retired")
  ELSE CASE barred[n] = "skip" -> Put(jobs[p], "passed")
         [] barred[n] = "large" -> IF state = "retired" THEN jobs[p] ELSE Put(jobs[p], "cancelled")
         [] barred[n] = "no" -> Put(jobs[p], "queued")

EditNotebook(n) ==
  \E new \in (Lists[n] \cup {Deleted, Unreadable}) \ {list[n]} :
    /\ edits < MaxEdits /\ edits' = edits + 1
    /\ list' = [list EXCEPT ![n] = new]
    /\ jobs' = [p \in AnyPage |-> IF p \in PagesOf(n) THEN Invalidated(n, new, p) ELSE jobs[p]]
    /\ \A p \in AnyPage : Len(jobs'[p]) <= MaxAttempts
    /\ UNCHANGED <<barred, run, entry, step, sent, resumed>>

Recognize(p) ==
  /\ StateOf(p) = "queued"
  /\ \E state \in {"ready", "failed"} : jobs' = [jobs EXCEPT ![p] = Put(@, state)]
  /\ UNCHANGED <<list, barred, run, entry, step, sent, resumed, edits>>

Next ==
  \/ \E r \in Run : CreateRun(r) \/ LeaseLapses(r) \/ PrepareAgain(r)
  \/ \E r \in Run, excluded \in SUBSET Notebook : ApproveRun(r, excluded)
  \/ \E r \in Run, action \in {"pause", "resume", "cancel", "retry"} : ControlRun(r, action)
  \/ \E w \in Worker :
       \/ Claim(w) \/ ReadCatalog(w) \/ Dropped(w) \/ Prepare(w) \/ Dispatch(w)
       \/ Withdraw(w) \/ Fail(w)
  \/ Prepared
  \/ \E n \in Notebook, action \in {"pause", "resume", "cancel", "retry", "skip", "unskip"} :
       \E S \in SUBSET PagesOf(n) : ControlJobs(n, S, action)
  \/ \E p \in AnyPage : QueuePage(p) \/ Recognize(p)
  \/ \E n \in Notebook : EditNotebook(n) \/ \E how \in {"no", "skip", "large"} : Bar(n, how)

Spec == Init /\ [][Next]_lvars

-----------------------------------------------------------------------------
(* Properties.                                                              *)

SentOf(r, n) == {p \in PagesOf(n) : sent[r][p] > 0}

\* A run sends a page at most once, among the first `cursor` pages of the list the
\* owner reviewed, whatever becomes of its lease and its workers (runs.go:95-103,
\* 142-167, 214-238).
SentOnce ==
  \A r \in Run, n \in Notebook : \A p \in SentOf(r, n) :
    /\ sent[r][p] = 1
    /\ \E i \in 1..entry[r][n].cursor : entry[r][n].pages[i] = p

\* What a run says it sent is what it sent, and what it has passed was sent or left
\* to other jobs: a count that is off never reaches 100 percent (runs.go:236-242,
\* 281-291, 524).  Each page has one job in the run's batch (jobs.go:439-446).
ProgressRight ==
  \A r \in Run, n \in Notebook :
    LET e == entry[r][n] IN
    /\ e.queued = Cardinality(SentOf(r, n))
    /\ e.cursor = e.queued + e.skipped
    /\ \A p \in PagesOf(n) :
         Cardinality({i \in DOMAIN jobs[p] : jobs[p][i].batch = r}) = sent[r][p]

\* While a run is paused or cancelled none of its pages waits or runs, but for those
\* the owner set going by themselves since (docs/provider-settings.md: "Pause and
\* cancellation also fence undispatched work and in-flight catalog completion").
HeldRun ==
  \A r \in Run : run[r].state \in {"paused", "cancelled"} =>
    \A p \in AnyPage :
      InBatch(p, r) /\ <<p, Len(jobs[p])>> \notin resumed
        => StateOf(p) # "queued"
===============================================================================
