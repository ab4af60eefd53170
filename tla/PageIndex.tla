----------------------------- MODULE PageIndex ------------------------------
(***************************************************************************)
(* Recognition of one BOOX notebook: the queue boox_page_index, the         *)
(* triggers that invalidate it when the device changes the notebook, the    *)
(* owner's requests and controls, and the workers of ProcessPageIndex.      *)
(*                                                                          *)
(* PostgreSQL runs these transactions at READ COMMITTED.  Most are one step *)
(* here; two are open for a while, as in the code: a source transaction     *)
(* (the invalidating trigger has run and holds row locks, the new source is *)
(* not visible yet) and an enqueue (its checks are done and its locks held, *)
(* its rows are not visible yet).                                           *)
(***************************************************************************)
EXTENDS Naturals, FiniteSets

CONSTANTS
  Page,           \* page ids of the notebook
  Requested,      \* the pages somebody asks to recognize
  Content,        \* what the notebook's record and page files draw
  Blank,          \* contents without handwriting
  Worker,         \* processes that run ProcessPageIndex
  Drawn,          \* the states the device brings the notebook's record to
  Limits,         \* values the owner gives the page limit
  MaxAttempts,    \* a failure at this many attempts is final
  Overlap,        \* may the owner's transactions commit inside a source transaction?
  NoWorker, NoContent, NoPage

ASSUME PageAssumption ==
  /\ Requested \subseteq Page /\ IsFiniteSet(Page)
  /\ Blank \subseteq Content /\ NoContent \notin Content
  /\ Limits \subseteq Nat /\ Limits # {}
  /\ MaxAttempts \in Nat
  /\ Overlap \in BOOLEAN
  /\ NoWorker \notin Worker /\ NoPage \notin Page

VARIABLES
  src,      \* the notebook: projection record and live page files
  rows,     \* boox_page_index
  policy,   \* recognition settings: notebook skip, page limit, size override
  srcTx,    \* the open source transaction (notebookWriteLock allows one)
  enq,      \* the open enqueue transaction
  wk,       \* what each worker remembers
  outdated, \* workers whose page has a newer request_version than they claimed
  resaved   \* workers whose snapshot has an older record revision than src

vars == <<src, rows, policy, srcTx, enq, wk, outdated, resaved>>

Held == {"paused", "cancelled", "skipped"}
Active == {"queued", "processing"}
Finished == {"ready", "failed", "blocked", "cancelled"}

\* "none": the page has no row.
States == {"none"} \cup Held \cup Active \cup Finished

\* The details the code compares; every other detail is "other".
Details == {"notebook_deleted", "notebook_skipped", "other"}

Statuses == {"live", "deleted", "absent"}

Source == [content : Content, status : Statuses, listed : SUBSET Page]

Row == [state : States, detail : Details, attempts : 0..(MaxAttempts + 1),
        lease : Worker \cup {NoWorker}, expired : BOOLEAN,
        text : Content \cup {NoContent},   \* the content the stored text was read from
        input : Content \cup {NoContent}]  \* input_version of a ready page

NewRow(state, detail) ==
  [state |-> state, detail |-> detail, attempts |-> 0, lease |-> NoWorker,
   expired |-> FALSE, text |-> NoContent, input |-> NoContent]

NoRow == NewRow("none", "other")

\* The open source transaction: the source it commits, the rows its trigger
\* rewrote and locked, and whether it also locked the projection record.
SourceTx == [open : BOOLEAN, record : BOOLEAN, rewritten : SUBSET Page, rows : [Page -> Row],
             src : [content : Content \cup {NoContent}, status : Statuses, listed : SUBSET Page]]

NoSourceTx ==
  [open |-> FALSE, record |-> FALSE, rewritten |-> {}, rows |-> [p \in Page |-> NoRow],
   src |-> [content |-> NoContent, status |-> "absent", listed |-> {}]]

\* The open enqueue transaction: QueuePage takes one page in "any" state it may
\* requeue, queueTx takes several but only "finished" ones; both hold a FOR
\* SHARE lock on the projection record if there was one.
Enqueue == [pages : SUBSET Page, only : {"any", "finished"}, locked : BOOLEAN]

NoEnqueue == [pages |-> {}, only |-> "any", locked |-> FALSE]

Results == {"none", "ready", "blocked", "cancelled", "retry", "terminal"}

\* at: the content of the first snapshot; result: what the worker will write.
WorkerState ==
  [phase : {"idle", "claimed", "rendered", "recognized", "settling"},
   page : Page \cup {NoPage}, attempts : 0..(MaxAttempts + 1),
   at : Content \cup {NoContent}, result : Results]

Idle == [phase |-> "idle", page |-> NoPage, attempts |-> 0, at |-> NoContent, result |-> "none"]

ASSUME DrawnAssumption == Drawn \subseteq Source

TypeOK ==
  /\ src \in Source
  /\ rows \in [Page -> Row]
  /\ policy \in [skip : BOOLEAN, limit : Limits, allow : BOOLEAN]
  /\ srcTx \in SourceTx /\ (srcTx.open => srcTx.src \in Source)
  /\ enq \in Enqueue
  /\ wk \in [Worker -> WorkerState]
  /\ \A w \in Worker : wk[w].phase # "idle" => wk[w].page \in Page
  /\ outdated \subseteq Worker
  /\ resaved \subseteq Worker

Init ==
  /\ src \in Drawn /\ src.status = "live"
  /\ rows = [p \in Page |-> NoRow]
  /\ policy \in [skip : {FALSE}, limit : Limits, allow : {FALSE}]
  /\ srcTx = NoSourceTx
  /\ enq = NoEnqueue
  /\ wk = [w \in Worker |-> Idle]
  /\ outdated = {}
  /\ resaved = {}

-----------------------------------------------------------------------------
(* Rows and the triggers on them.                                           *)

Exists(p) == rows[p].state # "none"

Locked(p) == p \in srcTx.rewritten

RecordLocked == srcTx.record

RecordShared == enq.locked

\* Nothing but the row and record locks keeps the owner's transactions out of an
\* open source transaction.  With Overlap = FALSE they are taken to stay out.
OwnerCommits == srcTx.open => Overlap

\* alexandria_recognition_size_limited
Limited(s) ==
  /\ s.status # "absent"
  /\ Cardinality(s.listed) > policy.limit
  /\ ~policy.allow

Moved(r, state, detail) ==
  [r EXCEPT !.state = state, !.detail = detail, !.lease = NoWorker, !.expired = FALSE,
            !.input = IF state = "ready" THEN r.input ELSE NoContent]

\* Fault: a new request keeps the failures of the last one.
QueuedKeepsAttempts(r) == Moved(r, "queued", "other")

Queued(r) == [Moved(r, "queued", "other") EXCEPT !.attempts = 0]

\* Fault: over the limit, no update of a ready page goes through.
DroppedWhenReady(s, old, new) ==
  \/ new.state = "queued" /\ s.status = "deleted"
  \/ /\ new.state \in Active /\ Limited(s)
     /\ new.state = "processing" \/ old.state \in Held \cup {"ready"}

\* BEFORE UPDATE triggers, in name order: boox_recognition_request, then
\* zz_recognition_page_limit.  An update is dropped ...
Dropped(s, old, new) ==
  \/ new.state = "queued" /\ s.status = "deleted"
  \/ /\ new.state \in Active /\ Limited(s)
     /\ \/ new.state = "processing"
        \/ old.state \in Held
        \/ old.state = "ready" /\ new.text = old.text

\* ... or goes through, retired when the notebook is over the page limit.
Admitted(s, new) ==
  IF new.state \in Active /\ Limited(s) THEN Moved(new, "cancelled", "other") ELSE new

Written(s, old, new) == IF Dropped(s, old, new) THEN old ELSE Admitted(s, new)

\* A statement advances request_version of the pages P.
Bump(P) == outdated' = outdated \cup {w \in Worker : wk[w].page \in P}

\* boox_cancel_deleted_recognition: which rows it matches, and their new value.
CancelMatches(r) == r.state \notin Held \/ r.text # NoContent \/ r.lease # NoWorker

\* Fault: the text of a deleted notebook stays searchable.
CancelDeletedKeepsText(r) ==
  Moved(r, IF r.state \in Held THEN r.state ELSE "cancelled",
           IF r.state \in Held THEN r.detail ELSE "notebook_deleted")

CancelDeleted(r) ==
  [Moved(r, IF r.state \in Held THEN r.state ELSE "cancelled",
            IF r.state \in Held THEN r.detail ELSE "notebook_deleted") EXCEPT !.text = NoContent]

\* boox_invalidate_page_index on a notebook that is not deleted.
KeepsHold(s, r) ==
  \/ r.state \in {"paused", "skipped"}
  \/ r.state = "cancelled" /\ (r.detail # "notebook_deleted" \/ s.status # "live")

\* Fault: the lease survives the invalidation.
InvalidatedUnderLease(s, r) ==
  [r EXCEPT !.state = IF KeepsHold(s, r) THEN r.state ELSE "queued", !.text = NoContent]

Invalidated(s, r) ==
  [Moved(r, IF KeepsHold(s, r) THEN r.state ELSE IF policy.skip THEN "skipped" ELSE "queued",
            IF KeepsHold(s, r) THEN r.detail
            ELSE IF policy.skip THEN "notebook_skipped" ELSE "other")
   EXCEPT !.text = NoContent, !.attempts = 0]

\* The rows a source change to s rewrites.
Rewritten(s) ==
  {p \in Page : /\ Exists(p)
                /\ IF s.status = "deleted" THEN CancelMatches(rows[p])
                   ELSE ~Dropped(s, rows[p], Invalidated(s, rows[p]))}

Rewrite(s, p) ==
  IF s.status = "deleted" THEN CancelDeleted(rows[p]) ELSE Admitted(s, Invalidated(s, rows[p]))

-----------------------------------------------------------------------------
(* The device and the Gateway change the notebook.                          *)

OpenSource(s, record) ==
  /\ ~srcTx.open
  /\ srcTx' = [open |-> TRUE, record |-> record, src |-> s, rewritten |-> Rewritten(s),
                rows |-> [p \in Page |-> IF p \in Rewritten(s) THEN Rewrite(s, p) ELSE NoRow]]
  /\ UNCHANGED <<src, rows, policy, enq, wk, outdated, resaved>>

\* A page file is put or deleted (OSS): the record is not touched.
WriteFile(c) ==
  /\ c # src.content
  /\ OpenSource([src EXCEPT !.content = c], FALSE)

\* The observer projects a new winner; FOR SHARE locks of enqueues hold it off.
WriteRecord(s) ==
  /\ s # src
  /\ ~RecordShared
  /\ OpenSource(s, src.status # "absent")

\* A save that changes only revision bookkeeping leaves the queue alone.
ResaveRecord ==
  /\ ~srcTx.open /\ ~RecordShared
  /\ src.status # "absent"
  /\ resaved' = {w \in Worker : wk[w] # Idle}
  /\ UNCHANGED <<src, rows, policy, srcTx, enq, wk, outdated>>

CommitSource ==
  /\ srcTx.open
  /\ src' = srcTx.src
  /\ rows' = [p \in Page |-> IF Locked(p) THEN srcTx.rows[p] ELSE rows[p]]
  /\ srcTx' = NoSourceTx
  /\ Bump(srcTx.rewritten)
  /\ resaved' = IF srcTx.record \/ src.status # srcTx.src.status
                THEN {w \in Worker : wk[w] # Idle} ELSE resaved
  /\ UNCHANGED <<policy, enq, wk>>

AbortSource ==
  /\ srcTx.open
  /\ srcTx' = NoSourceTx
  /\ UNCHANGED <<src, rows, policy, enq, wk, outdated, resaved>>

-----------------------------------------------------------------------------
(* The owner asks for recognition.  The page ids come from a snapshot taken *)
(* before the transaction, so a page may have left the notebook since.      *)

QueueBegin(P, only) ==
  /\ enq = NoEnqueue
  /\ P # {} /\ (only = "any" => Cardinality(P) = 1)
  /\ only = "finished" => ~policy.skip
  /\ ~RecordLocked
  /\ src.status # "deleted"
  /\ ~Limited(src)
  /\ enq' = [pages |-> P, only |-> only, locked |-> src.status # "absent"]
  /\ UNCHANGED <<src, rows, policy, srcTx, wk, outdated, resaved>>

\* The BEFORE INSERT triggers decide what a first request leaves.
Inserted ==
  IF src.status = "deleted" THEN NoRow
  ELSE IF policy.skip THEN NewRow("skipped", "notebook_skipped")
  ELSE IF Limited(src) THEN NoRow
  ELSE NewRow("queued", "other")

\* Fault: skipped pages are not spared (as before migration 0027).
RequeueableSkipped(only, r) == r.state \notin {"processing", "paused"}

\* The WHERE clause of ON CONFLICT DO UPDATE.
Requeueable(only, r) ==
  IF only = "any" THEN r.state \notin {"processing", "paused", "skipped"}
                  ELSE r.state \in Finished

Requeued == {p \in enq.pages : /\ Exists(p)
                               /\ Requeueable(enq.only, rows[p])
                               /\ ~Dropped(src, rows[p], Queued(rows[p]))}

QueueCommit ==
  /\ enq # NoEnqueue
  /\ \A p \in enq.pages : ~Locked(p)
  /\ OwnerCommits
  /\ rows' = [p \in Page |-> CASE p \in Requeued -> Admitted(src, Queued(rows[p]))
                               [] p \in enq.pages /\ ~Exists(p) -> Inserted
                               [] OTHER -> rows[p]]
  /\ Bump(Requeued)
  /\ enq' = NoEnqueue
  /\ UNCHANGED <<src, policy, srcTx, wk, resaved>>

QueueAbort ==
  /\ enq # NoEnqueue
  /\ enq' = NoEnqueue
  /\ UNCHANGED <<src, rows, policy, srcTx, wk, outdated, resaved>>

-----------------------------------------------------------------------------
(* The owner's controls.                                                    *)

Actions == {"pause", "resume", "cancel", "retry", "skip", "unskip"}

Allowed(action) ==
  CASE action = "pause"  -> Active
    [] action = "resume" -> {"paused"}
    [] action = "cancel" -> {"queued", "processing", "paused", "failed", "blocked"}
    [] action = "retry"  -> {"failed", "blocked"}
    [] action = "skip"   -> {"queued", "paused", "failed", "blocked", "cancelled"}
    [] action = "unskip" -> {"skipped"}

Controlled(action, r) ==
  CASE action = "pause"  -> Moved(r, "paused", "other")
    [] action = "cancel" -> Moved(r, "cancelled", "other")
    [] action = "skip"   -> Moved(r, "skipped", "other")
    [] OTHER -> Queued(r)

\* Jobs whose state no longer allows the action, or whose update a trigger
\* drops, are passed over: no step.
Control(p, action) ==
  /\ Exists(p) /\ ~Locked(p) /\ OwnerCommits
  /\ rows[p].state \in Allowed(action)
  /\ Controlled(action, rows[p]).state = "queued" => ~Limited(src)
  /\ ~Dropped(src, rows[p], Controlled(action, rows[p]))
  /\ rows' = [rows EXCEPT ![p] = Admitted(src, Controlled(action, @))]
  /\ Bump({p})
  /\ UNCHANGED <<src, policy, srcTx, enq, wk, resaved>>

\* One UPDATE moves the rows of P, whose row locks it waits for.
MoveAll(P, state, detail) ==
  /\ \A p \in P : ~Locked(p)
  /\ rows' = [p \in Page |-> IF p \in P THEN Moved(rows[p], state, detail) ELSE rows[p]]

SkipNotebook ==
  LET P == {p \in Page : Exists(p) /\ rows[p].state \notin {"ready", "skipped"}}
  IN /\ OwnerCommits
     /\ policy' = [policy EXCEPT !.skip = TRUE]
     /\ MoveAll(P, "skipped", "notebook_skipped")
     /\ Bump(P)
     /\ UNCHANGED <<src, srcTx, enq, wk, resaved>>

\* Only the pages the notebook skip covered are released.
UnskipNotebook ==
  LET P == {p \in Page : /\ Exists(p) /\ rows[p].state = "skipped"
                         /\ rows[p].detail = "notebook_skipped"}
  IN /\ OwnerCommits
     /\ policy' = [policy EXCEPT !.skip = FALSE]
     /\ MoveAll(P, "cancelled", "other")
     /\ UNCHANGED <<src, srcTx, enq, wk, outdated, resaved>>

\* Fault: work in flight is left to finish.
RetireQueued(new) ==
  LET P == {p \in Page : /\ src.status # "absent" /\ Cardinality(src.listed) > new.limit
                         /\ ~new.allow /\ Exists(p) /\ rows[p].state = "queued"}
  IN MoveAll(P, "cancelled", "other") /\ Bump(P)

\* alexandria_retire_oversized_recognition, after the policy has changed to new.
Retire(new) ==
  LET over == src.status # "absent" /\ Cardinality(src.listed) > new.limit /\ ~new.allow
      P == {p \in Page : over /\ Exists(p) /\ rows[p].state \in Active}
  IN MoveAll(P, "cancelled", "other") /\ Bump(P)

\* The exclusive advisory lock waits for open enqueues.
SetPageLimit(limit) ==
  /\ enq = NoEnqueue /\ OwnerCommits /\ limit # policy.limit
  /\ policy' = [policy EXCEPT !.limit = limit]
  /\ Retire(policy')
  /\ UNCHANGED <<src, srcTx, enq, wk, resaved>>

AllowLarge(allow) ==
  /\ enq = NoEnqueue /\ OwnerCommits /\ ~RecordLocked
  /\ src.status = "live" /\ allow # policy.allow
  /\ policy' = [policy EXCEPT !.allow = allow]
  /\ Retire(policy')
  /\ UNCHANGED <<src, srcTx, enq, wk, resaved>>

-----------------------------------------------------------------------------
(* ProcessPageIndex.                                                        *)

\* Fault: a page whose worker died is not taken again.
ClaimableQueued(p) == Exists(p) /\ ~Locked(p) /\ rows[p].state = "queued" /\ ~Limited(src)

Claimable(p) ==
  /\ Exists(p) /\ ~Locked(p)
  /\ rows[p].state = "queued" \/ (rows[p].state = "processing" /\ rows[p].expired)
  /\ ~Limited(src)

Claim(w, p) ==
  /\ wk[w] = Idle
  /\ Claimable(p)
  /\ rows' = [rows EXCEPT ![p].state = "processing", ![p].lease = w, ![p].expired = FALSE,
                          ![p].input = NoContent]
  /\ wk' = [wk EXCEPT ![w] = [Idle EXCEPT !.phase = "claimed", !.page = p,
                                        !.attempts = rows[p].attempts]]
  /\ outdated' = outdated \ {w}
  /\ resaved' = resaved \ {w}
  /\ UNCHANGED <<src, policy, srcTx, enq>>

\* The worker has its outcome and is about to write it.
Settling(w, at, result) ==
  wk' = [wk EXCEPT ![w].phase = "settling", ![w].at = at, ![w].result = result]

WorkerOnly == UNCHANGED <<src, rows, policy, srcTx, enq, outdated, resaved>>

\* notebookSnapshot and renderPreview: one consistent read of record and files.
Snapshot(w) ==
  /\ wk[w].phase = "claimed"
  /\ IF src.status = "deleted" THEN Settling(w, NoContent, "cancelled")
     ELSE IF src.status = "absent" \/ wk[w].page \notin src.listed
     THEN Settling(w, NoContent, "blocked")
     ELSE \/ \E result \in {"retry", "blocked"} : Settling(w, NoContent, result)
          \/ src.content \in Blank /\ Settling(w, src.content, "ready")
          \/ /\ src.content \notin Blank
             /\ \/ wk' = [wk EXCEPT ![w].phase = "rendered", ![w].at = src.content]
                \/ Settling(w, src.content, "ready")  \* typed text only: no inference
  /\ WorkerOnly

\* The provider answers, or the stored answer for the same image is reused.
Recognize(w) ==
  /\ wk[w].phase = "rendered"
  /\ \/ wk' = [wk EXCEPT ![w].phase = "recognized"]
     \/ \E result \in {"retry", "terminal"} : Settling(w, wk[w].at, result)
  /\ WorkerOnly

\* The second snapshot has the same version: revision and page files.
SameVersion(w) == src.status # "absent" /\ src.content = wk[w].at /\ w \notin resaved

Recheck(w) ==
  /\ wk[w].phase = "recognized"
  /\ \/ Settling(w, wk[w].at, "retry")  \* the read failed
     \/ Settling(w, wk[w].at, IF SameVersion(w) THEN "ready" ELSE "retry")
  /\ WorkerOnly

\* Fault: a result is written by page id alone.
Unfenced(w) == Exists(wk[w].page)

\* The WHERE clause of finish and deferFailure.
Fenced(w) == Exists(wk[w].page) /\ rows[wk[w].page].lease = w /\ w \notin outdated

TextOf(c) == IF c \in Blank THEN NoContent ELSE c

Outcome(w, r) ==
  LET result == wk[w].result
      last == wk[w].attempts >= MaxAttempts \/ result = "terminal"
  IN CASE result = "ready" ->
            [Moved(r, "ready", "other") EXCEPT !.text = TextOf(wk[w].at), !.input = wk[w].at]
       [] result = "blocked" -> Moved(r, "blocked", "other")
       [] result = "cancelled" ->
            [Moved(r, "cancelled", "notebook_deleted") EXCEPT !.text = NoContent]
       [] OTHER -> [Moved(r, IF last THEN "failed" ELSE "queued", "other")
                    EXCEPT !.attempts = @ + 1]

Settle(w) ==
  /\ wk[w].phase = "settling"
  /\ ~Locked(wk[w].page)
  /\ rows' = IF Fenced(w)
             THEN [rows EXCEPT ![wk[w].page] = Written(src, @, Outcome(w, @))]
             ELSE rows
  /\ wk' = [wk EXCEPT ![w] = Idle]
  /\ UNCHANGED <<src, policy, srcTx, enq, outdated, resaved>>

\* A crash, or a database error the worker returns on: the lease stays.
WorkerStops(w) ==
  /\ wk[w] # Idle
  /\ wk' = [wk EXCEPT ![w] = Idle]
  /\ WorkerOnly

LeaseExpires(p) ==
  /\ Exists(p) /\ ~Locked(p)
  /\ rows[p].state = "processing" /\ ~rows[p].expired
  /\ rows' = [rows EXCEPT ![p].expired = TRUE]
  /\ UNCHANGED <<src, policy, srcTx, enq, wk, outdated, resaved>>

-----------------------------------------------------------------------------
Device ==
  \/ \E c \in Content : WriteFile(c)
  \/ \E s \in Drawn : WriteRecord(s)
  \/ ResaveRecord

Owner ==
  \/ \E P \in SUBSET Requested, only \in {"any", "finished"} : QueueBegin(P, only)
  \/ \E p \in Page, action \in Actions : Control(p, action)
  \/ SkipNotebook \/ UnskipNotebook
  \/ \E limit \in Limits : SetPageLimit(limit)
  \/ \E allow \in BOOLEAN : AllowLarge(allow)

WorkerStep(w) == Snapshot(w) \/ Recognize(w) \/ Recheck(w) \/ Settle(w)

Server ==
  \/ CommitSource \/ QueueCommit
  \/ \E p \in Page : LeaseExpires(p)
  \/ \E w \in Worker : WorkerStep(w)
  \/ \E w \in Worker, p \in Page : Claim(w, p)

Failure ==
  \/ AbortSource \/ QueueAbort
  \/ \E w \in Worker : WorkerStops(w)

Next == Device \/ Owner \/ Server \/ Failure

Spec == Init /\ [][Next]_vars

(* Transactions end and clocks advance; the recognition loop runs on its own *)
(* (main.go), takes due pages newest first, and every call it makes has a    *)
(* timeout.  Nothing is assumed of the device, the owner or failures.        *)
Fairness ==
  /\ WF_vars(CommitSource) /\ WF_vars(QueueCommit)
  /\ \A p \in Page : WF_vars(LeaseExpires(p)) /\ SF_vars(\E w \in Worker : Claim(w, p))
  /\ \A w \in Worker : WF_vars(WorkerStep(w))

FairSpec == Spec /\ Fairness

-----------------------------------------------------------------------------
(* Properties.                                                              *)

\* The two halves of the worker's fence agree: while a page still carries a
\* worker's lease token its request_version is the one that worker claimed, and
\* only a page in processing carries one.  Every statement that advances the
\* version must clear the lease, wherever it is written.
LeaseDiscipline ==
  /\ \A p \in Page : rows[p].lease # NoWorker => rows[p].state = "processing"
  /\ \A w \in outdated, p \in Page : wk[w].page = p => rows[p].lease # w

\* Searchable text was read from what the notebook holds now: a device change
\* clears it, and no slow inference brings an older text back.
TextCurrent ==
  src.status # "deleted" =>
    \A p \in Page : rows[p].text # NoContent => rows[p].text = src.content

\* What the owner paused, cancelled or skipped is never reached by work in
\* flight: no worker's late result and no claim takes such a page.
OwnerHold ==
  [][\A p \in Page : rows[p].state \in Held => rows'[p].state \notin {"processing", "ready", "blocked", "failed"}]_vars

\* "Nothing re-queues a skipped page until the owner un-skips it" (migration 0027):
\* enqueues, device changes, retries and workers all leave it skipped.
SkippedStays ==
  [][\A p \in Page : rows[p].state = "skipped" /\ rows'[p].state # "skipped"
       => UnskipNotebook \/ Control(p, "unskip")]_vars

\* "Skipped notebooks: their pages are never queued, now or as they're added"
\* (migration 0027), unless the owner lets a single page back in.
SkippedNotebookIdle ==
  [][\A p \in Page :
       policy.skip /\ policy'.skip /\ rows[p].state \notin Active /\ rows'[p].state = "queued"
         => \E action \in Actions : Control(p, action)]_vars

\* "Lowering the cap or removing an exception ... fences in-flight result
\* publication" (recognition-limit/20261019/implementation.md).
CapFencesResults ==
  [][\A p \in Page : rows[p].state # "ready" /\ rows'[p].state = "ready" /\ src.status = "live"
       => ~Limited(src)]_vars

\* A deleted notebook keeps no finished work and no searchable text ("It cancels
\* existing recognition work ..., clears searchable text, and invalidates leases so
\* an in-flight provider response cannot publish",
\* recognition-deletion/20261019/implementation.md), and nothing waits in the queue
\* of one over the page limit ("Lowering the cap or removing an exception cancels
\* pending oversized work", recognition-limit/20261019/implementation.md).
UnwantedRetired ==
  /\ src.status = "deleted" => \A p \in Page : rows[p].state # "ready" /\ rows[p].text = NoContent
  /\ Limited(src) => \A p \in Page : rows[p].state \notin Active

\* Once the device, the owner and failures leave a notebook alone, its queue
\* empties: a page left processing by a dead worker, deleted or failing again
\* and again is settled, unless the notebook is over the page limit.
QueueDrains ==
  <>[][Server]_vars => <>[](~Limited(src) => \A p \in Page : rows[p].state \notin Active)
=============================================================================
