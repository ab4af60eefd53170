-------------------------- MODULE PageIndexProofs ---------------------------
(***************************************************************************)
(* Theorems of PageIndex for every notebook, every number of workers, every *)
(* limit and every interleaving.                                            *)
(*                                                                          *)
(* The safety argument is one predicate on single rows, Sound, that every   *)
(* way of rewriting a row preserves; the invariant of the whole state then  *)
(* follows action by action.                                                *)
(***************************************************************************)
EXTENDS PageIndex, FiniteSetTheorems, TLAPS

Sound(r) ==
  /\ r \in Row
  /\ r.lease # NoWorker => r.state = "processing"
  /\ r.state \in Active => r.attempts <= MaxAttempts
  /\ r.state = "cancelled" /\ r.detail = "notebook_deleted" => r.text = NoContent
  /\ r.state = "none" => r.text = NoContent

Unleased(r) == Sound(r) /\ r.lease = NoWorker

-----------------------------------------------------------------------------
(* Rows.                                                                    *)

\* What Moved leaves alone and what it clears.
LEMMA MovedFacts ==
  ASSUME NEW r \in Row, NEW state \in States, NEW detail \in Details
  PROVE  LET m == Moved(r, state, detail)
         IN /\ m \in Row
            /\ m.state = state /\ m.detail = detail /\ m.lease = NoWorker
            /\ m.attempts = r.attempts /\ m.text = r.text
BY PageAssumption DEF Moved, Row

\* A row with no attempts behind it, moved to the queue.
LEMMA QueuedFacts ==
  ASSUME NEW r \in Row
  PROVE  /\ Unleased(Queued(r))
         /\ Queued(r).text = r.text /\ Queued(r).state = "queued"
<1> DEFINE m == Moved(r, "queued", "other")
<1>1. "queued" \in States /\ "other" \in Details
  BY DEF States, Active, Details
<1>2. m \in Row /\ m.state = "queued" /\ m.lease = NoWorker /\ m.text = r.text
  BY <1>1, MovedFacts
<1>3. Queued(r) = [m EXCEPT !.attempts = 0]
  BY DEF Queued
<1> HIDE DEF m
<1>4. 0 \in 0..(MaxAttempts + 1) /\ 0 <= MaxAttempts
  BY PageAssumption
<1> QED
  BY <1>2, <1>3, <1>4 DEF Unleased, Sound, Row

LEMMA NoRowUnleased == Unleased(NoRow) /\ NoRow.text = NoContent
BY PageAssumption DEF NoRow, NewRow, Unleased, Sound, Row, States, Active, Details

LEMMA AdmittedFacts ==
  ASSUME NEW s, NEW r \in Row, Unleased(r)
  PROVE  /\ Unleased(Admitted(s, r))
         /\ Admitted(s, r).text = r.text
         /\ Admitted(s, r).state \in {r.state, "cancelled"}
<1>1. "cancelled" \in States /\ "other" \in Details /\ "cancelled" \notin Active
  BY DEF States, Details, Held, Active
<1> DEFINE m == Moved(r, "cancelled", "other")
<1>2. m \in Row /\ m.state = "cancelled" /\ m.detail = "other" /\ m.lease = NoWorker /\ m.text = r.text
  BY <1>1, MovedFacts
<1> HIDE DEF m
<1>3. Unleased(m)
  BY <1>1, <1>2 DEF Unleased, Sound
<1>4. Admitted(s, r) = m \/ Admitted(s, r) = r
  BY DEF Admitted, m
<1> QED
  BY <1>2, <1>3, <1>4

LEMMA CancelDeletedFacts ==
  ASSUME NEW r \in Row
  PROVE  /\ Unleased(CancelDeleted(r))
         /\ CancelDeleted(r).text = NoContent
<1> DEFINE state == IF r.state \in Held THEN r.state ELSE "cancelled"
           detail == IF r.state \in Held THEN r.detail ELSE "notebook_deleted"
<1>1. state \in Held /\ state \in States /\ detail \in Details
  BY DEF Row, Held, States, Details
<1> HIDE DEF state, detail
<1>2. LET m == Moved(r, state, detail) IN m \in Row /\ m.state = state /\ m.lease = NoWorker
  BY <1>1, MovedFacts
<1>3. CancelDeleted(r) = [Moved(r, state, detail) EXCEPT !.text = NoContent]
  BY DEF CancelDeleted, state, detail
<1> QED
  BY <1>1, <1>2, <1>3 DEF Unleased, Sound, Row, Held, Active

LEMMA InvalidatedFacts ==
  ASSUME NEW s, NEW r \in Row
  PROVE  /\ Unleased(Invalidated(s, r))
         /\ Invalidated(s, r).text = NoContent
         /\ Invalidated(s, r).state = IF KeepsHold(s, r) THEN r.state
                                      ELSE IF policy.skip THEN "skipped" ELSE "queued"
<1> DEFINE state == IF KeepsHold(s, r) THEN r.state
                    ELSE IF policy.skip THEN "skipped" ELSE "queued"
           detail == IF KeepsHold(s, r) THEN r.detail
                     ELSE IF policy.skip THEN "notebook_skipped" ELSE "other"
<1>1. state \in States /\ detail \in Details
  BY DEF Row, States, Held, Active, Details
<1> HIDE DEF state, detail
<1>2. LET m == Moved(r, state, detail) IN m \in Row /\ m.state = state /\ m.lease = NoWorker
  BY <1>1, MovedFacts
<1>3. Invalidated(s, r) = [Moved(r, state, detail) EXCEPT !.text = NoContent, !.attempts = 0]
  BY DEF Invalidated, state, detail
<1>4. 0 \in 0..(MaxAttempts + 1) /\ 0 <= MaxAttempts
  BY PageAssumption
<1> QED
  BY <1>1, <1>2, <1>3, <1>4 DEF Unleased, Sound, Row, Active, state

LEMMA RewriteFacts ==
  ASSUME NEW s, NEW p \in Page, rows[p] \in Row
  PROVE  Unleased(Rewrite(s, p)) /\ Rewrite(s, p).text = NoContent
<1>1. CASE s.status = "deleted"
  BY <1>1, CancelDeletedFacts DEF Rewrite
<1>2. CASE s.status # "deleted"
  <2>1. Unleased(Invalidated(s, rows[p])) /\ Invalidated(s, rows[p]).text = NoContent
    BY InvalidatedFacts
  <2>2. Invalidated(s, rows[p]) \in Row
    BY <2>1 DEF Unleased, Sound
  <2> QED
    BY <1>2, <2>1, <2>2, AdmittedFacts DEF Rewrite
<1> QED
  BY <1>1, <1>2

-----------------------------------------------------------------------------
(* The invariant.                                                           *)

\* A worker that still holds its page counts the attempts the row counts.
ClaimCounted ==
  \A w \in Worker, p \in Page :
    wk[w].page = p /\ rows[p].lease = w => rows[p].attempts = wk[w].attempts

RowPart == (\A p \in Page : Sound(rows[p])) /\ LeaseDiscipline /\ ClaimCounted

TxPart == \A p \in Page : Unleased(srcTx.rows[p])

Inv == TypeOK /\ RowPart /\ TxPart

\* Workers keep their pages or let them go.
NoWorkerMoves ==
  \A w \in Worker : wk'[w].page \in Page => /\ wk'[w].page = wk[w].page
                                           /\ wk'[w].attempts = wk[w].attempts

\* Whatever a statement does to rows, the invariant of the rows survives if it
\* leaves a row alone or takes it from its worker, and the workers it outdates
\* are among those it took a row from.
LEMMA RowStep ==
  ASSUME TypeOK, RowPart,
         \A p \in Page : rows'[p] = rows[p] \/ Unleased(rows'[p]),
         NoWorkerMoves,
         NEW P \in SUBSET Page,
         \A p \in P : Unleased(rows'[p]),
         outdated' = outdated \cup {w \in Worker : wk[w].page \in P}
  PROVE  RowPart'
<1>1. \A p \in Page : Sound(rows[p])
  BY DEF RowPart
<1>2. \A p \in Page : Sound(rows'[p])
  BY <1>1 DEF Unleased
<1>3. \A p \in Page : rows'[p].lease # NoWorker => rows'[p].state = "processing"
  BY <1>2 DEF Sound
<1>4. ASSUME NEW w \in outdated', NEW p \in Page, wk'[w].page = p PROVE rows'[p].lease # w
  <2>0. w \in Worker /\ wk[w].page = p
    BY <1>4 DEF TypeOK, NoWorkerMoves
  <2>1. CASE p \in P
    BY <2>0, <2>1, PageAssumption DEF Unleased
  <2>2. CASE p \notin P
    <3>1. w \in outdated
      BY <2>0, <2>2, <1>4
    <3>2. rows[p].lease # w
      BY <2>0, <3>1 DEF RowPart, LeaseDiscipline, TypeOK
    <3> QED
      BY <2>0, <3>2, PageAssumption DEF Unleased
  <2> QED
    BY <2>1, <2>2
<1>5. ASSUME NEW w \in Worker, NEW p \in Page, wk'[w].page = p, rows'[p].lease = w
      PROVE  rows'[p].attempts = wk'[w].attempts
  <2>1. rows'[p] = rows[p]
    BY <1>5, PageAssumption DEF Unleased
  <2> QED
    BY <1>5, <2>1 DEF RowPart, ClaimCounted, NoWorkerMoves
<1> QED
  BY <1>2, <1>3, <1>4, <1>5 DEF RowPart, LeaseDiscipline, ClaimCounted

\* The same when no version advances.
LEMMA RowStepSameVersion ==
  ASSUME TypeOK, RowPart,
         \A p \in Page : rows'[p] = rows[p] \/ Unleased(rows'[p]),
         NoWorkerMoves, outdated' = outdated
  PROVE  RowPart'
<1>1. outdated' = outdated \cup {w \in Worker : wk[w].page \in {}}
  OBVIOUS
<1>2. {} \in SUBSET Page /\ \A p \in {} : Unleased(rows'[p])
  OBVIOUS
<1> QED
  BY <1>1, <1>2, RowStep

LEMMA InitInv == Init => Inv
<1> SUFFICES ASSUME Init PROVE Inv
  OBVIOUS
<1>1. NoRow \in Row /\ Unleased(NoRow)
  BY NoRowUnleased DEF Unleased, Sound
<1>2. rows \in [Page -> Row] /\ \A p \in Page : Sound(rows[p]) /\ rows[p].lease = NoWorker
  BY <1>1 DEF Init, Unleased
<1>3. Idle \in WorkerState /\ Idle.phase = "idle" /\ Idle.page \notin Page
  BY PageAssumption DEF Idle, WorkerState, Results
<1>4. NoSourceTx \in SourceTx /\ ~NoSourceTx.open /\ \A p \in Page : NoSourceTx.rows[p] = NoRow
  BY <1>1 DEF NoSourceTx, SourceTx, Statuses
<1>5. TypeOK
  <2>1. src \in Source
    BY DrawnAssumption DEF Init
  <2>2. policy \in [skip : BOOLEAN, limit : Limits, allow : BOOLEAN]
    BY DEF Init
  <2>3. enq \in Enqueue
    BY DEF Init, NoEnqueue, Enqueue
  <2> QED
    BY <1>2, <1>3, <1>4, <2>1, <2>2, <2>3 DEF Init, TypeOK
<1>6. RowPart
  <2>1. LeaseDiscipline
    BY <1>2 DEF LeaseDiscipline, Init
  <2>2. ClaimCounted
    BY <1>3 DEF ClaimCounted, Init
  <2> QED
    BY <1>2, <2>1, <2>2 DEF RowPart
<1>7. TxPart
  BY <1>1, <1>4 DEF TxPart, Init
<1> QED
  BY <1>5, <1>6, <1>7 DEF Inv

Counted(w, r) == r.attempts = wk[w].attempts /\ r.attempts <= MaxAttempts

\* What a worker writes over a row that counts as many attempts as it does.
LEMMA OutcomeFacts ==
  ASSUME NEW w \in Worker, wk[w] \in WorkerState, NEW r \in Row,
         Counted(w, r)
  PROVE  Unleased(Outcome(w, r))
<1>1. /\ "ready" \in States /\ "blocked" \in States /\ "cancelled" \in States
      /\ "failed" \in States /\ "queued" \in States
      /\ "other" \in Details /\ "notebook_deleted" \in Details
  BY DEF States, Details, Active, Held, Finished
<1>2. "ready" \notin Active /\ "blocked" \notin Active /\ "failed" \notin Active /\ "cancelled" \notin Active
  BY DEF Active
<1>3. MaxAttempts \in Nat /\ r.attempts \in Nat
  BY PageAssumption DEF Row
<1>4. CASE wk[w].result = "ready"
  <2> DEFINE m == Moved(r, "ready", "other")
  <2>1. m \in Row /\ m.state = "ready" /\ m.lease = NoWorker
    BY <1>1, MovedFacts
  <2>2. Outcome(w, r) = [m EXCEPT !.text = TextOf(wk[w].at), !.input = wk[w].at]
    BY <1>4 DEF Outcome
  <2> HIDE DEF m
  <2>3. TextOf(wk[w].at) \in Content \cup {NoContent} /\ wk[w].at \in Content \cup {NoContent}
    BY DEF TextOf, WorkerState
  <2> QED
    <3>1. /\ Outcome(w, r) \in Row /\ Outcome(w, r).state = "ready"
          /\ Outcome(w, r).lease = NoWorker
      BY <2>1, <2>2, <2>3 DEF Row
    <3> QED
      BY <3>1, <1>2 DEF Unleased, Sound
<1>5. CASE wk[w].result = "blocked"
  <2> DEFINE m == Moved(r, "blocked", "other")
  <2>1. m \in Row /\ m.state = "blocked" /\ m.lease = NoWorker
    BY <1>1, MovedFacts
  <2>2. Outcome(w, r) = m
    BY <1>5 DEF Outcome
  <2> HIDE DEF m
  <2> QED
    BY <2>1, <2>2, <1>2 DEF Unleased, Sound
<1>6. CASE wk[w].result = "cancelled"
  <2> DEFINE m == Moved(r, "cancelled", "notebook_deleted")
  <2>1. m \in Row /\ m.state = "cancelled" /\ m.lease = NoWorker
    BY <1>1, MovedFacts
  <2>2. Outcome(w, r) = [m EXCEPT !.text = NoContent]
    BY <1>6 DEF Outcome
  <2> HIDE DEF m
  <2> QED
    BY <2>1, <2>2, <1>2 DEF Unleased, Sound, Row
<1>7. CASE wk[w].result \notin {"ready", "blocked", "cancelled"}
  <2> DEFINE last == wk[w].attempts >= MaxAttempts \/ wk[w].result = "terminal"
             state == IF last THEN "failed" ELSE "queued"
             m == Moved(r, state, "other")
  <2>1. state \in States /\ (state = "failed" \/ r.attempts < MaxAttempts)
    BY <1>1, <1>3 DEF Counted
  <2>1a. state \in {"failed", "queued"}
    OBVIOUS
  <2>2. Outcome(w, r) = [m EXCEPT !.attempts = @ + 1]
    BY <1>7 DEF Outcome
  <2> HIDE DEF state
  <2>3. m \in Row /\ m.state = state /\ m.lease = NoWorker /\ m.attempts = r.attempts
    BY <2>1, <1>1, MovedFacts
  <2> HIDE DEF m
  <2>4. r.attempts + 1 \in 0..(MaxAttempts + 1) /\ (state # "failed" => r.attempts + 1 <= MaxAttempts)
    BY <1>3, <2>1 DEF Counted
  <2>5. /\ Outcome(w, r) \in Row /\ Outcome(w, r).state = state /\ Outcome(w, r).lease = NoWorker
        /\ Outcome(w, r).attempts = r.attempts + 1
    BY <2>2, <2>3, <2>4 DEF Row
  <2> QED
    <3>1. Outcome(w, r).state \in Active => state # "failed"
      BY <2>5, <1>2
    <3>2. Outcome(w, r).state # "cancelled" /\ Outcome(w, r).state # "none"
      BY <2>1a, <2>5
    <3> QED
      BY <2>4, <2>5, <3>1, <3>2 DEF Unleased, Sound, Active
<1> QED
  BY <1>4, <1>5, <1>6, <1>7

-----------------------------------------------------------------------------
(* Every action preserves the invariant.                                    *)

\* A row moved out of the queue, its text not that of a deleted notebook.
LEMMA MovedUnleased ==
  ASSUME NEW r \in Row, NEW state \in Held
  PROVE  Unleased(Moved(r, state, "other")) /\ Unleased(Moved(r, state, "notebook_skipped"))
<1>1. "other" \in Details /\ "notebook_skipped" \in Details /\ state \in States
  BY DEF Details, States
<1> DEFINE a == Moved(r, state, "other")
           b == Moved(r, state, "notebook_skipped")
<1>2. /\ a \in Row /\ a.state = state /\ a.lease = NoWorker /\ a.detail = "other"
      /\ b \in Row /\ b.state = state /\ b.lease = NoWorker /\ b.detail = "notebook_skipped"
  BY <1>1, MovedFacts
<1> HIDE DEF a, b
<1>3. state \notin Active /\ state # "none"
  BY DEF Held, Active
<1>4. Unleased(a) /\ Unleased(b)
  BY <1>2, <1>3 DEF Unleased, Sound
<1> QED
  BY <1>4 DEF a, b

LEMMA ControlledFacts ==
  ASSUME NEW r \in Row, NEW action
  PROVE  Unleased(Controlled(action, r))
<1>1. "paused" \in Held /\ "cancelled" \in Held /\ "skipped" \in Held
  BY DEF States, Active, Held
<1>2. \/ Controlled(action, r) = Moved(r, "paused", "other")
      \/ Controlled(action, r) = Moved(r, "cancelled", "other")
      \/ Controlled(action, r) = Moved(r, "skipped", "other")
      \/ Controlled(action, r) = Queued(r)
  BY DEF Controlled
<1> QED
  BY <1>1, <1>2, MovedUnleased, QueuedFacts

LEMMA InsertedFacts == Unleased(Inserted) /\ Inserted.text = NoContent
<1>1. Unleased(NewRow("skipped", "notebook_skipped")) /\ Unleased(NewRow("queued", "other"))
  BY PageAssumption DEF NewRow, Unleased, Sound, Row, States, Active, Held, Details
<1>2. NewRow("skipped", "notebook_skipped").text = NoContent /\ NewRow("queued", "other").text = NoContent
  BY DEF NewRow
<1> QED
  BY <1>1, <1>2, NoRowUnleased DEF Inserted

\* Every statement of the owner replaces rows by unleased ones, so the types of
\* the rows need no proof of their own.
LEMMA RowsTyped ==
  ASSUME TypeOK, NEW f, rows' = [p \in Page |-> f[p]],
         \A p \in Page : f[p] = rows[p] \/ Unleased(f[p])
  PROVE  /\ rows' \in [Page -> Row]
         /\ \A p \in Page : rows'[p] = rows[p] \/ Unleased(rows'[p])
BY DEF TypeOK, Unleased, Sound

LEMMA OpenSourceStep ==
  ASSUME Inv, NEW s \in Source, NEW record \in BOOLEAN, OpenSource(s, record)
  PROVE  Inv'
<1> DEFINE f == [p \in Page |-> IF p \in Rewritten(s) THEN Rewrite(s, p) ELSE NoRow]
<1>1. Rewritten(s) \in SUBSET Page
  BY DEF Rewritten
<1>2. \A p \in Page : rows[p] \in Row
  BY DEF Inv, TypeOK
<1>3. \A p \in Page : Unleased(f[p])
  BY <1>2, RewriteFacts, NoRowUnleased
<1>4. f \in [Page -> Row]
  BY <1>3 DEF Unleased, Sound
<1>5. srcTx' = [open |-> TRUE, record |-> record, src |-> s, rewritten |-> Rewritten(s), rows |-> f]
  BY DEF OpenSource
<1> HIDE DEF f
<1>6. srcTx' \in SourceTx /\ srcTx'.src \in Source /\ srcTx'.rows = f
  BY <1>1, <1>4, <1>5 DEF SourceTx, Source
<1>7. TypeOK'
  BY <1>6 DEF Inv, TypeOK, OpenSource
<1>8. RowPart'
  BY DEF Inv, RowPart, LeaseDiscipline, ClaimCounted, OpenSource
<1>9. TxPart'
  BY <1>3, <1>6 DEF TxPart
<1> QED
  BY <1>7, <1>8, <1>9 DEF Inv

LEMMA DeviceStep == Inv /\ Device => Inv'
<1> SUFFICES ASSUME Inv, Device PROVE Inv'
  OBVIOUS
<1>1. ASSUME NEW c \in Content, WriteFile(c) PROVE Inv'
  <2>1. [src EXCEPT !.content = c] \in Source
    BY DEF Inv, TypeOK, Source
  <2> QED
    BY <1>1, <2>1, OpenSourceStep DEF WriteFile
<1>2. ASSUME NEW s \in Drawn, WriteRecord(s) PROVE Inv'
  <2>1. s \in Source
    BY DrawnAssumption
  <2> QED
    BY <1>2, <2>1, OpenSourceStep DEF WriteRecord
<1>3. CASE ResaveRecord
  <2>1. resaved' \in SUBSET Worker
    BY <1>3 DEF ResaveRecord
  <2>2. TypeOK'
    BY <1>3, <2>1 DEF ResaveRecord, Inv, TypeOK
  <2>3. RowPart' /\ TxPart'
    BY <1>3 DEF ResaveRecord, Inv, RowPart, LeaseDiscipline, ClaimCounted, TxPart
  <2> QED
    BY <2>2, <2>3 DEF Inv
<1> QED
  BY <1>1, <1>2, <1>3 DEF Device

\* A transaction that replaces rows by unleased ones, advances the versions of
\* some of those it replaces and leaves workers and source transaction alone.
LEMMA OwnerStep ==
  ASSUME Inv,
         rows' \in [Page -> Row], \A p \in Page : rows'[p] = rows[p] \/ Unleased(rows'[p]),
         UNCHANGED <<src, srcTx, wk, resaved>>,
         policy' \in [skip : BOOLEAN, limit : Limits, allow : BOOLEAN], enq' \in Enqueue,
         NEW P \in SUBSET Page, Bump(P), \A p \in P : Unleased(rows'[p])
  PROVE  Inv'
<1>1. outdated' = outdated \cup {w \in Worker : wk[w].page \in P}
  BY DEF Bump
<1>2. TypeOK'
  BY <1>1 DEF Inv, TypeOK
<1>3. TypeOK /\ RowPart /\ wk' = wk
  BY DEF Inv
<1>4. RowPart'
  BY <1>1, <1>3, RowStep DEF NoWorkerMoves
<1>5. TxPart'
  BY DEF Inv, TxPart
<1> QED
  BY <1>2, <1>4, <1>5 DEF Inv

\* The same when it advances no version.
LEMMA OwnerStepSameVersion ==
  ASSUME Inv,
         rows' \in [Page -> Row], \A p \in Page : rows'[p] = rows[p] \/ Unleased(rows'[p]),
         UNCHANGED <<src, srcTx, wk, resaved, outdated>>,
         policy' \in [skip : BOOLEAN, limit : Limits, allow : BOOLEAN], enq' \in Enqueue
  PROVE  Inv'
<1>1. Bump({})
  BY DEF Bump
<1>2. {} \in SUBSET Page /\ \A p \in {} : Unleased(rows'[p])
  OBVIOUS
<1> QED
  BY <1>1, <1>2, OwnerStep

\* One UPDATE that takes the pages P out of the queue.
LEMMA MoveAllFacts ==
  ASSUME Inv, NEW P \in SUBSET Page, NEW state \in Held,
         NEW detail \in {"other", "notebook_skipped"}, MoveAll(P, state, detail)
  PROVE  /\ rows' \in [Page -> Row]
         /\ \A p \in Page : rows'[p] = rows[p] \/ Unleased(rows'[p])
         /\ \A p \in P : Unleased(rows'[p])
<1> DEFINE f == [p \in Page |-> IF p \in P THEN Moved(rows[p], state, detail) ELSE rows[p]]
<1>1. \A p \in Page : rows[p] \in Row
  BY DEF Inv, TypeOK
<1>2. \A p \in P : Unleased(Moved(rows[p], state, detail))
  BY <1>1, MovedUnleased
<1>3. rows' = f
  BY DEF MoveAll
<1>4. \A p \in Page : f[p] = rows[p] \/ Unleased(f[p])
  BY <1>2
<1>5. \A p \in P : f[p] = Moved(rows[p], state, detail)
  OBVIOUS
<1>6. f = [p \in Page |-> f[p]]
  OBVIOUS
<1> HIDE DEF f
<1>7. TypeOK
  BY DEF Inv
<1> QED
  BY <1>2, <1>3, <1>4, <1>5, <1>6, <1>7, RowsTyped

LEMMA PolicyFacts ==
  ASSUME Inv
  PROVE  /\ \A skip \in BOOLEAN : [policy EXCEPT !.skip = skip] \in [skip : BOOLEAN, limit : Limits, allow : BOOLEAN]
         /\ \A limit \in Limits : [policy EXCEPT !.limit = limit] \in [skip : BOOLEAN, limit : Limits, allow : BOOLEAN]
         /\ \A allow \in BOOLEAN : [policy EXCEPT !.allow = allow] \in [skip : BOOLEAN, limit : Limits, allow : BOOLEAN]
         /\ policy \in [skip : BOOLEAN, limit : Limits, allow : BOOLEAN]
         /\ enq \in Enqueue
BY DEF Inv, TypeOK

LEMMA RetireStep ==
  ASSUME Inv, policy' \in [skip : BOOLEAN, limit : Limits, allow : BOOLEAN],
         Retire(policy'), UNCHANGED <<src, srcTx, enq, wk, resaved>>
  PROVE  Inv'
<1> DEFINE P == {p \in Page : /\ src.status # "absent" /\ Cardinality(src.listed) > policy'.limit
                              /\ ~policy'.allow /\ Exists(p) /\ rows[p].state \in Active}
<1>1. MoveAll(P, "cancelled", "other") /\ Bump(P)
  BY DEF Retire
<1>2. P \in SUBSET Page
  OBVIOUS
<1> HIDE DEF P
<1>3. "cancelled" \in Held
  BY DEF States, Active, Held
<1>4. enq' \in Enqueue
  BY PolicyFacts
<1> QED
  BY <1>1, <1>2, <1>3, <1>4, MoveAllFacts, OwnerStep

LEMMA ControlStep ==
  ASSUME Inv, NEW p \in Page, NEW action \in Actions, Control(p, action)
  PROVE  Inv'
<1> DEFINE new == Admitted(src, Controlled(action, rows[p]))
           f == [rows EXCEPT ![p] = new]
<1>1. rows[p] \in Row
  BY DEF Inv, TypeOK
<1>2. Unleased(Controlled(action, rows[p])) /\ Controlled(action, rows[p]) \in Row
  BY <1>1, ControlledFacts DEF Unleased, Sound
<1>3. Unleased(new)
  BY <1>2, AdmittedFacts
<1>4. rows' = [rows EXCEPT ![p] = new] /\ Bump({p}) /\ UNCHANGED <<src, policy, srcTx, enq, wk, resaved>>
  BY DEF Control
<1> HIDE DEF new
<1>5. new \in Row
  BY <1>3 DEF Unleased, Sound
<1>6. rows' \in [Page -> Row] /\ rows'[p] = new /\ \A q \in Page : rows'[q] = rows[q] \/ Unleased(rows'[q])
  BY <1>3, <1>4, <1>5 DEF Inv, TypeOK
<1>7. {p} \in SUBSET Page /\ \A q \in {p} : Unleased(rows'[q])
  BY <1>3, <1>6
<1>8. policy' \in [skip : BOOLEAN, limit : Limits, allow : BOOLEAN] /\ enq' \in Enqueue
  BY <1>4, PolicyFacts
<1> QED
  BY <1>4, <1>6, <1>7, <1>8, OwnerStep

LEMMA SkipStep ==
  ASSUME Inv, SkipNotebook \/ UnskipNotebook
  PROVE  Inv'
<1>1. "skipped" \in Held /\ "cancelled" \in Held
  BY DEF States, Active, Held
<1>2. CASE SkipNotebook
  <2> DEFINE P == {p \in Page : Exists(p) /\ rows[p].state \notin {"ready", "skipped"}}
  <2>1. MoveAll(P, "skipped", "notebook_skipped") /\ Bump(P)
        /\ policy' = [policy EXCEPT !.skip = TRUE] /\ UNCHANGED <<src, srcTx, enq, wk, resaved>>
    BY <1>2 DEF SkipNotebook
  <2>2. P \in SUBSET Page
    OBVIOUS
  <2> HIDE DEF P
  <2>3. policy' \in [skip : BOOLEAN, limit : Limits, allow : BOOLEAN] /\ enq' \in Enqueue
    BY <2>1, PolicyFacts
  <2> QED
    BY <1>1, <2>1, <2>2, <2>3, MoveAllFacts, OwnerStep
<1>3. CASE UnskipNotebook
  <2> DEFINE P == {p \in Page : /\ Exists(p) /\ rows[p].state = "skipped"
                                /\ rows[p].detail = "notebook_skipped"}
  <2>1. MoveAll(P, "cancelled", "other")
        /\ policy' = [policy EXCEPT !.skip = FALSE] /\ UNCHANGED <<src, srcTx, enq, wk, outdated, resaved>>
    BY <1>3 DEF UnskipNotebook
  <2>2. P \in SUBSET Page
    OBVIOUS
  <2> HIDE DEF P
  <2>3. policy' \in [skip : BOOLEAN, limit : Limits, allow : BOOLEAN] /\ enq' \in Enqueue
    BY <2>1, PolicyFacts
  <2> QED
    BY <1>1, <2>1, <2>2, <2>3, MoveAllFacts, OwnerStepSameVersion
<1> QED
  BY <1>2, <1>3

LEMMA OwnerActions == Inv /\ Owner => Inv'
<1> SUFFICES ASSUME Inv, Owner PROVE Inv'
  OBVIOUS
<1>1. ASSUME NEW P \in SUBSET Requested, NEW only \in {"any", "finished"}, QueueBegin(P, only) PROVE Inv'
  <2>1. P \in SUBSET Page
    BY PageAssumption
  <2>2. enq' \in Enqueue
    BY <1>1, <2>1 DEF QueueBegin, Enqueue
  <2>3. policy' \in [skip : BOOLEAN, limit : Limits, allow : BOOLEAN]
        /\ UNCHANGED <<src, rows, srcTx, wk, outdated, resaved>>
    BY <1>1, PolicyFacts DEF QueueBegin
  <2>4. rows' \in [Page -> Row] /\ \A p \in Page : rows'[p] = rows[p] \/ Unleased(rows'[p])
    BY <2>3 DEF Inv, TypeOK
  <2> QED
    BY <2>2, <2>3, <2>4, OwnerStepSameVersion
<1>2. ASSUME NEW p \in Page, NEW action \in Actions, Control(p, action) PROVE Inv'
  BY <1>2, ControlStep
<1>3. CASE SkipNotebook \/ UnskipNotebook
  BY <1>3, SkipStep
<1>4. ASSUME NEW limit \in Limits, SetPageLimit(limit) PROVE Inv'
  BY <1>4, RetireStep, PolicyFacts DEF SetPageLimit
<1>5. ASSUME NEW allow \in BOOLEAN, AllowLarge(allow) PROVE Inv'
  BY <1>5, RetireStep, PolicyFacts DEF AllowLarge
<1> QED
  BY <1>1, <1>2, <1>3, <1>4, <1>5 DEF Owner

LEMMA CommitSourceStep == Inv /\ CommitSource => Inv'
<1> SUFFICES ASSUME Inv, CommitSource PROVE Inv'
  OBVIOUS
<1> DEFINE f == [p \in Page |-> IF Locked(p) THEN srcTx.rows[p] ELSE rows[p]]
<1>1. TypeOK /\ RowPart
  BY DEF Inv
<1>2. rows' = f /\ src' = srcTx.src /\ srcTx' = NoSourceTx /\ Bump(srcTx.rewritten)
      /\ UNCHANGED <<policy, enq, wk>> /\ srcTx.open
  BY DEF CommitSource
<1>3. srcTx.rewritten \in SUBSET Page
  BY <1>1 DEF TypeOK, SourceTx
<1>4. \A p \in Page : f[p] = rows[p] \/ Unleased(f[p])
  BY DEF Inv, TxPart
<1>5. \A p \in srcTx.rewritten : Unleased(f[p])
  BY <1>3 DEF Inv, TxPart, Locked
<1>6. f = [p \in Page |-> f[p]]
  OBVIOUS
<1> HIDE DEF f
<1>7. rows' \in [Page -> Row] /\ \A p \in Page : rows'[p] = rows[p] \/ Unleased(rows'[p])
  BY <1>1, <1>2, <1>4, <1>6, RowsTyped
<1>8. outdated' = outdated \cup {w \in Worker : wk[w].page \in srcTx.rewritten}
  BY <1>2 DEF Bump
<1>9. RowPart'
  BY <1>1, <1>2, <1>3, <1>5, <1>7, <1>8, RowStep DEF NoWorkerMoves
<1>10. NoSourceTx \in SourceTx /\ ~NoSourceTx.open /\ \A p \in Page : NoSourceTx.rows[p] = NoRow
  BY NoRowUnleased DEF NoSourceTx, SourceTx, Statuses, Unleased, Sound
<1>11. resaved' \in SUBSET Worker
  BY <1>1 DEF CommitSource, TypeOK
<1>12. TypeOK'
  BY <1>1, <1>2, <1>7, <1>8, <1>10, <1>11 DEF TypeOK
<1>13. TxPart'
  BY <1>2, <1>10, NoRowUnleased DEF TxPart
<1> QED
  BY <1>9, <1>12, <1>13 DEF Inv

LEMMA QueueCommitStep == Inv /\ QueueCommit => Inv'
<1> SUFFICES ASSUME Inv, QueueCommit PROVE Inv'
  OBVIOUS
<1> DEFINE f == [p \in Page |-> CASE p \in Requeued -> Admitted(src, Queued(rows[p]))
                                  [] p \in enq.pages /\ ~Exists(p) -> Inserted
                                  [] OTHER -> rows[p]]
<1>1. TypeOK
  BY DEF Inv
<1>2. enq.pages \in SUBSET Page
  BY <1>1 DEF TypeOK, Enqueue
<1>3. Requeued \in SUBSET Page
  BY <1>2 DEF Requeued
<1>4. ASSUME NEW p \in Page PROVE Unleased(Admitted(src, Queued(rows[p])))
  <2>1. rows[p] \in Row
    BY <1>1 DEF TypeOK
  <2>2. Unleased(Queued(rows[p])) /\ Queued(rows[p]) \in Row
    BY <2>1, QueuedFacts DEF Unleased, Sound
  <2> QED
    BY <2>2, AdmittedFacts
<1>5. \A p \in Requeued : f[p] = Admitted(src, Queued(rows[p]))
  BY <1>3 DEF Requeued
<1>6. \A p \in Page \ Requeued : f[p] = Inserted \/ f[p] = rows[p]
  OBVIOUS
<1>7. f = [p \in Page |-> f[p]]
  OBVIOUS
<1>8. rows' = f /\ Bump(Requeued) /\ enq' = NoEnqueue /\ UNCHANGED <<src, policy, srcTx, wk, resaved>>
  BY DEF QueueCommit
<1> HIDE DEF f
<1>9. \A p \in Requeued : Unleased(f[p])
  BY <1>3, <1>4, <1>5
<1>10. \A p \in Page : f[p] = rows[p] \/ Unleased(f[p])
  BY <1>6, <1>9, InsertedFacts
<1>11. rows' \in [Page -> Row] /\ \A p \in Page : rows'[p] = rows[p] \/ Unleased(rows'[p])
  BY <1>1, <1>7, <1>8, <1>10, RowsTyped
<1>12. policy' \in [skip : BOOLEAN, limit : Limits, allow : BOOLEAN] /\ enq' \in Enqueue
  BY <1>8, PolicyFacts DEF NoEnqueue, Enqueue
<1> QED
  BY <1>3, <1>8, <1>9, <1>11, <1>12, OwnerStep

LEMMA ClaimStep ==
  ASSUME Inv, NEW w \in Worker, NEW p \in Page, Claim(w, p)
  PROVE  Inv'
<1> DEFINE r == [rows[p] EXCEPT !.state = "processing", !.lease = w, !.expired = FALSE,
                                !.input = NoContent]
           k == [Idle EXCEPT !.phase = "claimed", !.page = p, !.attempts = rows[p].attempts]
<1>1. TypeOK /\ RowPart /\ rows[p] \in Row /\ Sound(rows[p])
  BY DEF Inv, TypeOK, RowPart
<1>2. rows' = [rows EXCEPT ![p] = r] /\ wk' = [wk EXCEPT ![w] = k]
      /\ outdated' = outdated \ {w} /\ resaved' = resaved \ {w}
      /\ UNCHANGED <<src, policy, srcTx, enq>>
  BY <1>1 DEF Claim, TypeOK
<1>3. rows[p].state \in Active
  BY DEF Claim, Claimable, Active
<1>4. r \in Row /\ r.state = "processing" /\ r.lease = w /\ r.attempts = rows[p].attempts
      /\ r.text = rows[p].text
  BY <1>1 DEF Row, States, Active
<1>5. Sound(r)
  BY <1>1, <1>3, <1>4 DEF Sound
<1>6. k \in WorkerState /\ k.page = p /\ k.attempts = rows[p].attempts
  BY <1>1 DEF Row, WorkerState, Idle, Results
<1> HIDE DEF r, k
<1>7. /\ rows'[p] = r /\ wk'[w] = k
      /\ \A q \in Page \ {p} : rows'[q] = rows[q]
      /\ \A v \in Worker \ {w} : wk'[v] = wk[v]
  BY <1>1, <1>2 DEF TypeOK
<1>8. rows' \in [Page -> Row] /\ wk' \in [Worker -> WorkerState]
  BY <1>1, <1>2, <1>4, <1>6 DEF TypeOK
<1>9. TypeOK'
  <2>1. \A v \in Worker : wk'[v].phase # "idle" => wk'[v].page \in Page
    BY <1>1, <1>6, <1>7 DEF TypeOK
  <2> QED
    BY <1>1, <1>2, <1>8, <2>1 DEF TypeOK
<1>10. RowPart'
  <2>1. \A q \in Page : Sound(rows'[q])
    BY <1>1, <1>5, <1>7 DEF RowPart
  <2>2. LeaseDiscipline'
    BY <1>1, <1>2, <1>4, <1>7 DEF RowPart, LeaseDiscipline, TypeOK
  <2>3. ClaimCounted'
    BY <1>1, <1>4, <1>6, <1>7 DEF RowPart, ClaimCounted
  <2> QED
    BY <2>1, <2>2, <2>3 DEF RowPart
<1>11. TxPart'
  BY <1>2 DEF Inv, TxPart
<1> QED
  BY <1>9, <1>10, <1>11 DEF Inv

LEMMA LeaseExpiresStep ==
  ASSUME Inv, NEW p \in Page, LeaseExpires(p)
  PROVE  Inv'
<1> DEFINE r == [rows[p] EXCEPT !.expired = TRUE]
<1>1. TypeOK /\ RowPart /\ rows[p] \in Row /\ Sound(rows[p])
  BY DEF Inv, TypeOK, RowPart
<1>2. rows' = [rows EXCEPT ![p] = r] /\ UNCHANGED <<src, policy, srcTx, enq, wk, outdated, resaved>>
  BY <1>1 DEF LeaseExpires, TypeOK
<1>3. r \in Row /\ r.state = rows[p].state /\ r.lease = rows[p].lease /\ r.text = rows[p].text
      /\ r.attempts = rows[p].attempts /\ r.detail = rows[p].detail
  BY <1>1 DEF Row
<1> HIDE DEF r
<1>4. Sound(r)
  BY <1>1, <1>3 DEF Sound
<1>5. rows'[p] = r /\ rows' \in [Page -> Row] /\ \A q \in Page \ {p} : rows'[q] = rows[q]
  BY <1>1, <1>2, <1>3 DEF TypeOK
<1>6. TypeOK'
  BY <1>1, <1>2, <1>5 DEF TypeOK
<1>7. RowPart'
  BY <1>1, <1>2, <1>3, <1>4, <1>5 DEF RowPart, LeaseDiscipline, ClaimCounted
<1> QED
  BY <1>2, <1>6, <1>7 DEF Inv, TxPart

\* A worker that changes only what it remembers.
LEMMA WorkerOnlyStep ==
  ASSUME Inv, WorkerOnly, NEW w \in Worker, NEW k \in WorkerState, wk' = [wk EXCEPT ![w] = k],
         \/ k = Idle
         \/ k.page = wk[w].page /\ k.attempts = wk[w].attempts /\ wk[w].phase # "idle"
  PROVE  Inv'
<1>1. TypeOK /\ RowPart
  BY DEF Inv
<1>2. Idle.phase = "idle" /\ Idle.page = NoPage /\ NoPage \notin Page
  BY PageAssumption DEF Idle
<1>3. wk' \in [Worker -> WorkerState] /\ wk'[w] = k /\ \A v \in Worker \ {w} : wk'[v] = wk[v]
  BY <1>1 DEF TypeOK
<1>4. NoWorkerMoves
  BY <1>2, <1>3 DEF NoWorkerMoves
<1>5. \A v \in Worker : wk'[v].phase # "idle" => wk'[v].page \in Page
  BY <1>1, <1>2, <1>3 DEF TypeOK
<1>6. TypeOK'
  BY <1>1, <1>3, <1>5 DEF TypeOK, WorkerOnly
<1>7. (\A p \in Page : rows'[p] = rows[p] \/ Unleased(rows'[p])) /\ outdated' = outdated
  BY DEF WorkerOnly
<1>8. RowPart'
  BY <1>1, <1>4, <1>7, RowStepSameVersion
<1> QED
  BY <1>6, <1>8 DEF Inv, TxPart, WorkerOnly

\* Steps of a worker between its claim and its outcome.
LEMMA SettlingStep ==
  ASSUME Inv, NEW w \in Worker, wk[w].phase # "idle", NEW at \in Content \cup {NoContent},
         NEW result \in Results, WorkerOnly, Settling(w, at, result)
  PROVE  Inv'
<1> DEFINE k == [wk[w] EXCEPT !.phase = "settling", !.at = at, !.result = result]
<1>1. wk \in [Worker -> WorkerState] /\ wk[w] \in WorkerState
  BY DEF Inv, TypeOK
<1>2. k \in WorkerState /\ k.page = wk[w].page /\ k.attempts = wk[w].attempts
  BY <1>1 DEF WorkerState
<1>3. wk' = [wk EXCEPT ![w] = k]
  BY <1>1 DEF Settling
<1> HIDE DEF k
<1> QED
  BY <1>2, <1>3, WorkerOnlyStep

LEMMA RenderedStep ==
  ASSUME Inv, NEW w \in Worker, wk[w].phase # "idle", NEW at \in Content \cup {NoContent},
         WorkerOnly, wk' = [wk EXCEPT ![w].phase = "rendered", ![w].at = at]
  PROVE  Inv'
<1> DEFINE k == [wk[w] EXCEPT !.phase = "rendered", !.at = at]
<1>1. wk \in [Worker -> WorkerState] /\ wk[w] \in WorkerState
  BY DEF Inv, TypeOK
<1>2. k \in WorkerState /\ k.page = wk[w].page /\ k.attempts = wk[w].attempts
  BY <1>1 DEF WorkerState
<1>3. wk' = [wk EXCEPT ![w] = k]
  BY <1>1
<1> HIDE DEF k
<1> QED
  BY <1>2, <1>3, WorkerOnlyStep

LEMMA RecognizedStep ==
  ASSUME Inv, NEW w \in Worker, wk[w].phase # "idle",
         WorkerOnly, wk' = [wk EXCEPT ![w].phase = "recognized"]
  PROVE  Inv'
<1> DEFINE k == [wk[w] EXCEPT !.phase = "recognized"]
<1>1. wk \in [Worker -> WorkerState] /\ wk[w] \in WorkerState
  BY DEF Inv, TypeOK
<1>2. k \in WorkerState /\ k.page = wk[w].page /\ k.attempts = wk[w].attempts
  BY <1>1 DEF WorkerState
<1>3. wk' = [wk EXCEPT ![w] = k]
  BY <1>1
<1> HIDE DEF k
<1> QED
  BY <1>2, <1>3, WorkerOnlyStep

LEMMA WorkerActions ==
  ASSUME Inv, NEW w \in Worker, Snapshot(w) \/ Recognize(w) \/ Recheck(w)
  PROVE  Inv'
<1>1. src.content \in Content \cup {NoContent} /\ NoContent \in Content \cup {NoContent}
      /\ wk[w].at \in Content \cup {NoContent}
  BY DEF Inv, TypeOK, Source, WorkerState
<1>2. {"ready", "blocked", "cancelled", "retry", "terminal"} \subseteq Results
  BY DEF Results
<1>3. CASE Snapshot(w)
  <2>1. wk[w].phase # "idle" /\ WorkerOnly
    BY <1>3 DEF Snapshot
  <2>2. \/ \E result \in Results, at \in {src.content, NoContent} : Settling(w, at, result)
        \/ wk' = [wk EXCEPT ![w].phase = "rendered", ![w].at = src.content]
    BY <1>2, <1>3 DEF Snapshot
  <2> QED
    BY <1>1, <2>1, <2>2, SettlingStep, RenderedStep, RecognizedStep
<1>4. CASE Recognize(w)
  <2>1. wk[w].phase # "idle" /\ WorkerOnly
    BY <1>4 DEF Recognize
  <2>2. \/ \E result \in Results : Settling(w, wk[w].at, result)
        \/ wk' = [wk EXCEPT ![w].phase = "recognized"]
    BY <1>2, <1>4 DEF Recognize
  <2> QED
    BY <1>1, <2>1, <2>2, SettlingStep, RenderedStep, RecognizedStep
<1>5. CASE Recheck(w)
  <2>1. wk[w].phase # "idle" /\ WorkerOnly
    BY <1>5 DEF Recheck
  <2>2. \E result \in Results : Settling(w, wk[w].at, result)
    BY <1>2, <1>5 DEF Recheck
  <2> QED
    BY <1>1, <2>1, <2>2, SettlingStep, RenderedStep, RecognizedStep
<1> QED
  BY <1>3, <1>4, <1>5

LEMMA SettleStep ==
  ASSUME Inv, NEW w \in Worker, Settle(w)
  PROVE  Inv'
<1> DEFINE p == wk[w].page
           new == Written(src, rows[p], Outcome(w, rows[p]))
<1>1. TypeOK /\ RowPart
  BY DEF Inv
<1>2. wk' = [wk EXCEPT ![w] = Idle] /\ UNCHANGED <<src, policy, srcTx, enq, outdated, resaved>>
      /\ rows' = (IF Fenced(w) THEN [rows EXCEPT ![p] = new] ELSE rows)
  BY DEF Settle
<1>3. p \in Page /\ wk[w] \in WorkerState /\ rows[p] \in Row
  BY <1>1 DEF Settle, TypeOK
<1>4. Idle \in WorkerState /\ Idle.phase = "idle" /\ Idle.page \notin Page
  BY PageAssumption DEF Idle, WorkerState, Results
<1>5. wk' \in [Worker -> WorkerState] /\ wk'[w] = Idle /\ \A v \in Worker \ {w} : wk'[v] = wk[v]
  BY <1>1, <1>2, <1>4 DEF TypeOK
<1>6. ASSUME Fenced(w) PROVE new = rows[p] \/ Unleased(new)
  <2>1. rows[p].lease = w /\ Sound(rows[p])
    BY <1>1, <1>3, <1>6 DEF Fenced, RowPart
  <2>2. rows[p].state = "processing" /\ rows[p].state \in Active
    BY <2>1, PageAssumption DEF Sound, Active
  <2>3. Counted(w, rows[p])
    BY <1>1, <1>3, <2>1, <2>2 DEF Counted, Sound, RowPart, ClaimCounted
  <2>4. Unleased(Outcome(w, rows[p]))
    BY <1>3, <2>3, OutcomeFacts
  <2>5. Outcome(w, rows[p]) \in Row
    BY <2>4 DEF Unleased, Sound
  <2>6. Unleased(Admitted(src, Outcome(w, rows[p])))
    BY <2>4, <2>5, AdmittedFacts
  <2> QED
    BY <2>6 DEF Written
<1> HIDE DEF new, p
<1>7. rows' \in [Page -> Row] /\ \A q \in Page : rows'[q] = rows[q] \/ Unleased(rows'[q])
  <2>1. CASE Fenced(w)
    BY <1>1, <1>2, <1>3, <1>6, <2>1 DEF TypeOK, Unleased, Sound
  <2>2. CASE ~Fenced(w)
    BY <1>1, <1>2, <2>2 DEF TypeOK
  <2> QED
    BY <2>1, <2>2
<1>8. NoWorkerMoves
  BY <1>4, <1>5 DEF NoWorkerMoves
<1>9. RowPart'
  BY <1>1, <1>2, <1>7, <1>8, RowStepSameVersion
<1>10. \A v \in Worker : wk'[v].phase # "idle" => wk'[v].page \in Page
  BY <1>1, <1>4, <1>5 DEF TypeOK
<1>11. TypeOK'
  BY <1>1, <1>2, <1>5, <1>7, <1>10 DEF TypeOK
<1> QED
  BY <1>2, <1>9, <1>11 DEF Inv, TxPart

LEMMA ServerActions == Inv /\ Server => Inv'
<1> SUFFICES ASSUME Inv, Server PROVE Inv'
  OBVIOUS
<1>1. CASE CommitSource
  BY <1>1, CommitSourceStep
<1>2. CASE QueueCommit
  BY <1>2, QueueCommitStep
<1>3. ASSUME NEW p \in Page, LeaseExpires(p) PROVE Inv'
  BY <1>3, LeaseExpiresStep
<1>4. ASSUME NEW w \in Worker, WorkerStep(w) PROVE Inv'
  BY <1>4, WorkerActions, SettleStep DEF WorkerStep
<1>5. ASSUME NEW w \in Worker, NEW p \in Page, Claim(w, p) PROVE Inv'
  BY <1>5, ClaimStep
<1> QED
  BY <1>1, <1>2, <1>3, <1>4, <1>5 DEF Server

LEMMA FailureActions == Inv /\ Failure => Inv'
<1> SUFFICES ASSUME Inv, Failure PROVE Inv'
  OBVIOUS
<1>1. CASE AbortSource
  <2>1. NoSourceTx \in SourceTx /\ ~NoSourceTx.open /\ \A p \in Page : NoSourceTx.rows[p] = NoRow
    BY NoRowUnleased DEF NoSourceTx, SourceTx, Statuses, Unleased, Sound
  <2>2. srcTx' = NoSourceTx /\ UNCHANGED <<src, rows, policy, enq, wk, outdated, resaved>>
    BY <1>1 DEF AbortSource
  <2>3. TypeOK'
    BY <2>1, <2>2 DEF Inv, TypeOK
  <2>4. RowPart'
    BY <2>2 DEF Inv, RowPart, LeaseDiscipline, ClaimCounted
  <2>5. TxPart'
    BY <2>1, <2>2, NoRowUnleased DEF TxPart
  <2> QED
    BY <2>3, <2>4, <2>5 DEF Inv
<1>2. CASE QueueAbort
  <2>1. enq' \in Enqueue /\ UNCHANGED <<src, rows, policy, srcTx, wk, outdated, resaved>>
    BY <1>2 DEF QueueAbort, NoEnqueue, Enqueue
  <2>2. policy' \in [skip : BOOLEAN, limit : Limits, allow : BOOLEAN]
        /\ rows' \in [Page -> Row] /\ \A p \in Page : rows'[p] = rows[p] \/ Unleased(rows'[p])
    BY <2>1, PolicyFacts DEF Inv, TypeOK
  <2> QED
    BY <2>1, <2>2, OwnerStepSameVersion
<1>3. ASSUME NEW w \in Worker, WorkerStops(w) PROVE Inv'
  <2>1. Idle \in WorkerState
    BY PageAssumption DEF Idle, WorkerState, Results
  <2> QED
    BY <1>3, <2>1, WorkerOnlyStep DEF WorkerStops
<1> QED
  BY <1>1, <1>2, <1>3 DEF Failure

LEMMA InvStep == Inv /\ [Next]_vars => Inv'
<1> SUFFICES ASSUME Inv, [Next]_vars PROVE Inv'
  OBVIOUS
<1>1. CASE UNCHANGED vars
  BY <1>1 DEF vars, Inv, TypeOK, RowPart, LeaseDiscipline, ClaimCounted, TxPart
<1>2. CASE Next
  BY <1>2, DeviceStep, OwnerActions, ServerActions, FailureActions DEF Next
<1> QED
  BY <1>1, <1>2

\* Every behaviour keeps the state well-formed: no page, worker or transaction
\* of ProcessPageIndex and its triggers leaves its type.
THEOREM TypeCorrect == Spec => []TypeOK
<1>1. Inv => TypeOK
  BY DEF Inv
<1> QED
  BY <1>1, InitInv, InvStep, PTL DEF Spec

\* The two halves of the worker's fence never disagree (page_index.go: finish,
\* deferFailure), for any number of pages, workers and owners' transactions, and
\* whether or not those overlap the device's.
THEOREM FenceDiscipline == Spec => []LeaseDiscipline
<1>1. Inv => LeaseDiscipline
  BY DEF Inv, RowPart
<1> QED
  BY <1>1, InitInv, InvStep, PTL DEF Spec

-----------------------------------------------------------------------------
(* TextCurrent, for owners that stay out of open source transactions.       *)
(*                                                                          *)
(* A source transaction rewrites every row that has text to lose or work to *)
(* stop; the rows it leaves alone must stay without either until it commits *)
(* (Untouched), and a worker that still holds its page has read what the    *)
(* notebook holds now (ReadCurrent).                                        *)

Untouched ==
  srcTx.open /\ srcTx.src.status # "deleted" =>
    \A p \in Page : p \notin srcTx.rewritten =>
      /\ rows[p].text = NoContent /\ rows[p].lease = NoWorker
      /\ rows[p].state \notin Active

Cleared == srcTx.open => \A p \in Page : p \in srcTx.rewritten => srcTx.rows[p].text = NoContent

ReadCurrent ==
  src.status # "deleted" =>
    \A w \in Worker, p \in Page :
      wk[w].page = p /\ rows[p].lease = w /\ wk[w].at # NoContent => wk[w].at = src.content

TextPart == TextCurrent /\ Untouched /\ Cleared /\ ReadCurrent

\* Rows that gain neither text nor a lease.
Quiet ==
  \A p \in Page : /\ rows'[p].text \in {rows[p].text, NoContent}
                  /\ rows'[p].lease \in {rows[p].lease, NoWorker}

LEMMA QuietStep ==
  ASSUME TextPart, Quiet, ~srcTx.open, UNCHANGED <<src, srcTx, wk>>
  PROVE  TextPart'
<1>1. TextCurrent'
  BY DEF TextPart, TextCurrent, Quiet
<1>2. Untouched' /\ Cleared'
  BY DEF Untouched, Cleared
<1>3. ReadCurrent'
  <2> SUFFICES ASSUME src.status # "deleted", NEW w \in Worker, NEW p \in Page,
                      wk[w].page = p, rows'[p].lease = w, wk[w].at # NoContent
               PROVE  wk[w].at = src.content
    BY DEF ReadCurrent
  <2>1. rows[p].lease = w
    BY PageAssumption DEF Quiet
  <2> QED
    BY <2>1 DEF TextPart, ReadCurrent
<1> QED
  BY <1>1, <1>2, <1>3 DEF TextPart

LEMMA MovedText ==
  ASSUME NEW r \in Row, NEW state, NEW detail
  PROVE  Moved(r, state, detail).text = r.text /\ Moved(r, state, detail).lease = NoWorker
BY DEF Moved, Row

LEMMA ControlledText ==
  ASSUME NEW r \in Row, NEW action
  PROVE  Controlled(action, r).text = r.text
<1>1. \/ Controlled(action, r) = Moved(r, "paused", "other")
      \/ Controlled(action, r) = Moved(r, "cancelled", "other")
      \/ Controlled(action, r) = Moved(r, "skipped", "other")
      \/ Controlled(action, r) = Queued(r)
  BY DEF Controlled
<1> QED
  BY <1>1, MovedText, QueuedFacts

LEMMA ControlQuiet ==
  ASSUME Inv, NEW p \in Page, NEW action \in Actions, Control(p, action)
  PROVE  Quiet
<1> DEFINE new == Admitted(src, Controlled(action, rows[p]))
<1>1. rows \in [Page -> Row] /\ rows[p] \in Row
  BY DEF Inv, TypeOK
<1>2. Unleased(Controlled(action, rows[p])) /\ Controlled(action, rows[p]) \in Row
  BY <1>1, ControlledFacts DEF Unleased, Sound
<1>3. Unleased(new) /\ new.text = Controlled(action, rows[p]).text
  BY <1>2, AdmittedFacts
<1>4. new.text = rows[p].text /\ new.lease = NoWorker
  BY <1>1, <1>3, ControlledText DEF Unleased
<1>5. rows' = [rows EXCEPT ![p] = new]
  BY DEF Control
<1> HIDE DEF new
<1> QED
  BY <1>1, <1>4, <1>5 DEF Quiet

LEMMA MoveAllQuiet ==
  ASSUME Inv, NEW P \in SUBSET Page, NEW state, NEW detail, MoveAll(P, state, detail)
  PROVE  Quiet
<1>1. \A p \in Page : rows[p] \in Row
  BY DEF Inv, TypeOK
<1>2. \A p \in Page : rows'[p] = Moved(rows[p], state, detail) \/ rows'[p] = rows[p]
  BY DEF MoveAll
<1> QED
  BY <1>1, <1>2, MovedText DEF Quiet

LEMMA RetireQuiet ==
  ASSUME Inv, Retire(policy')
  PROVE  Quiet
<1> DEFINE P == {p \in Page : /\ src.status # "absent" /\ Cardinality(src.listed) > policy'.limit
                              /\ ~policy'.allow /\ Exists(p) /\ rows[p].state \in Active}
<1>1. MoveAll(P, "cancelled", "other")
  BY DEF Retire
<1>2. P \in SUBSET Page
  OBVIOUS
<1> HIDE DEF P
<1> QED
  BY <1>1, <1>2, MoveAllQuiet

LEMMA QueueCommitQuiet == Inv /\ QueueCommit => Quiet
<1> SUFFICES ASSUME Inv, QueueCommit, NEW p \in Page
             PROVE  /\ rows'[p].text \in {rows[p].text, NoContent}
                    /\ rows'[p].lease \in {rows[p].lease, NoWorker}
  BY DEF Quiet
<1>1. rows[p] \in Row
  BY DEF Inv, TypeOK
<1>2. Unleased(Queued(rows[p])) /\ Queued(rows[p]) \in Row /\ Queued(rows[p]).text = rows[p].text
  BY <1>1, QueuedFacts DEF Unleased, Sound
<1>3. Unleased(Admitted(src, Queued(rows[p]))) /\ Admitted(src, Queued(rows[p])).text = rows[p].text
  BY <1>2, AdmittedFacts
<1>4. \/ rows'[p] = Admitted(src, Queued(rows[p]))
      \/ rows'[p] = Inserted
      \/ rows'[p] = rows[p]
  BY DEF QueueCommit
<1> QED
  BY <1>3, <1>4, InsertedFacts DEF Unleased

\* Without Overlap, every transaction of the owner finds no source transaction.
LEMMA OwnerText ==
  ASSUME ~Overlap, Inv, TextPart, Owner \/ QueueCommit \/ QueueAbort
  PROVE  TextPart'
<1>1. CASE QueueCommit
  <2>1. ~srcTx.open /\ UNCHANGED <<src, srcTx, wk>>
    BY <1>1 DEF QueueCommit, OwnerCommits
  <2> QED
    BY <1>1, <2>1, QueueCommitQuiet, QuietStep
<1>2. ASSUME NEW p \in Page, NEW action \in Actions, Control(p, action) PROVE TextPart'
  <2>1. ~srcTx.open /\ UNCHANGED <<src, srcTx, wk>>
    BY <1>2 DEF Control, OwnerCommits
  <2> QED
    BY <1>2, <2>1, ControlQuiet, QuietStep
<1>3. CASE SkipNotebook
  <2> DEFINE P == {p \in Page : Exists(p) /\ rows[p].state \notin {"ready", "skipped"}}
  <2>1. ~srcTx.open /\ UNCHANGED <<src, srcTx, wk>> /\ MoveAll(P, "skipped", "notebook_skipped")
    BY <1>3 DEF SkipNotebook, OwnerCommits
  <2>2. P \in SUBSET Page
    OBVIOUS
  <2> HIDE DEF P
  <2> QED
    BY <2>1, <2>2, MoveAllQuiet, QuietStep
<1>4. CASE UnskipNotebook
  <2> DEFINE P == {p \in Page : /\ Exists(p) /\ rows[p].state = "skipped"
                                /\ rows[p].detail = "notebook_skipped"}
  <2>1. ~srcTx.open /\ UNCHANGED <<src, srcTx, wk>> /\ MoveAll(P, "cancelled", "other")
    BY <1>4 DEF UnskipNotebook, OwnerCommits
  <2>2. P \in SUBSET Page
    OBVIOUS
  <2> HIDE DEF P
  <2> QED
    BY <2>1, <2>2, MoveAllQuiet, QuietStep
<1>5. ASSUME NEW limit \in Limits, SetPageLimit(limit) PROVE TextPart'
  <2>1. ~srcTx.open /\ UNCHANGED <<src, srcTx, wk>> /\ Retire(policy')
    BY <1>5 DEF SetPageLimit, OwnerCommits
  <2> QED
    BY <2>1, RetireQuiet, QuietStep
<1>6. ASSUME NEW allow \in BOOLEAN, AllowLarge(allow) PROVE TextPart'
  <2>1. ~srcTx.open /\ UNCHANGED <<src, srcTx, wk>> /\ Retire(policy')
    BY <1>6 DEF AllowLarge, OwnerCommits
  <2> QED
    BY <2>1, RetireQuiet, QuietStep
<1>7. CASE UNCHANGED <<src, rows, srcTx, wk>>
  BY <1>7 DEF TextPart, TextCurrent, Untouched, Cleared, ReadCurrent
<1>8. (\E P \in SUBSET Requested, only \in {"any", "finished"} : QueueBegin(P, only)) \/ QueueAbort
        => UNCHANGED <<src, rows, srcTx, wk>>
  BY DEF QueueBegin, QueueAbort
<1> QED
  BY <1>1, <1>2, <1>3, <1>4, <1>5, <1>6, <1>7, <1>8 DEF Owner

\* A row a source change does not rewrite has nothing to lose.
LEMMA NotRewritten ==
  ASSUME Inv, NEW s, s.status # "deleted", NEW p \in Page, p \notin Rewritten(s)
  PROVE  rows[p].text = NoContent /\ rows[p].lease = NoWorker /\ rows[p].state \notin Active
<1>1. rows[p] \in Row /\ Sound(rows[p])
  BY DEF Inv, TypeOK, RowPart
<1> DEFINE new == Invalidated(s, rows[p])
<1>2. ~Exists(p) \/ Dropped(s, rows[p], new)
  BY DEF Rewritten
<1>3. new.text = NoContent
      /\ new.state = IF KeepsHold(s, rows[p]) THEN rows[p].state
                     ELSE IF policy.skip THEN "skipped" ELSE "queued"
  BY <1>1, InvalidatedFacts
<1> HIDE DEF new
<1>4. CASE ~Exists(p)
  BY <1>1, <1>4 DEF Exists, Sound, Active
<1>5. CASE Dropped(s, rows[p], new)
  <2>1. new.state \in Active /\ (\/ new.state = "processing"
                                 \/ rows[p].state \in Held
                                 \/ rows[p].state = "ready" /\ new.text = rows[p].text)
    BY <1>5 DEF Dropped, Active
  <2>2. ~KeepsHold(s, rows[p]) /\ new.state = "queued"
    BY <1>3, <2>1 DEF KeepsHold, Active
  <2>3. CASE rows[p].state \in Held
    <3>1. rows[p].state = "cancelled" /\ rows[p].detail = "notebook_deleted"
      BY <2>2, <2>3 DEF KeepsHold, Held
    <3> QED
      BY <1>1, <3>1 DEF Sound, Active
  <2>4. CASE rows[p].state = "ready" /\ new.text = rows[p].text
    BY <1>1, <1>3, <2>4 DEF Sound, Active
  <2> QED
    BY <2>1, <2>2, <2>3, <2>4
<1> QED
  BY <1>2, <1>4, <1>5

LEMMA OpenSourceText ==
  ASSUME Inv, TextPart, NEW s, NEW record, OpenSource(s, record)
  PROVE  TextPart'
<1> DEFINE f == [p \in Page |-> IF p \in Rewritten(s) THEN Rewrite(s, p) ELSE NoRow]
<1>1. \A p \in Page : rows[p] \in Row
  BY DEF Inv, TypeOK
<1>2. \A p \in Page : f[p].text = NoContent
  BY <1>1, RewriteFacts, NoRowUnleased
<1>3. /\ srcTx' = [open |-> TRUE, record |-> record, src |-> s, rewritten |-> Rewritten(s), rows |-> f]
      /\ UNCHANGED <<src, rows, policy, wk>>
  BY DEF OpenSource
<1> HIDE DEF f
<1>4. srcTx'.rows = f /\ srcTx'.src = s /\ srcTx'.rewritten = Rewritten(s)
  BY <1>3
<1>5. Cleared'
  BY <1>2, <1>4 DEF Cleared
<1>6. Untouched'
  BY <1>3, <1>4, NotRewritten DEF Untouched
<1>7. TextCurrent' /\ ReadCurrent'
  BY <1>3 DEF TextPart, TextCurrent, ReadCurrent
<1> QED
  BY <1>5, <1>6, <1>7 DEF TextPart

LEMMA DeviceText ==
  ASSUME Inv, TextPart, Device
  PROVE  TextPart'
<1>1. CASE ResaveRecord
  BY <1>1 DEF ResaveRecord, TextPart, TextCurrent, Untouched, Cleared, ReadCurrent
<1> QED
  BY <1>1, OpenSourceText DEF Device, WriteFile, WriteRecord

LEMMA CommitSourceText ==
  ASSUME Inv, TextPart, CommitSource
  PROVE  TextPart'
<1>1. /\ rows' = [p \in Page |-> IF Locked(p) THEN srcTx.rows[p] ELSE rows[p]]
      /\ src' = srcTx.src /\ srcTx' = NoSourceTx /\ wk' = wk /\ srcTx.open
  BY DEF CommitSource
<1>2. ~srcTx'.open
  BY <1>1 DEF NoSourceTx
<1>3. ASSUME srcTx.src.status # "deleted", NEW p \in Page
      PROVE  rows'[p].text = NoContent /\ rows'[p].lease = NoWorker
  <2>1. CASE p \in srcTx.rewritten
    <3>1. rows'[p] = srcTx.rows[p]
      BY <1>1, <2>1 DEF Locked
    <3> QED
      BY <1>1, <2>1, <3>1 DEF TextPart, Cleared, Inv, TxPart, Unleased
  <2>2. CASE p \notin srcTx.rewritten
    <3>1. rows'[p] = rows[p]
      BY <1>1, <2>2 DEF Locked
    <3> QED
      BY <1>1, <1>3, <2>2, <3>1 DEF TextPart, Untouched
  <2> QED
    BY <2>1, <2>2
<1>4. TextCurrent'
  BY <1>1, <1>3 DEF TextCurrent
<1>5. ReadCurrent'
  BY <1>1, <1>3, PageAssumption DEF ReadCurrent
<1>6. Untouched' /\ Cleared'
  BY <1>2 DEF Untouched, Cleared
<1> QED
  BY <1>4, <1>5, <1>6 DEF TextPart

\* Nobody claims or writes a page an open source transaction relies on.
LEMMA UntouchedStays ==
  ASSUME Inv, TextPart, NEW p \in Page, ~Locked(p), UNCHANGED srcTx,
         rows[p].state \in Active \/ rows[p].lease # NoWorker,
         \A q \in Page \ {p} : rows'[q] = rows[q]
  PROVE  Untouched' /\ Cleared'
<1>1. ~(srcTx.open /\ srcTx.src.status # "deleted")
  BY DEF TextPart, Untouched, Locked
<1> QED
  BY <1>1 DEF TextPart, Untouched, Cleared

LEMMA ClaimText ==
  ASSUME Inv, TextPart, NEW w \in Worker, NEW p \in Page, Claim(w, p)
  PROVE  TextPart'
<1>1. wk \in [Worker -> WorkerState] /\ rows \in [Page -> Row]
  BY DEF Inv, TypeOK
<1>2. /\ UNCHANGED <<src, srcTx>> /\ ~Locked(p) /\ rows[p].state \in Active
      /\ \A q \in Page \ {p} : rows'[q] = rows[q]
      /\ rows'[p].text = rows[p].text /\ rows'[p].lease = w
      /\ wk'[w].at = NoContent /\ \A v \in Worker \ {w} : wk'[v] = wk[v]
  BY <1>1 DEF Claim, Claimable, Idle, WorkerState, Row, Active
<1>3. Untouched' /\ Cleared'
  BY <1>2, UntouchedStays
<1>4. TextCurrent'
  BY <1>2 DEF TextPart, TextCurrent
<1>5. ReadCurrent'
  BY <1>2 DEF TextPart, ReadCurrent
<1> QED
  BY <1>3, <1>4, <1>5 DEF TextPart

LEMMA LeaseExpiresText ==
  ASSUME Inv, TextPart, NEW p \in Page, LeaseExpires(p)
  PROVE  TextPart'
<1>1. rows \in [Page -> Row]
  BY DEF Inv, TypeOK
<1>2. /\ UNCHANGED <<src, srcTx, wk>> /\ ~Locked(p) /\ rows[p].state \in Active
      /\ \A q \in Page \ {p} : rows'[q] = rows[q]
      /\ rows'[p].text = rows[p].text /\ rows'[p].lease = rows[p].lease
  BY <1>1 DEF LeaseExpires, Row, Active
<1>3. Untouched' /\ Cleared'
  BY <1>2, UntouchedStays
<1>4. TextCurrent' /\ ReadCurrent'
  BY <1>2 DEF TextPart, TextCurrent, ReadCurrent
<1> QED
  BY <1>3, <1>4 DEF TextPart

\* A worker reads what is there, or forgets.
LEMMA WorkerOnlyText ==
  ASSUME Inv, TextPart, WorkerOnly, NEW w \in Worker,
         \A v \in Worker \ {w} : wk'[v] = wk[v],
         \/ wk'[w].page = NoPage
         \/ /\ wk'[w].page = wk[w].page
            /\ wk'[w].at \in {wk[w].at, NoContent} \/ (wk'[w].at = src.content)
  PROVE  TextPart'
<1>1. UNCHANGED <<src, rows, srcTx>>
  BY DEF WorkerOnly
<1>2. ReadCurrent'
  BY <1>1, PageAssumption DEF TextPart, ReadCurrent
<1> QED
  BY <1>1, <1>2 DEF TextPart, TextCurrent, Untouched, Cleared

LEMMA WorkerText ==
  ASSUME Inv, TextPart, NEW w \in Worker,
         Snapshot(w) \/ Recognize(w) \/ Recheck(w) \/ WorkerStops(w)
  PROVE  TextPart'
<1>1. wk \in [Worker -> WorkerState] /\ wk[w] \in WorkerState
  BY DEF Inv, TypeOK
<1>2. WorkerOnly
  BY DEF Snapshot, Recognize, Recheck, WorkerStops
<1>3. ASSUME NEW at, NEW result, Settling(w, at, result)
      PROVE  /\ \A v \in Worker \ {w} : wk'[v] = wk[v]
             /\ wk'[w].page = wk[w].page /\ wk'[w].at = at
  BY <1>1, <1>3 DEF Settling, WorkerState
<1>r. {"ready", "blocked", "cancelled", "retry", "terminal"} \subseteq Results
  BY DEF Results
<1>4. CASE Snapshot(w)
  <2>1. \/ \E at \in {src.content, NoContent}, result \in Results : Settling(w, at, result)
        \/ wk' = [wk EXCEPT ![w].phase = "rendered", ![w].at = src.content]
    BY <1>r, <1>4 DEF Snapshot
  <2>2. CASE wk' = [wk EXCEPT ![w].phase = "rendered", ![w].at = src.content]
    <3>1. /\ \A v \in Worker \ {w} : wk'[v] = wk[v]
          /\ wk'[w].page = wk[w].page /\ wk'[w].at = src.content
      BY <1>1, <2>2 DEF WorkerState
    <3> QED
      BY <1>2, <3>1, WorkerOnlyText
  <2> QED
    BY <1>2, <1>3, <2>1, <2>2, WorkerOnlyText
<1>5. CASE Recognize(w)
  <2>1. \/ \E result \in Results : Settling(w, wk[w].at, result)
        \/ wk' = [wk EXCEPT ![w].phase = "recognized"]
    BY <1>r, <1>5 DEF Recognize
  <2>2. CASE wk' = [wk EXCEPT ![w].phase = "recognized"]
    <3>1. /\ \A v \in Worker \ {w} : wk'[v] = wk[v]
          /\ wk'[w].page = wk[w].page /\ wk'[w].at = wk[w].at
      BY <1>1, <2>2 DEF WorkerState
    <3> QED
      BY <1>2, <3>1, WorkerOnlyText
  <2> QED
    BY <1>2, <1>3, <2>1, <2>2, WorkerOnlyText
<1>6. CASE Recheck(w)
  <2>1. \E result \in Results : Settling(w, wk[w].at, result)
    BY <1>r, <1>6 DEF Recheck
  <2> QED
    BY <1>2, <1>3, <2>1, WorkerOnlyText
<1>7. CASE WorkerStops(w)
  <2>1. (\A v \in Worker \ {w} : wk'[v] = wk[v]) /\ wk'[w].page = NoPage
    BY <1>1, <1>7 DEF WorkerStops, Idle
  <2> QED
    BY <1>2, <2>1, WorkerOnlyText
<1> QED
  BY <1>4, <1>5, <1>6, <1>7

LEMMA OutcomeText ==
  ASSUME NEW w \in Worker, NEW r \in Row
  PROVE  Outcome(w, r).text \in {r.text, NoContent, wk[w].at}
<1>1. CASE wk[w].result = "ready"
  <2> DEFINE m == Moved(r, "ready", "other")
  <2>1. m.text = r.text /\ [m EXCEPT !.text = TextOf(wk[w].at), !.input = wk[w].at].text = TextOf(wk[w].at)
    BY DEF Moved, Row
  <2> QED
    BY <1>1, <2>1 DEF Outcome, TextOf
<1>2. CASE wk[w].result = "blocked"
  BY <1>2, MovedText DEF Outcome
<1>3. CASE wk[w].result = "cancelled"
  <2>1. [Moved(r, "cancelled", "notebook_deleted") EXCEPT !.text = NoContent].text = NoContent
    BY DEF Moved, Row
  <2> QED
    BY <1>3, <2>1 DEF Outcome
<1>4. CASE wk[w].result \notin {"ready", "blocked", "cancelled"}
  <2> DEFINE state == IF wk[w].attempts >= MaxAttempts \/ wk[w].result = "terminal"
                      THEN "failed" ELSE "queued"
  <2>1. Outcome(w, r) = [Moved(r, state, "other") EXCEPT !.attempts = @ + 1]
    BY <1>4 DEF Outcome
  <2> HIDE DEF state
  <2>2. [Moved(r, state, "other") EXCEPT !.attempts = @ + 1].text = r.text
    BY DEF Moved, Row
  <2> QED
    BY <2>1, <2>2
<1> QED
  BY <1>1, <1>2, <1>3, <1>4

LEMMA SettleText ==
  ASSUME Inv, TextPart, NEW w \in Worker, Settle(w)
  PROVE  TextPart'
<1> DEFINE p == wk[w].page
           out == Outcome(w, rows[p])
           new == Written(src, rows[p], out)
<1>1. TypeOK /\ RowPart
  BY DEF Inv
<1>2. wk' = [wk EXCEPT ![w] = Idle] /\ UNCHANGED <<src, srcTx>> /\ ~Locked(p)
      /\ rows' = (IF Fenced(w) THEN [rows EXCEPT ![p] = new] ELSE rows)
  BY DEF Settle
<1>3. p \in Page /\ wk[w] \in WorkerState /\ rows[p] \in Row
  BY <1>1 DEF Settle, TypeOK
<1>4. wk'[w].page = NoPage /\ \A v \in Worker \ {w} : wk'[v] = wk[v]
  BY <1>1, <1>2 DEF TypeOK, Idle
<1>5. CASE ~Fenced(w)
  <2>1. rows' = rows
    BY <1>2, <1>5
  <2>2. ReadCurrent'
    BY <1>2, <1>4, <2>1, PageAssumption DEF TextPart, ReadCurrent
  <2> QED
    BY <1>2, <2>1, <2>2 DEF TextPart, TextCurrent, Untouched, Cleared
<1>6. CASE Fenced(w)
  <2>1. rows[p].lease = w /\ Sound(rows[p])
    BY <1>1, <1>3, <1>6 DEF Fenced, RowPart
  <2>2. rows[p].lease # NoWorker /\ Counted(w, rows[p])
    <3>1. rows[p].state \in Active
      BY <2>1, PageAssumption DEF Sound, Active
    <3> QED
      BY <1>1, <1>3, <2>1, <3>1, PageAssumption DEF Counted, Sound, RowPart, ClaimCounted
  <2>3. Unleased(out) /\ out \in Row
    BY <1>3, <2>2, OutcomeFacts DEF Unleased, Sound
  <2>4. out.text \in {rows[p].text, NoContent, wk[w].at}
    BY <1>3, OutcomeText
  <2> HIDE DEF out
  <2>5. Unleased(Admitted(src, out)) /\ Admitted(src, out).text = out.text
    BY <2>3, AdmittedFacts
  <2>6. new = rows[p] \/ (Unleased(new) /\ new.text \in {rows[p].text, NoContent, wk[w].at})
    BY <2>4, <2>5 DEF Written
  <2>7. src.status # "deleted" => wk[w].at = NoContent \/ wk[w].at = src.content
    BY <1>3, <2>1 DEF TextPart, ReadCurrent
  <2> HIDE DEF new
  <2>8. rows'[p] = new /\ \A q \in Page \ {p} : rows'[q] = rows[q]
    BY <1>1, <1>2, <1>3, <1>6 DEF TypeOK
  <2> HIDE DEF p
  <2>9. TextCurrent'
    BY <1>2, <1>3, <2>6, <2>7, <2>8 DEF TextPart, TextCurrent
  <2>10. ReadCurrent'
    BY <1>2, <1>4, <2>6, <2>8, PageAssumption DEF TextPart, ReadCurrent, Unleased
  <2>11. Untouched' /\ Cleared'
    BY <1>2, <1>3, <2>2, <2>8, UntouchedStays
  <2> QED
    BY <2>9, <2>10, <2>11 DEF TextPart
<1> QED
  BY <1>5, <1>6

LEMMA InitText == Init => TextPart
<1> SUFFICES ASSUME Init PROVE TextPart
  OBVIOUS
<1>1. rows = [p \in Page |-> NoRow] /\ wk = [w \in Worker |-> Idle] /\ srcTx = NoSourceTx
  BY DEF Init
<1>2. Idle.at = NoContent /\ ~NoSourceTx.open
  BY DEF Idle, NoSourceTx
<1> QED
  BY <1>1, <1>2, NoRowUnleased DEF TextPart, TextCurrent, Untouched, Cleared, ReadCurrent

LEMMA TextStep ==
  ASSUME ~Overlap, Inv, TextPart, [Next]_vars
  PROVE  TextPart'
<1>1. CASE UNCHANGED vars
  BY <1>1 DEF vars, TextPart, TextCurrent, Untouched, Cleared, ReadCurrent
<1>2. CASE Device
  BY <1>2, DeviceText
<1>3. CASE Owner
  BY <1>3, OwnerText
<1>4. CASE Server
  BY <1>4, OwnerText, CommitSourceText, ClaimText, LeaseExpiresText, WorkerText, SettleText
     DEF Server, WorkerStep
<1>5. CASE Failure
  <2>1. CASE AbortSource
    <3>1. UNCHANGED <<src, rows, wk>> /\ ~srcTx'.open
      BY <2>1 DEF AbortSource, NoSourceTx
    <3> QED
      BY <3>1 DEF TextPart, TextCurrent, Untouched, Cleared, ReadCurrent
  <2> QED
    BY <1>5, <2>1, OwnerText, WorkerText DEF Failure
<1> QED
  BY <1>1, <1>2, <1>3, <1>4, <1>5 DEF Next

\* Searchable text is never older than the notebook (page_index.go: the fenced
\* result; migrations 0030 and 0034: the triggers that clear text), as long as
\* the owner's transactions stay out of open source transactions.
THEOREM TextStaysCurrent ==
  ASSUME ~Overlap
  PROVE  Spec => []TextCurrent
<1>1. Init => Inv /\ TextPart
  BY InitInv, InitText
<1>2. (Inv /\ TextPart) /\ [Next]_vars => (Inv /\ TextPart)'
  BY InvStep, TextStep
<1>3. Inv /\ TextPart => TextCurrent
  BY DEF TextPart
<1> QED
  BY <1>1, <1>2, <1>3, PTL DEF Spec
-----------------------------------------------------------------------------
(* What the owner holds, and what may become of a row at all.               *)

Calm == Held \cup {"queued", "none"}

\* An open source transaction brings no row past the queue, and none out of skipped.
HoldPart ==
  /\ \A p \in Page : srcTx.rows[p].state \in Calm
  /\ srcTx.open => \A p \in srcTx.rewritten :
       rows[p].state = "skipped" => srcTx.rows[p].state = "skipped"

\* The states a rewritten row may have.
LEMMA RewriteStates ==
  ASSUME NEW s, NEW p \in Page, rows[p] \in Row
  PROVE  /\ Rewrite(s, p).state \in Held \cup {"queued"}
         /\ rows[p].state = "skipped" => Rewrite(s, p).state = "skipped"
<1>1. CASE s.status = "deleted"
  <2> DEFINE state == IF rows[p].state \in Held THEN rows[p].state ELSE "cancelled"
             detail == IF rows[p].state \in Held THEN rows[p].detail ELSE "notebook_deleted"
  <2>1. state \in Held /\ (rows[p].state = "skipped" => state = "skipped")
    BY DEF Held
  <2>2. Rewrite(s, p) = [Moved(rows[p], state, detail) EXCEPT !.text = NoContent]
    BY <1>1 DEF Rewrite, CancelDeleted
  <2> HIDE DEF state, detail
  <2>3. [Moved(rows[p], state, detail) EXCEPT !.text = NoContent].state = state
    BY DEF Moved, Row
  <2> QED
    BY <2>1, <2>2, <2>3
<1>2. CASE s.status # "deleted"
  <2> DEFINE new == Invalidated(s, rows[p])
  <2>1. /\ Unleased(new) /\ new \in Row
        /\ new.state = IF KeepsHold(s, rows[p]) THEN rows[p].state
                       ELSE IF policy.skip THEN "skipped" ELSE "queued"
    BY InvalidatedFacts DEF Unleased, Sound
  <2>2. Rewrite(s, p) = Admitted(s, new)
    BY <1>2 DEF Rewrite
  <2> HIDE DEF new
  <2>3. new.state \in Held \cup {"queued"} /\ (rows[p].state = "skipped" => new.state = "skipped")
    BY <2>1 DEF KeepsHold, Held
  <2>4. Admitted(s, new).state \in {new.state, "cancelled"}
    BY <2>1, AdmittedFacts
  <2>5. new.state = "skipped" => Admitted(s, new) = new
    BY DEF Admitted, Active
  <2> QED
    BY <2>2, <2>3, <2>4, <2>5 DEF Held
<1> QED
  BY <1>1, <1>2

\* The states a control leaves a row in.
LEMMA ControlStates ==
  ASSUME NEW s, NEW r \in Row, NEW action
  PROVE  /\ Controlled(action, r).state \in {"paused", "cancelled", "skipped", "queued"}
         /\ Admitted(s, Controlled(action, r)).state \in Held \cup {"queued"}
<1>1. {"paused", "cancelled", "skipped", "queued"} \subseteq States /\ "other" \in Details
  BY DEF States, Held, Active, Details
<1>2. \/ Controlled(action, r) = Moved(r, "paused", "other")
      \/ Controlled(action, r) = Moved(r, "cancelled", "other")
      \/ Controlled(action, r) = Moved(r, "skipped", "other")
      \/ Controlled(action, r) = Queued(r)
  BY DEF Controlled
<1>3. Controlled(action, r).state \in {"paused", "cancelled", "skipped", "queued"}
  BY <1>1, <1>2, MovedFacts, QueuedFacts
<1>4. Unleased(Controlled(action, r)) /\ Controlled(action, r) \in Row
  BY ControlledFacts DEF Unleased, Sound
<1> QED
  BY <1>3, <1>4, AdmittedFacts DEF Held

\* The states a request leaves a row in.
LEMMA RequestStates ==
  ASSUME NEW s, NEW r \in Row
  PROVE  /\ Admitted(s, Queued(r)).state \in {"queued", "cancelled"}
         /\ Inserted.state \in {"none", "skipped", "queued"}
<1>1. Unleased(Queued(r)) /\ Queued(r) \in Row /\ Queued(r).state = "queued"
  BY QueuedFacts DEF Unleased, Sound
<1>2. Admitted(s, Queued(r)).state \in {"queued", "cancelled"}
  BY <1>1, AdmittedFacts
<1>3. Inserted.state \in {"none", "skipped", "queued"}
  BY DEF Inserted, NoRow, NewRow
<1> QED
  BY <1>2, <1>3

\* A step takes a row out of the queue and its holds only if it was in work.
Drifts == \A p \in Page :
  \/ rows'[p].state = rows[p].state
  \/ rows'[p].state \in Calm
  \/ rows[p].state \in Active

LEMMA MoveAllDrifts ==
  ASSUME Inv, NEW P \in SUBSET Page, NEW state \in Held, NEW detail \in Details,
         MoveAll(P, state, detail)
  PROVE  /\ Drifts
         /\ \A p \in Page : rows'[p] = rows[p] \/ (p \in P /\ rows'[p].state = state)
<1>1. \A p \in Page : rows[p] \in Row
  BY DEF Inv, TypeOK
<1>2. state \in States
  BY DEF States
<1>3. \A p \in Page : Moved(rows[p], state, detail).state = state
  BY <1>1, <1>2, MovedFacts
<1>4. \A p \in Page : rows'[p] = (IF p \in P THEN Moved(rows[p], state, detail) ELSE rows[p])
  BY DEF MoveAll
<1> QED
  BY <1>3, <1>4 DEF Drifts, Calm

LEMMA RetireDrifts ==
  ASSUME Inv, Retire(policy')
  PROVE  /\ Drifts
         /\ \A p \in Page : rows'[p] = rows[p] \/ (rows[p].state \in Active /\ rows'[p].state = "cancelled")
<1> DEFINE P == {p \in Page : /\ src.status # "absent" /\ Cardinality(src.listed) > policy'.limit
                              /\ ~policy'.allow /\ Exists(p) /\ rows[p].state \in Active}
<1>1. MoveAll(P, "cancelled", "other")
  BY DEF Retire
<1>2. P \in SUBSET Page /\ \A p \in P : rows[p].state \in Active
  OBVIOUS
<1>3. "cancelled" \in Held /\ "other" \in Details
  BY DEF Held, Details
<1> HIDE DEF P
<1> QED
  BY <1>1, <1>2, <1>3, MoveAllDrifts

\* Where each action leaves a row, for any number of workers and open transactions.
LEMMA DriftStep ==
  ASSUME Inv, HoldPart, [Next]_vars
  PROVE  Drifts
<1>1. rows \in [Page -> Row] /\ \A p \in Page : rows[p] \in Row /\ Sound(rows[p])
  BY DEF Inv, TypeOK, RowPart
<1>2. CASE rows' = rows
  BY <1>2 DEF Drifts
<1>3. CASE CommitSource
  BY <1>3 DEF CommitSource, HoldPart, Drifts
<1>4. CASE QueueCommit
  <2>1. \A p \in Page : rows'[p] \in {Admitted(src, Queued(rows[p])), Inserted, rows[p]}
    BY <1>4 DEF QueueCommit
  <2> QED
    BY <1>1, <2>1, RequestStates DEF Drifts, Calm, Held
<1>5. ASSUME NEW p \in Page, NEW action \in Actions, Control(p, action) PROVE Drifts
  <2>1. rows'[p] = Admitted(src, Controlled(action, rows[p]))
        /\ \A q \in Page \ {p} : rows'[q] = rows[q]
    BY <1>1, <1>5 DEF Control
  <2> QED
    BY <1>1, <2>1, ControlStates DEF Drifts, Calm
<1>6. CASE SkipNotebook
  <2> DEFINE P == {p \in Page : Exists(p) /\ rows[p].state \notin {"ready", "skipped"}}
  <2>1. MoveAll(P, "skipped", "notebook_skipped") /\ P \in SUBSET Page
    BY <1>6 DEF SkipNotebook
  <2> HIDE DEF P
  <2>2. "skipped" \in Held /\ "notebook_skipped" \in Details
    BY DEF Held, Details
  <2> QED
    BY <2>1, <2>2, MoveAllDrifts
<1>7. CASE UnskipNotebook
  <2> DEFINE P == {p \in Page : /\ Exists(p) /\ rows[p].state = "skipped"
                                /\ rows[p].detail = "notebook_skipped"}
  <2>1. MoveAll(P, "cancelled", "other") /\ P \in SUBSET Page
    BY <1>7 DEF UnskipNotebook
  <2> HIDE DEF P
  <2>2. "cancelled" \in Held /\ "other" \in Details
    BY DEF Held, Details
  <2> QED
    BY <2>1, <2>2, MoveAllDrifts
<1>8. ASSUME Retire(policy') PROVE Drifts
  BY <1>8, RetireDrifts
<1>9. ASSUME NEW w \in Worker, NEW p \in Page, Claim(w, p) PROVE Drifts
  <2>1. rows[p].state \in Active /\ \A q \in Page \ {p} : rows'[q] = rows[q]
    BY <1>1, <1>9 DEF Claim, Claimable, Active
  <2> QED
    BY <2>1 DEF Drifts
<1>10. ASSUME NEW p \in Page, LeaseExpires(p) PROVE Drifts
  <2>1. rows[p].state \in Active /\ \A q \in Page \ {p} : rows'[q] = rows[q]
    BY <1>1, <1>10 DEF LeaseExpires, Active
  <2> QED
    BY <2>1 DEF Drifts
<1>11. ASSUME NEW w \in Worker, Settle(w) PROVE Drifts
  <2>1. CASE ~Fenced(w)
    BY <1>2, <1>11, <2>1 DEF Settle
  <2>2. CASE Fenced(w)
    <3>1. wk[w].page \in Page /\ \A q \in Page \ {wk[w].page} : rows'[q] = rows[q]
      BY <1>1, <1>11, <2>2 DEF Settle, Inv, TypeOK
    <3>2. rows[wk[w].page].state \in Active
      BY <1>1, <2>2, <3>1, PageAssumption DEF Fenced, Sound, Active
    <3> QED
      BY <3>1, <3>2 DEF Drifts
  <2> QED
    BY <2>1, <2>2
<1>12. CASE Device
  BY <1>2, <1>12 DEF Device, WriteFile, WriteRecord, OpenSource, ResaveRecord
<1>13. CASE Owner
  BY <1>2, <1>5, <1>6, <1>7, <1>8, <1>13 DEF Owner, QueueBegin, SetPageLimit, AllowLarge
<1>14. CASE Server
  BY <1>2, <1>3, <1>4, <1>9, <1>10, <1>11, <1>14
     DEF Server, WorkerStep, Snapshot, Recognize, Recheck, WorkerOnly
<1>15. CASE Failure
  BY <1>2, <1>15 DEF Failure, AbortSource, QueueAbort, WorkerStops, WorkerOnly
<1> QED
  BY <1>2, <1>12, <1>13, <1>14, <1>15 DEF Next, vars

\* The rows an open source transaction has locked wait for it.
LEMMA LockedStays ==
  ASSUME Inv, [Next]_vars, srcTx.open, ~CommitSource, NEW p \in srcTx.rewritten
  PROVE  rows'[p] = rows[p]
<1>1. rows \in [Page -> Row] /\ p \in Page /\ Locked(p)
  BY DEF Inv, TypeOK, SourceTx, Locked
<1>2. ASSUME NEW P, NEW state, NEW detail, MoveAll(P, state, detail) PROVE rows'[p] = rows[p]
  BY <1>1, <1>2 DEF MoveAll
<1>3. CASE Device
  BY <1>3 DEF Device, WriteFile, WriteRecord, OpenSource, ResaveRecord
<1>4. CASE Owner
  <2>1. ASSUME NEW q \in Page, NEW action \in Actions, Control(q, action) PROVE rows'[p] = rows[p]
    BY <1>1, <2>1 DEF Control
  <2> QED
    BY <1>2, <1>4, <2>1
       DEF Owner, QueueBegin, SkipNotebook, UnskipNotebook, SetPageLimit, AllowLarge, Retire
<1>5. CASE Server
  <2>1. CASE QueueCommit
    <3>1. p \notin enq.pages
      BY <1>1, <2>1 DEF QueueCommit
    <3> QED
      BY <1>1, <2>1, <3>1 DEF QueueCommit, Requeued
  <2>2. ASSUME NEW q \in Page, LeaseExpires(q) PROVE rows'[p] = rows[p]
    BY <1>1, <2>2 DEF LeaseExpires
  <2>3. ASSUME NEW w \in Worker, NEW q \in Page, Claim(w, q) PROVE rows'[p] = rows[p]
    BY <1>1, <2>3 DEF Claim, Claimable
  <2>4. ASSUME NEW w \in Worker, WorkerStep(w) PROVE rows'[p] = rows[p]
    BY <1>1, <2>4 DEF WorkerStep, Snapshot, Recognize, Recheck, WorkerOnly, Settle
  <2> QED
    BY <1>5, <2>1, <2>2, <2>3, <2>4 DEF Server
<1>6. CASE Failure
  BY <1>6 DEF Failure, AbortSource, QueueAbort, WorkerStops, WorkerOnly
<1> QED
  BY <1>3, <1>4, <1>5, <1>6 DEF Next, vars

\* A source transaction is opened, kept, or gone.
LEMMA SourceSteps ==
  ASSUME [Next]_vars
  PROVE  \/ srcTx' = srcTx /\ ~CommitSource
         \/ srcTx' = NoSourceTx
         \/ \E s, record : OpenSource(s, record)
<1>1. CASE CommitSource
  BY <1>1 DEF CommitSource
<1>2. ASSUME ~CommitSource
      PROVE  srcTx' = srcTx \/ srcTx' = NoSourceTx \/ \E s, record : OpenSource(s, record)
  <2>1. CASE Device
    BY <2>1 DEF Device, WriteFile, WriteRecord, ResaveRecord
  <2>2. CASE Owner
    BY <2>2 DEF Owner, QueueBegin, Control, SkipNotebook, UnskipNotebook, SetPageLimit, AllowLarge
  <2>3. CASE Server
    <3>1. ASSUME NEW w \in Worker, WorkerStep(w) PROVE srcTx' = srcTx
      BY <3>1 DEF WorkerStep, Snapshot, Recognize, Recheck, WorkerOnly, Settle
    <3>2. ASSUME NEW w \in Worker, NEW p \in Page, Claim(w, p) PROVE srcTx' = srcTx
      BY <3>2 DEF Claim
    <3>3. QueueCommit \/ (\E p \in Page : LeaseExpires(p)) => srcTx' = srcTx
      BY DEF QueueCommit, LeaseExpires
    <3> QED
      BY <1>2, <2>3, <3>1, <3>2, <3>3 DEF Server
  <2>4. CASE Failure
    BY <2>4 DEF Failure, AbortSource, QueueAbort, WorkerStops, WorkerOnly
  <2> QED
    BY <2>1, <2>2, <2>3, <2>4 DEF Next, vars
<1> QED
  BY <1>1, <1>2

LEMMA InitHold == Init => HoldPart
BY DEF Init, HoldPart, NoSourceTx, NoRow, NewRow, Calm

LEMMA HoldStep ==
  ASSUME Inv, HoldPart, [Next]_vars
  PROVE  HoldPart'
<1>1. \A p \in Page : rows[p] \in Row
  BY DEF Inv, TypeOK
<1>2. CASE srcTx' = srcTx /\ ~CommitSource
  BY <1>2, LockedStays DEF HoldPart
<1>3. CASE srcTx' = NoSourceTx
  BY <1>3 DEF HoldPart, NoSourceTx, NoRow, NewRow, Calm
<1>4. ASSUME NEW s, NEW record, OpenSource(s, record) PROVE HoldPart'
  <2> DEFINE f == [p \in Page |-> IF p \in Rewritten(s) THEN Rewrite(s, p) ELSE NoRow]
  <2>1. \A p \in Page : f[p].state \in Calm
    BY <1>1, RewriteStates DEF NoRow, NewRow, Calm
  <2>2. \A p \in Rewritten(s) : p \in Page /\ (rows[p].state = "skipped" => f[p].state = "skipped")
    BY <1>1, RewriteStates DEF Rewritten
  <2>3. srcTx' = [open |-> TRUE, record |-> record, src |-> s, rewritten |-> Rewritten(s), rows |-> f]
        /\ rows' = rows
    BY <1>4 DEF OpenSource
  <2> HIDE DEF f
  <2>4. srcTx'.rows = f /\ srcTx'.rewritten = Rewritten(s)
    BY <2>3
  <2> QED
    BY <2>1, <2>2, <2>3, <2>4 DEF HoldPart
<1> QED
  BY <1>2, <1>3, <1>4, SourceSteps

\* What the owner paused, cancelled or skipped stays out of work, whatever workers,
\* device changes and other requests are under way (recognition/jobs.go, skip.go;
\* page_index.go: finish, deferFailure).
THEOREM HoldsAlways == Spec => OwnerHold
<1>1. Init => Inv /\ HoldPart
  BY InitInv, InitHold
<1>2. (Inv /\ HoldPart) /\ [Next]_vars => (Inv /\ HoldPart)'
  BY InvStep, HoldStep
<1>3. (Inv /\ HoldPart) /\ [Next]_vars =>
        [\A p \in Page : rows[p].state \in Held => rows'[p].state \notin {"processing", "ready", "blocked", "failed"}]_vars
  <2> SUFFICES ASSUME Inv, HoldPart, [Next]_vars, NEW p \in Page, rows[p].state \in Held
               PROVE  rows'[p].state \notin {"processing", "ready", "blocked", "failed"}
    OBVIOUS
  <2>1. rows'[p].state = rows[p].state \/ rows'[p].state \in Calm
    BY DriftStep DEF Drifts, Held, Active
  <2> QED
    BY <2>1 DEF Calm, Held
<1> QED
  BY <1>1, <1>2, <1>3, PTL DEF Spec, OwnerHold

\* Which steps take a page out of skipped.
LEMMA SkippedStep ==
  ASSUME Inv, HoldPart, [Next]_vars, NEW p \in Page, rows[p].state = "skipped", rows'[p].state # "skipped"
  PROVE  UnskipNotebook \/ Control(p, "unskip")
<1>1. rows \in [Page -> Row] /\ Sound(rows[p]) /\ Exists(p) /\ rows[p].state \notin Active
  BY DEF Inv, TypeOK, RowPart, Exists, Active
<1>2. rows'[p] # rows[p]
  OBVIOUS
<1>3. ~CommitSource
  BY <1>2 DEF CommitSource, HoldPart, Locked
<1>4. ~QueueCommit
  <2>1. p \notin Requeued
    BY <1>1 DEF Requeued, Requeueable, Finished
  <2> QED
    BY <1>1, <1>2, <2>1 DEF QueueCommit
<1>5. ASSUME NEW q \in Page, NEW action \in Actions, Control(q, action) PROVE Control(p, "unskip")
  <2>1. q = p
    BY <1>1, <1>2, <1>5 DEF Control
  <2>2. "skipped" \in Allowed(action)
    BY <1>5, <2>1 DEF Control
  <2>3. action = "unskip"
    BY <2>2 DEF Allowed, Actions, Active
  <2> QED
    BY <1>5, <2>1, <2>3
<1>6. ~SkipNotebook
  BY <1>2 DEF SkipNotebook, MoveAll
<1>7. ~Retire(policy')
  BY <1>1, <1>2, RetireDrifts
<1>8. ASSUME NEW w \in Worker, NEW q \in Page, Claim(w, q) PROVE FALSE
  <2>1. q # p
    BY <1>1, <1>8 DEF Claim, Claimable
  <2> QED
    BY <1>1, <1>2, <1>8, <2>1 DEF Claim
<1>9. ASSUME NEW q \in Page, LeaseExpires(q) PROVE FALSE
  <2>1. q # p
    BY <1>1, <1>9 DEF LeaseExpires
  <2> QED
    BY <1>1, <1>2, <1>9, <2>1 DEF LeaseExpires
<1>10. ASSUME NEW w \in Worker, Settle(w) PROVE FALSE
  <2>1. Fenced(w) /\ wk[w].page = p
    BY <1>1, <1>2, <1>10 DEF Settle
  <2> QED
    BY <1>1, <2>1, PageAssumption DEF Fenced, Sound
<1>11. CASE Device
  BY <1>2, <1>11 DEF Device, WriteFile, WriteRecord, OpenSource, ResaveRecord
<1>12. CASE Owner
  BY <1>2, <1>5, <1>6, <1>7, <1>12 DEF Owner, QueueBegin, SetPageLimit, AllowLarge
<1>13. CASE Server
  BY <1>2, <1>3, <1>4, <1>8, <1>9, <1>10, <1>13
     DEF Server, WorkerStep, Snapshot, Recognize, Recheck, WorkerOnly
<1>14. CASE Failure
  BY <1>2, <1>14 DEF Failure, AbortSource, QueueAbort, WorkerStops, WorkerOnly
<1> QED
  BY <1>2, <1>11, <1>12, <1>13, <1>14 DEF Next, vars

\* Nothing but the owner's release takes a page out of skipped: not a request, a
\* device change or its rollback, nor a worker (migration 0027, skip.go).
THEOREM SkippedAlways == Spec => SkippedStays
<1>1. Init => Inv /\ HoldPart
  BY InitInv, InitHold
<1>2. (Inv /\ HoldPart) /\ [Next]_vars => (Inv /\ HoldPart)'
  BY InvStep, HoldStep
<1>3. (Inv /\ HoldPart) /\ [Next]_vars =>
        [\A p \in Page : rows[p].state = "skipped" /\ rows'[p].state # "skipped"
           => UnskipNotebook \/ Control(p, "unskip")]_vars
  BY SkippedStep
<1> QED
  BY <1>1, <1>2, <1>3, PTL DEF Spec, SkippedStays

-----------------------------------------------------------------------------
(* UnwantedRetired and CapFencesResults, for owners that stay out of open   *)
(* source transactions.  A source transaction takes everything from the     *)
(* rows of a notebook it deletes and the work from one it grows over the    *)
(* limit; the owner's transactions leave neither while one is open.         *)

Gone(r) == r.state \in Held \cup {"none"} /\ r.text = NoContent

RetiredPart ==
  /\ src.status = "deleted" => \A p \in Page : Gone(rows[p])
  /\ Limited(src) => \A p \in Page : rows[p].state \notin Active
  /\ srcTx.open /\ srcTx.src.status = "deleted" =>
       \A p \in Page : Gone(IF p \in srcTx.rewritten THEN srcTx.rows[p] ELSE rows[p])
  /\ srcTx.open /\ Limited(srcTx.src) => \A p \in srcTx.rewritten : srcTx.rows[p].state \notin Active

LEMMA InitRetired == Init => RetiredPart
BY DEF Init, RetiredPart, NoSourceTx, NoRow, NewRow, Active

\* A row a source change to a deleted notebook does not touch has nothing left.
LEMMA DeletedGone ==
  ASSUME Inv, NEW s, s.status = "deleted", NEW p \in Page
  PROVE  Gone(IF p \in Rewritten(s) THEN Rewrite(s, p) ELSE rows[p])
<1>1. rows[p] \in Row /\ Sound(rows[p])
  BY DEF Inv, TypeOK, RowPart
<1>2. CASE p \in Rewritten(s)
  <2> DEFINE state == IF rows[p].state \in Held THEN rows[p].state ELSE "cancelled"
             detail == IF rows[p].state \in Held THEN rows[p].detail ELSE "notebook_deleted"
  <2>1. state \in Held
    BY DEF Held
  <2>2. Rewrite(s, p) = [Moved(rows[p], state, detail) EXCEPT !.text = NoContent]
    BY DEF Rewrite, CancelDeleted
  <2> HIDE DEF state, detail
  <2>3. [Moved(rows[p], state, detail) EXCEPT !.text = NoContent].state = state
    BY DEF Moved, Row
  <2> QED
    BY <1>1, <1>2, <2>1, <2>2, <2>3, RewriteFacts DEF Gone
<1>3. CASE p \notin Rewritten(s)
  BY <1>1, <1>3 DEF Rewritten, Exists, CancelMatches, Gone, Sound
<1> QED
  BY <1>2, <1>3

\* Over the limit the trigger lets no row into the queue.
LEMMA AdmittedLimited ==
  ASSUME NEW s, Limited(s), NEW r \in Row
  PROVE  Admitted(s, r).state \notin Active
<1>1. "cancelled" \in States /\ "other" \in Details /\ "cancelled" \notin Active
  BY DEF States, Details, Held, Active
<1>2. Moved(r, "cancelled", "other").state = "cancelled"
  BY <1>1, MovedFacts
<1> QED
  BY <1>1, <1>2 DEF Admitted

\* A row rewritten over the limit is not in the queue.
LEMMA LimitedRewrite ==
  ASSUME Inv, NEW s, Limited(s), NEW p \in Page
  PROVE  Rewrite(s, p).state \notin Active
<1>1. rows[p] \in Row
  BY DEF Inv, TypeOK
<1>2. CASE s.status = "deleted"
  <2> DEFINE state == IF rows[p].state \in Held THEN rows[p].state ELSE "cancelled"
             detail == IF rows[p].state \in Held THEN rows[p].detail ELSE "notebook_deleted"
  <2>1. state \notin Active
    BY DEF Held, Active
  <2>2. Rewrite(s, p) = [Moved(rows[p], state, detail) EXCEPT !.text = NoContent]
    BY <1>2 DEF Rewrite, CancelDeleted
  <2> HIDE DEF state, detail
  <2>3. [Moved(rows[p], state, detail) EXCEPT !.text = NoContent].state = state
    BY DEF Moved, Row
  <2> QED
    BY <2>1, <2>2, <2>3
<1>3. CASE s.status # "deleted"
  BY <1>1, <1>3, AdmittedLimited, InvalidatedFacts DEF Rewrite, Unleased, Sound
<1> QED
  BY <1>2, <1>3

LEMMA OpenSourceRetired ==
  ASSUME Inv, RetiredPart, NEW s, NEW record, OpenSource(s, record)
  PROVE  RetiredPart'
<1> DEFINE f == [p \in Page |-> IF p \in Rewritten(s) THEN Rewrite(s, p) ELSE NoRow]
<1>1. \A p \in Rewritten(s) : p \in Page /\ f[p] = Rewrite(s, p)
  BY DEF Rewritten
<1>2. /\ srcTx' = [open |-> TRUE, record |-> record, src |-> s, rewritten |-> Rewritten(s), rows |-> f]
      /\ UNCHANGED <<src, rows, policy>>
  BY DEF OpenSource
<1> HIDE DEF f
<1>3. srcTx'.rows = f /\ srcTx'.src = s /\ srcTx'.rewritten = Rewritten(s)
  BY <1>2
<1>4. srcTx'.src.status = "deleted" =>
        \A p \in Page : Gone(IF p \in srcTx'.rewritten THEN srcTx'.rows[p] ELSE rows'[p])
  BY <1>1, <1>2, <1>3, DeletedGone
<1>5. Limited(srcTx'.src) => \A p \in srcTx'.rewritten : srcTx'.rows[p].state \notin Active
  BY <1>1, <1>3, LimitedRewrite
<1>6. Limited(src)' = Limited(src) /\ Limited(srcTx.src)' = Limited(srcTx'.src)
  BY <1>2 DEF Limited
<1> QED
  BY <1>2, <1>4, <1>5, <1>6 DEF RetiredPart, Gone

LEMMA CommitSourceRetired ==
  ASSUME Inv, TextPart, RetiredPart, CommitSource
  PROVE  RetiredPart'
<1>1. /\ rows' = [p \in Page |-> IF Locked(p) THEN srcTx.rows[p] ELSE rows[p]]
      /\ src' = srcTx.src /\ srcTx' = NoSourceTx /\ policy' = policy /\ srcTx.open
  BY DEF CommitSource
<1>2. ~srcTx'.open
  BY <1>1 DEF NoSourceTx
<1>3. ASSUME srcTx.src.status = "deleted", NEW p \in Page PROVE Gone(rows'[p])
  BY <1>1, <1>3 DEF RetiredPart, Locked
<1>4. ASSUME Limited(srcTx.src), NEW p \in Page PROVE rows'[p].state \notin Active
  <2>1. CASE p \in srcTx.rewritten
    BY <1>1, <1>4, <2>1 DEF RetiredPart, Locked
  <2>2. CASE p \notin srcTx.rewritten
    <3>1. CASE srcTx.src.status = "deleted"
      BY <1>3, <3>1 DEF Gone, Held, Active
    <3>2. CASE srcTx.src.status # "deleted"
      BY <1>1, <2>2, <3>2 DEF TextPart, Untouched, Locked
    <3> QED
      BY <3>1, <3>2
  <2> QED
    BY <2>1, <2>2
<1>5. Limited(src)' = Limited(srcTx.src)
  BY <1>1 DEF Limited
<1> QED
  BY <1>1, <1>2, <1>3, <1>4, <1>5 DEF RetiredPart, Gone

\* A page in work is a page of a live notebook within the limit, with no source
\* transaction that would retire it.
LEMMA WorkRetired ==
  ASSUME Inv, TextPart, RetiredPart, NEW p \in Page, ~Locked(p), rows[p].state \in Active,
         UNCHANGED <<src, policy, srcTx>>
  PROVE  RetiredPart'
<1>1. ~Gone(rows[p])
  BY DEF Gone, Held, Active
<1>2. src.status # "deleted" /\ ~Limited(src)
  BY <1>1 DEF RetiredPart
<1>3. ~srcTx.open
  BY <1>1 DEF RetiredPart, TextPart, Untouched, Locked
<1>4. Limited(src)' = Limited(src)
  BY DEF Limited
<1> QED
  BY <1>2, <1>3, <1>4 DEF RetiredPart

\* Work the owner's transactions leave under a policy: none for a deleted notebook,
\* none over the limit.
LEMMA OwnerRetired ==
  ASSUME RetiredPart, ~srcTx.open, UNCHANGED <<src, srcTx>>,
         src.status = "deleted" => \A p \in Page : Gone(rows'[p]),
         Limited(src)' => \A p \in Page : rows'[p].state \notin Active
  PROVE  RetiredPart'
BY DEF RetiredPart, Gone

LEMMA MoveAllRetired ==
  ASSUME Inv, RetiredPart, ~srcTx.open, UNCHANGED <<src, srcTx>>,
         NEW P \in SUBSET Page, NEW state \in Held, NEW detail \in Details, MoveAll(P, state, detail),
         Limited(src)' => \A p \in Page \ P : rows[p].state \notin Active
  PROVE  RetiredPart'
<1>1. \A p \in Page : rows[p] \in Row /\ rows'[p] = (IF p \in P THEN Moved(rows[p], state, detail) ELSE rows[p])
  BY DEF Inv, TypeOK, MoveAll
<1>2. state \in States /\ state \notin Active
  BY DEF States, Held, Active
<1>3. \A p \in Page : /\ Moved(rows[p], state, detail).state = state
                      /\ Moved(rows[p], state, detail).text = rows[p].text
  BY <1>1, <1>2, MovedFacts
<1>4. src.status = "deleted" => \A p \in Page : Gone(rows'[p])
  BY <1>1, <1>3 DEF RetiredPart, Gone
<1>5. Limited(src)' => \A p \in Page : rows'[p].state \notin Active
  BY <1>1, <1>2, <1>3
<1> QED
  BY <1>4, <1>5, OwnerRetired

\* alexandria_retire_oversized_recognition reaches every page the new policy forbids.
LEMMA RetireRetired ==
  ASSUME Inv, RetiredPart, ~srcTx.open, UNCHANGED <<src, srcTx>>, Retire(policy')
  PROVE  RetiredPart'
<1> DEFINE P == {p \in Page : /\ src.status # "absent" /\ Cardinality(src.listed) > policy'.limit
                              /\ ~policy'.allow /\ Exists(p) /\ rows[p].state \in Active}
<1>1. MoveAll(P, "cancelled", "other")
  BY DEF Retire
<1>2. P \in SUBSET Page
  OBVIOUS
<1>3. Limited(src)' => \A p \in Page \ P : rows[p].state \notin Active
  BY DEF Limited, Exists, Active
<1>4. "cancelled" \in Held /\ "other" \in Details
  BY DEF Held, Details
<1> HIDE DEF P
<1> QED
  BY <1>1, <1>2, <1>3, <1>4, MoveAllRetired

LEMMA ControlRetired ==
  ASSUME Inv, RetiredPart, ~srcTx.open, NEW p \in Page, NEW action \in Actions, Control(p, action)
  PROVE  RetiredPart'
<1> DEFINE c == Controlled(action, rows[p])
<1>1. rows \in [Page -> Row] /\ rows[p] \in Row
  BY DEF Inv, TypeOK
<1>2. rows'[p] = Admitted(src, c) /\ \A q \in Page \ {p} : rows'[q] = rows[q]
  BY <1>1 DEF Control
<1>3. UNCHANGED <<src, policy, srcTx>> /\ (c.state = "queued" => ~Limited(src)) /\ ~Dropped(src, rows[p], c)
  BY DEF Control
<1>4. c \in Row /\ Unleased(c) /\ c.text = rows[p].text /\ c.state \in {"paused", "cancelled", "skipped", "queued"}
  <2>1. Unleased(c) /\ c.text = rows[p].text
    BY <1>1, ControlledFacts, ControlledText
  <2>2. c.state \in {"paused", "cancelled", "skipped", "queued"}
    BY <1>1, ControlStates
  <2> HIDE DEF c
  <2> QED
    BY <2>1, <2>2 DEF Unleased, Sound
<1> HIDE DEF c
<1>5. Limited(src)' = Limited(src)
  BY <1>3 DEF Limited
<1>6. Limited(src)' => \A q \in Page : rows'[q].state \notin Active
  BY <1>2, <1>4, <1>5, AdmittedLimited DEF RetiredPart
<1>7. src.status = "deleted" => \A q \in Page : Gone(rows'[q])
  <2> SUFFICES ASSUME src.status = "deleted" PROVE \A q \in Page : Gone(rows'[q])
    OBVIOUS
  <2>1. c.state \in Held
    BY <1>3, <1>4 DEF Dropped, Held
  <2>2. Admitted(src, c).state \in Held /\ Admitted(src, c).text = rows[p].text
    BY <1>4, <2>1, AdmittedFacts DEF Held
  <2> QED
    BY <1>2, <2>2 DEF RetiredPart, Gone
<1> QED
  BY <1>3, <1>6, <1>7, OwnerRetired

LEMMA QueueCommitRetired ==
  ASSUME Inv, RetiredPart, ~srcTx.open, QueueCommit
  PROVE  RetiredPart'
<1>1. \A p \in Page : rows[p] \in Row
  BY DEF Inv, TypeOK
<1>2. UNCHANGED <<src, policy, srcTx>>
  BY DEF QueueCommit
<1>3. \A p \in Page : rows'[p] = (CASE p \in Requeued -> Admitted(src, Queued(rows[p]))
                                    [] p \in enq.pages /\ ~Exists(p) -> Inserted
                                    [] OTHER -> rows[p])
  BY DEF QueueCommit
<1>4. ASSUME src.status = "deleted", NEW p \in Page PROVE Gone(rows'[p])
  <2>1. Queued(rows[p]).state = "queued"
    BY <1>1, QueuedFacts
  <2>2. p \notin Requeued
    BY <1>4, <2>1 DEF Requeued, Dropped
  <2>3. Gone(Inserted)
    BY <1>4 DEF Inserted, NoRow, NewRow, Gone
  <2> QED
    BY <1>3, <1>4, <2>2, <2>3 DEF RetiredPart
<1>5. ASSUME Limited(src), NEW p \in Page PROVE rows'[p].state \notin Active
  <2>1. Queued(rows[p]) \in Row
    BY <1>1, QueuedFacts DEF Unleased, Sound
  <2>2. Admitted(src, Queued(rows[p])).state \notin Active
    BY <1>5, <2>1, AdmittedLimited
  <2>3. Inserted.state \notin Active
    BY <1>5 DEF Inserted, NoRow, NewRow, Active
  <2> QED
    BY <1>3, <1>5, <2>2, <2>3 DEF RetiredPart
<1>6. Limited(src)' = Limited(src)
  BY <1>2 DEF Limited
<1> QED
  BY <1>2, <1>4, <1>5, <1>6, OwnerRetired

\* A step that changes neither rows, notebook nor policy.
LEMMA SameRetired ==
  ASSUME RetiredPart, UNCHANGED <<src, rows, policy>>, srcTx' = srcTx \/ ~srcTx'.open
  PROVE  RetiredPart'
<1>1. Limited(src)' = Limited(src)
  BY DEF Limited
<1>2. CASE srcTx' = srcTx
  <2>1. Limited(srcTx.src)' = Limited(srcTx.src)
    BY <1>2 DEF Limited
  <2> QED
    BY <1>1, <1>2, <2>1 DEF RetiredPart, Gone
<1>3. CASE ~srcTx'.open
  BY <1>1, <1>3 DEF RetiredPart, Gone
<1> QED
  BY <1>2, <1>3

LEMMA OwnerActionsRetired ==
  ASSUME ~Overlap, Inv, RetiredPart, Owner
  PROVE  RetiredPart'
<1>1. ASSUME NEW p \in Page, NEW action \in Actions, Control(p, action) PROVE RetiredPart'
  BY <1>1, ControlRetired DEF Control, OwnerCommits
<1>2. CASE SkipNotebook
  <2> DEFINE P == {p \in Page : Exists(p) /\ rows[p].state \notin {"ready", "skipped"}}
  <2>1. /\ MoveAll(P, "skipped", "notebook_skipped") /\ P \in SUBSET Page
        /\ ~srcTx.open /\ UNCHANGED <<src, srcTx>>
    BY <1>2 DEF SkipNotebook, OwnerCommits
  <2>2. "skipped" \in Held /\ "notebook_skipped" \in Details
    BY DEF Held, Details
  <2>3. \A p \in Page \ P : rows[p].state \notin Active
    BY DEF Exists, Active
  <2> HIDE DEF P
  <2> QED
    BY <2>1, <2>2, <2>3, MoveAllRetired
<1>3. CASE UnskipNotebook
  <2> DEFINE P == {p \in Page : /\ Exists(p) /\ rows[p].state = "skipped"
                                /\ rows[p].detail = "notebook_skipped"}
  <2>1. /\ MoveAll(P, "cancelled", "other") /\ P \in SUBSET Page
        /\ ~srcTx.open /\ UNCHANGED <<src, srcTx>> /\ policy' = [policy EXCEPT !.skip = FALSE]
    BY <1>3 DEF UnskipNotebook, OwnerCommits
  <2>2. "cancelled" \in Held /\ "other" \in Details
    BY DEF Held, Details
  <2> HIDE DEF P
  <2>3. Limited(src)' = Limited(src)
    BY <2>1 DEF Limited, Inv, TypeOK
  <2> QED
    BY <2>1, <2>2, <2>3, MoveAllRetired DEF RetiredPart
<1>4. ASSUME NEW limit \in Limits, SetPageLimit(limit) PROVE RetiredPart'
  BY <1>4, RetireRetired DEF SetPageLimit, OwnerCommits
<1>5. ASSUME NEW allow \in BOOLEAN, AllowLarge(allow) PROVE RetiredPart'
  BY <1>5, RetireRetired DEF AllowLarge, OwnerCommits
<1>6. ASSUME NEW P, NEW only, QueueBegin(P, only) PROVE RetiredPart'
  BY <1>6, SameRetired DEF QueueBegin
<1> QED
  BY <1>1, <1>2, <1>3, <1>4, <1>5, <1>6 DEF Owner

LEMMA ServerRetired ==
  ASSUME ~Overlap, Inv, TextPart, RetiredPart, Server
  PROVE  RetiredPart'
<1>1. CASE CommitSource
  BY <1>1, CommitSourceRetired
<1>2. CASE QueueCommit
  BY <1>2, QueueCommitRetired DEF QueueCommit, OwnerCommits
<1>3. ASSUME NEW p \in Page, LeaseExpires(p) PROVE RetiredPart'
  BY <1>3, WorkRetired DEF LeaseExpires, Active
<1>4. ASSUME NEW w \in Worker, NEW p \in Page, Claim(w, p) PROVE RetiredPart'
  BY <1>4, WorkRetired DEF Claim, Claimable, Active
<1>5. ASSUME NEW w \in Worker, Snapshot(w) \/ Recognize(w) \/ Recheck(w) PROVE RetiredPart'
  BY <1>5, SameRetired DEF Snapshot, Recognize, Recheck, WorkerOnly
<1>6. ASSUME NEW w \in Worker, Settle(w) PROVE RetiredPart'
  <2>1. wk[w].page \in Page /\ Sound(rows[wk[w].page]) /\ UNCHANGED <<src, policy, srcTx>>
        /\ ~Locked(wk[w].page)
    BY <1>6 DEF Settle, Inv, TypeOK, RowPart
  <2>2. CASE ~Fenced(w)
    BY <1>6, <2>1, <2>2, SameRetired DEF Settle
  <2>3. CASE Fenced(w)
    <3>1. rows[wk[w].page].state \in Active
      BY <2>1, <2>3, PageAssumption DEF Fenced, Sound, Active
    <3> QED
      BY <2>1, <3>1, WorkRetired
  <2> QED
    BY <2>2, <2>3
<1> QED
  BY <1>1, <1>2, <1>3, <1>4, <1>5, <1>6 DEF Server, WorkerStep

LEMMA RetiredStep ==
  ASSUME ~Overlap, Inv, TextPart, RetiredPart, [Next]_vars
  PROVE  RetiredPart'
<1>1. CASE UNCHANGED vars
  BY <1>1, SameRetired DEF vars
<1>2. CASE Device
  <2>1. CASE ResaveRecord
    BY <2>1, SameRetired DEF ResaveRecord
  <2> QED
    BY <1>2, <2>1, OpenSourceRetired DEF Device, WriteFile, WriteRecord
<1>3. CASE Owner
  BY <1>3, OwnerActionsRetired
<1>4. CASE Server
  BY <1>4, ServerRetired
<1>5. CASE Failure
  BY <1>5, SameRetired DEF Failure, AbortSource, QueueAbort, WorkerStops, WorkerOnly, NoSourceTx
<1> QED
  BY <1>1, <1>2, <1>3, <1>4, <1>5 DEF Next

\* A deleted notebook keeps no finished work and no text, and nothing of one over
\* the page limit waits or is worked on (migrations 0034 and 0036), as long as the
\* owner's transactions stay out of open source transactions.
THEOREM UnwantedIsRetired ==
  ASSUME ~Overlap
  PROVE  Spec => []UnwantedRetired
<1>1. Init => Inv /\ TextPart /\ RetiredPart
  BY InitInv, InitText, InitRetired
<1>2. (Inv /\ TextPart /\ RetiredPart) /\ [Next]_vars => (Inv /\ TextPart /\ RetiredPart)'
  BY InvStep, TextStep, RetiredStep
<1>3. Inv /\ TextPart /\ RetiredPart => UnwantedRetired
  BY DEF RetiredPart, UnwantedRetired, Gone, Held
<1> QED
  BY <1>1, <1>2, <1>3, PTL DEF Spec

\* No result is published for a live notebook over the page limit, however late
\* the limit was lowered or the override taken away (page_index.go: finish;
\* migration 0036).
THEOREM CapFencesAlways ==
  ASSUME ~Overlap
  PROVE  Spec => CapFencesResults
<1>1. Init => Inv /\ HoldPart /\ TextPart /\ RetiredPart
  BY InitInv, InitHold, InitText, InitRetired
<1>2. (Inv /\ HoldPart /\ TextPart /\ RetiredPart) /\ [Next]_vars
        => (Inv /\ HoldPart /\ TextPart /\ RetiredPart)'
  BY InvStep, HoldStep, TextStep, RetiredStep
<1>3. (Inv /\ HoldPart /\ TextPart /\ RetiredPart) /\ [Next]_vars =>
        [\A p \in Page : rows[p].state # "ready" /\ rows'[p].state = "ready" /\ src.status = "live"
           => ~Limited(src)]_vars
  <2> SUFFICES ASSUME Inv, HoldPart, RetiredPart, [Next]_vars, NEW p \in Page,
                      rows[p].state # "ready", rows'[p].state = "ready"
               PROVE  ~Limited(src)
    OBVIOUS
  <2>1. rows[p].state \in Active
    BY DriftStep DEF Drifts, Calm, Held
  <2> QED
    BY <2>1 DEF RetiredPart
<1> QED
  BY <1>1, <1>2, <1>3, PTL DEF Spec, CapFencesResults
=============================================================================
