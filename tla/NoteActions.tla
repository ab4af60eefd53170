------------------------------ MODULE NoteActions ------------------------------
(***************************************************************************)
(* internal/boox: note actions.  Ink in one assigned color of one page      *)
(* becomes tasks or events, one for each passage and never twice, while the *)
(* ink and the color's setting change, leases lapse under runs that go on,  *)
(* and the notebook may be gone.                                          *)
(***************************************************************************)
EXTENDS Naturals

CONSTANTS
  Passage,    \* passages of text, as normalised by Fingerprint
  PassagesOf, \* the passages of each version of the ink, 1..MaxInk
  MaxInk,     \* bound: versions of the ink
  MaxRuns,    \* bound: claims; a run is known by its lease token
  MaxAttempts \* 4

Version == 1..MaxInk
Run == 1..MaxRuns
NoRun == 0
None == "none"

ActionAssumption ==
  /\ MaxInk \in Nat \ {0} /\ MaxRuns \in Nat /\ MaxAttempts \in Nat
  /\ None \notin Passage
  /\ PassagesOf \in [Version -> SUBSET Passage]

VARIABLES
  ink,     \* the version of the page's ink in the latest snapshot
  setting, \* what the color stands for
  row,     \* alexandria_note_action
  run,     \* the locals of each ProcessNoteActions
  claims,
  ledger,  \* alexandria_note_action_item: fingerprints committed
  items,   \* history: the tasks and events created, with the run that did
  gone     \* boox_notebook_purged has the notebook

nvars == <<ink, setting, row, run, claims, ledger, items, gone>>

Actions == {"task", "event"}

\* made: the row's detail tells how many items the last run made.
NoRow == [state |-> "none"]
Row == [state : {"queued", "processing", "ready", "failed"}, ink : Version, action : Actions,
        token : Run \cup {NoRun}, attempts : 0..MaxAttempts, made : BOOLEAN,
        input : Version \cup {0}]

\* asked: the passage whose INSERT has begun.  pending: rows and items of the
\* transaction that are not committed.
Idle == [step |-> "idle"]
RunState == [step : {"claimed", "read", "making", "made"}, action : Actions,
             attempts : 0..MaxAttempts, ink : Version \cup {0}, todo : SUBSET Passage,
             asked : Passage \cup {None}, pending : SUBSET Passage]

TypeOK ==
  /\ ink \in Version
  /\ setting \in Actions \cup {"off"}
  /\ row \in {NoRow} \cup Row
  /\ run \in [Run -> {Idle} \cup RunState]
  /\ claims \in 0..MaxRuns
  /\ ledger \subseteq Passage
  /\ items \subseteq Passage \X Run
  /\ gone \in BOOLEAN

Init ==
  /\ ink = 1 /\ setting = "task" /\ row = NoRow
  /\ run = [r \in Run |-> Idle] /\ claims = 0
  /\ ledger = {} /\ items = {} /\ gone = FALSE

-----------------------------------------------------------------------------
(* The page and the settings.                                               *)

Draw ==
  /\ ink < MaxInk
  /\ ink' = ink + 1
  /\ UNCHANGED <<setting, row, run, claims, ledger, items, gone>>

ChangeSetting ==
  /\ setting' \in (Actions \cup {"off"}) \ {setting}
  /\ UNCHANGED <<ink, row, run, claims, ledger, items, gone>>

\* noteInk, after the recognition of a page (force: its Find actions button) as
\* the caller read it, which may be some versions ago.  A new or changed ink
\* takes the row from whichever run holds it.
NoteInk(v, force) ==
  /\ v <= ink /\ setting # "off" /\ ~gone
  /\ row # NoRow =>
       row.ink # v \/ row.action # setting \/ (force /\ row.state # "processing")
  /\ row' = [state |-> "queued", ink |-> v, action |-> setting, token |-> NoRun, attempts |-> 0,
             made |-> FALSE, input |-> IF row = NoRow THEN 0 ELSE row.input]
  /\ UNCHANGED <<ink, setting, run, claims, ledger, items, gone>>

-----------------------------------------------------------------------------
(* ProcessNoteActions.                                                      *)

Holds(r) == row # NoRow /\ row.token = r

\* Any update of the row under the lease: nothing is done without it.
Under(r, new) == row' = IF Holds(r) THEN new ELSE row

Set(r, new) == run' = [run EXCEPT ![r] = new]
End(r) == Set(r, Idle)

Ready(made) == [row EXCEPT !.state = "ready", !.made = made, !.token = NoRun, !.attempts = 0]

\* A lease that has lapsed is claimed like none.
Claim ==
  /\ claims < MaxRuns
  /\ row # NoRow /\ row.state \in {"queued", "processing"}
  /\ claims' = claims + 1
  /\ row' = [row EXCEPT !.state = "processing", !.token = claims + 1]
  /\ Set(claims + 1,
         [step |-> "claimed", action |-> row.action, attempts |-> row.attempts, ink |-> 0,
          todo |-> {}, asked |-> None, pending |-> {}])
  /\ UNCHANGED <<ink, setting, ledger, items, gone>>

\* The color has another meaning by now, or the page, its ink or its text is gone.
FinishEarly(r) ==
  /\ run[r].step \in {"claimed", "read"}
  /\ Under(r, Ready(FALSE))
  /\ End(r)
  /\ UNCHANGED <<ink, setting, claims, ledger, items, gone>>

\* A provider that fails, now or for the last time.
Retry(r) ==
  /\ run[r].step \in {"claimed", "read"}
  /\ \E terminal \in BOOLEAN :
       Under(r, IF terminal \/ run[r].attempts >= MaxAttempts
                THEN [Ready(FALSE) EXCEPT !.state = "failed"]
                ELSE [row EXCEPT !.state = "queued", !.attempts = row.attempts + 1, !.token = NoRun])
  /\ End(r)
  /\ UNCHANGED <<ink, setting, claims, ledger, items, gone>>

\* The snapshot is read and recognised; its text is kept under the lease.
Read(r) ==
  /\ run[r].step = "claimed" /\ run[r].action = setting
  /\ Set(r, [run[r] EXCEPT !.step = "read", !.ink = ink])
  /\ Under(r, [row EXCEPT !.input = ink])
  /\ UNCHANGED <<ink, setting, claims, ledger, items, gone>>

\* makeItems begins under the notebook's shared lock; a gone notebook makes
\* nothing.
BeginItems(r) ==
  /\ run[r].step = "read"
  /\ Set(r, [run[r] EXCEPT !.step = "making",
                           !.todo = IF gone THEN {} ELSE PassagesOf[run[r].ink]])
  /\ UNCHANGED <<ink, setting, row, claims, ledger, items, gone>>

\* INSERT ... WHERE EXISTS the lease.
AskPassage(r, p) ==
  /\ run[r].step = "making" /\ run[r].asked = None /\ p \in run[r].todo
  /\ Set(r, [run[r] EXCEPT !.todo = run[r].todo \ {p}, !.asked = IF Holds(r) THEN p ELSE None])
  /\ UNCHANGED <<ink, setting, row, claims, ledger, items, gone>>

\* Fault: a passage is looked up among the committed ones only.
NotCommitted(r, p) == p \notin ledger

\* ON CONFLICT waits for the other transaction to end.
Unclaimed(r, p) == \A q \in Run \ {r} : run[q] # Idle => p \notin run[q].pending

InsertPassage(r) ==
  /\ run[r].step = "making" /\ run[r].asked # None
  /\ Unclaimed(r, run[r].asked)
  /\ Set(r, [run[r] EXCEPT !.asked = None,
                           !.pending = run[r].pending \cup ({run[r].asked} \ ledger)])
  /\ UNCHANGED <<ink, setting, row, claims, ledger, items, gone>>

CommitItems(r) ==
  /\ run[r].step = "making" /\ run[r].todo = {} /\ run[r].asked = None
  /\ ledger' = ledger \cup run[r].pending
  /\ items' = items \cup (run[r].pending \X {r})
  /\ Set(r, [run[r] EXCEPT !.step = "made", !.pending = {}])
  /\ UNCHANGED <<ink, setting, row, claims, gone>>

FinishMade(r) == Under(r, [Ready(TRUE) EXCEPT !.input = run[r].ink])

Finish(r) ==
  /\ run[r].step = "made"
  /\ FinishMade(r)
  /\ End(r)
  /\ UNCHANGED <<ink, setting, claims, ledger, items, gone>>

\* A failed statement or a killed process: the transaction rolls back and the
\* row waits for its lease to lapse.
Abort(r) ==
  /\ run[r] # Idle
  /\ End(r)
  /\ UNCHANGED <<ink, setting, row, claims, ledger, items, gone>>

-----------------------------------------------------------------------------
(* The purge of the notebook: the exclusive lock waits for makeItems.       *)

Purge ==
  /\ ~gone /\ \A r \in Run : run[r].step # "making"
  /\ gone' = TRUE
  /\ row' = NoRow
  /\ UNCHANGED <<ink, setting, run, claims, ledger, items>>

PurgeRows ==
  /\ gone
  /\ ledger' = {}
  /\ UNCHANGED <<ink, setting, row, run, claims, items, gone>>

-----------------------------------------------------------------------------
Process(r) ==
  \/ FinishEarly(r) \/ Retry(r) \/ Read(r) \/ BeginItems(r) \/ InsertPassage(r)
  \/ CommitItems(r) \/ Finish(r) \/ Abort(r)
  \/ \E p \in Passage : AskPassage(r, p)

Next ==
  \/ Draw \/ ChangeSetting \/ Claim \/ Purge \/ PurgeRows
  \/ \E v \in Version, force \in BOOLEAN : NoteInk(v, force)
  \/ \E r \in Run : Process(r)

Spec == Init /\ [][Next]_nvars

-----------------------------------------------------------------------------
(* Properties.                                                              *)

\* A passage becomes one item, whichever runs overlap and however often its ink
\* is queued again; after a purge, which forgets what was made, none does.
OnePerPassage == \A i, j \in items : i[1] = j[1] => i = j

\* A row that says its items were made has one for every passage of the ink it
\* read, made by this run or an earlier one; a run that lost its lease while it
\* skipped passages never says so.
MadeAll ==
  row # NoRow /\ row.state = "ready" /\ row.made => PassagesOf[row.input] \subseteq ledger
=============================================================================
