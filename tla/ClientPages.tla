------------------------------ MODULE ClientPages ------------------------------
(***************************************************************************)
(* internal/alexandria/notes: the pipeline of one synced notebook page.     *)
(* Devices and the owner mark the page, a worker claims the mark, reads the *)
(* page in several statements, recognises its ink and settles index, cache  *)
(* and authored text in one transaction.                                    *)
(***************************************************************************)
EXTENDS Naturals

CONSTANTS
  Worker,
  Notebook,  \* notebooks the page is moved between
  Ink,       \* strokes of the page
  Typed,     \* text boxes
  Nothing,   \* neither ink nor typed text
  MaxChanges \* bound: edits, requests, controls and replacements, together

VARIABLES
  page,     \* fn_page, fn_stroke, fn_text_box
  trash,    \* the notebook is deleted
  hold,     \* the notebook is skipped, or over the page limit
  mark,     \* alexandria_page_dirty
  cache,    \* alexandria_page_ocr
  index,    \* alexandria_note_content
  authored, \* fn_page_text_from_server
  round,    \* requests to forget what was recognised
  era,      \* sync_library_generation
  changes,
  working,  \* the locals of each Step
  given     \* history: a mark was refused over the limit, or used up in the trash

cvars == <<page, trash, hold, mark, cache, index, authored, round, era, changes, working,
           given>>

NoHolder == "none"

PageAssumption ==
  /\ Nothing \notin Ink /\ Nothing \notin Typed
  /\ NoHolder \notin Worker
  /\ MaxChanges \in Nat

Unmarked == [state |-> "none"]
None == [ink |-> Nothing]
Idle == [step |-> "idle"]

Pages == [live : BOOLEAN, notebook : Notebook, ink : Ink \cup {Nothing},
          typed : Typed \cup {Nothing}]

\* What is recognised is known by the ink and by the round it was asked in.
Texts == [ink : Ink \cup {Nothing}, round : 0..MaxChanges, typed : Typed \cup {Nothing}]
Text(ink, r, typed) ==
  IF ink = Nothing /\ typed = Nothing THEN None
  ELSE [ink |-> ink, round |-> IF ink = Nothing THEN 0 ELSE r, typed |-> typed]

Marks ==
  {Unmarked}
  \cup [state : {"queued", "processing", "failed", "paused", "cancelled", "skipped"},
        token : Worker \cup {NoHolder}]

TypeOK ==
  /\ page \in Pages
  /\ trash \in BOOLEAN /\ given \in BOOLEAN
  /\ hold \in {"no", "skip", "limit"}
  /\ mark \in Marks
  /\ cache \in {None} \cup [ink : Ink, round : 0..MaxChanges]
  /\ index \in {None} \cup [notebook : Notebook, text : Texts]
  /\ authored \in {None} \cup Texts
  /\ round \in 0..MaxChanges /\ era \in 0..MaxChanges /\ changes \in 0..MaxChanges
  /\ \A w \in Worker : working[w].step \in {"idle", "claimed", "head", "ink", "read", "finish"}

Init ==
  /\ page \in {p \in Pages : p.live /\ p.ink # Nothing /\ p.typed = Nothing}
  /\ trash = FALSE /\ hold = "no" /\ given = FALSE
  /\ mark = [state |-> "queued", token |-> NoHolder]
  /\ cache = None /\ index = None /\ authored = None
  /\ round = 0 /\ era = 0 /\ changes = 0
  /\ working = [w \in Worker |-> Idle]

Change == changes < MaxChanges /\ changes' = changes + 1

-----------------------------------------------------------------------------
(* Marks.  The trigger of the table takes the lease away with every new     *)
(* dirtied_at, so the token alone tells whether a claim is the current one. *)

\* A row is inserted as queued; a skip or the limit has the last word.
Inserted ==
  CASE hold = "no" -> [state |-> "queued", token |-> NoHolder]
    [] hold = "skip" -> [state |-> "skipped", token |-> NoHolder]
    [] hold = "limit" -> Unmarked

Updated(state) == [state |-> state, token |-> NoHolder]

\* MarkDirty: what the owner stopped stays stopped.
MarkDirty ==
  /\ mark' = IF mark = Unmarked THEN Inserted
             ELSE IF mark.state \in {"skipped", "paused", "cancelled"} THEN Updated(mark.state)
             ELSE Updated(CASE hold = "no" -> "queued" [] hold = "skip" -> "skipped"
                            [] hold = "limit" -> "cancelled")
  /\ given' = (mark' = Unmarked)

\* A request for the page: it is queued again wherever it was, but for a skip.
MarkQueued ==
  /\ mark' = IF mark = Unmarked THEN Inserted
             ELSE IF mark.state = "skipped" THEN Updated("skipped")
             ELSE IF hold = "limit" /\ mark.state \in {"paused", "cancelled"} THEN mark
             ELSE Updated(CASE hold = "no" -> "queued" [] hold = "skip" -> "skipped"
                            [] hold = "limit" -> "cancelled")
  /\ given' = (mark' = Unmarked)

\* A device transaction (or the owner's edit of a text box).
Edit ==
  /\ Change
  /\ page' \in Pages \ {page}
  /\ MarkDirty
  /\ UNCHANGED <<trash, hold, cache, index, authored, round, era, working>>

\* Deleting or restoring a notebook reports none of its pages.
TrashNotebook ==
  /\ Change
  /\ trash' = ~trash
  /\ UNCHANGED <<page, hold, mark, cache, index, authored, round, era, working, given>>

\* Reprocess, and queueTx when forced: the page is queued, its cache forgotten.
Reprocess ==
  /\ Change /\ page.live
  /\ round' = round + 1
  /\ cache' = None
  /\ MarkQueued
  /\ UNCHANGED <<page, trash, hold, index, authored, era, working>>

\* queueTx.
Request ==
  /\ Change
  /\ hold = "no" /\ page.live
  /\ mark = Unmarked \/ mark.state \in {"failed", "cancelled"}
  /\ MarkQueued
  /\ UNCHANGED <<page, trash, hold, cache, index, authored, round, era, working>>

-----------------------------------------------------------------------------
(* Controls.                                                                *)

\* The skip and the limit take running work away as they are set.
SetHold(h) ==
  /\ Change
  /\ hold # h /\ "no" \in {hold, h}
  /\ hold' = h
  /\ mark' = IF mark = Unmarked THEN mark
             ELSE IF h = "skip" THEN [state |-> "skipped", token |-> NoHolder]
             ELSE IF h = "limit" /\ mark.state \in {"queued", "processing"}
             THEN [state |-> "cancelled", token |-> NoHolder]
             ELSE IF hold = "skip" /\ mark.state = "skipped"
             THEN [mark EXCEPT !.state = "cancelled"]
             ELSE mark
  /\ UNCHANGED <<page, trash, cache, index, authored, round, era, working, given>>

\* Pause, resume, cancel and retry of applyControl.
Control(from, to) ==
  /\ Change
  /\ mark # Unmarked /\ mark.state \in from
  /\ to = "queued" => hold # "limit"
  /\ mark' = [state |-> to, token |-> NoHolder]
  /\ UNCHANGED <<page, trash, hold, cache, index, authored, round, era, working, given>>

Controls ==
  \/ Control({"queued", "processing"}, "paused")
  \/ Control({"paused"}, "queued")
  \/ Control({"queued", "processing", "paused", "failed"}, "cancelled")
  \/ Control({"failed"}, "queued")

\* An authoritative restore, which ends with ReplaceDerived.
ReplaceLibrary ==
  /\ Change
  /\ era' = era + 1
  /\ page' \in Pages
  /\ authored' \in {None, authored}
  /\ index' = None
  /\ mark' = Inserted
  /\ given' = (hold = "limit")
  /\ UNCHANGED <<trash, hold, cache, round, working>>

-----------------------------------------------------------------------------
(* Step: claim, load, process, finish.                                      *)

Set(w, r) == working' = [working EXCEPT ![w] = r]

\* Fault: it is enough that the page is being processed.
Processing(w) == mark # Unmarked /\ mark.state = "processing"

Holds(w) == mark # Unmarked /\ mark.state = "processing" /\ mark.token = w

\* A lease that has lapsed is claimed like none; the generation is read next.
Claim(w) ==
  /\ working[w] = Idle
  /\ mark # Unmarked /\ mark.state \in {"queued", "processing"} /\ hold # "limit"
  /\ mark' = [state |-> "processing", token |-> w]
  /\ Set(w, [step |-> "claimed"])
  /\ UNCHANGED <<page, trash, hold, cache, index, authored, round, era, changes, given>>

ReadGeneration(w) ==
  /\ working[w].step = "claimed"
  /\ Set(w, [step |-> "head", era |-> era])
  /\ UNCHANGED <<page, trash, hold, mark, cache, index, authored, round, era, changes, given>>

\* load: the page and its notebook with the authored text, then strokes, then boxes.
ReadHead(w) ==
  LET r == working[w]
  IN /\ r.step = "head"
     /\ Set(w, [step |-> IF page.live /\ ~trash THEN "ink" ELSE "finish", era |-> r.era,
                notebook |-> page.notebook, gone |-> ~page.live \/ trash, seen |-> authored,
                text |-> None, fresh |-> None])
     /\ UNCHANGED <<page, trash, hold, mark, cache, index, authored, round, era, changes, given>>

\* The cache is read by the hash of the strokes, before anything is recognised.
ReadInk(w) ==
  LET r == working[w]
      hit == page.ink # Nothing /\ cache # None /\ cache.ink = page.ink
      at == IF hit THEN cache.round ELSE round
  IN /\ r.step = "ink"
     /\ Set(w, [r EXCEPT !.step = "read", !.text = Text(page.ink, at, Nothing),
                  !.fresh = IF hit \/ page.ink = Nothing THEN None
                            ELSE [ink |-> page.ink, round |-> at]])
     /\ UNCHANGED <<page, trash, hold, mark, cache, index, authored, round, era, changes, given>>

ReadTyped(w) ==
  LET r == working[w]
  IN /\ r.step = "read"
     /\ Set(w, [r EXCEPT !.step = "finish",
                  !.text = IF r.text = None THEN Text(Nothing, 0, page.typed)
                           ELSE Text(r.text.ink, r.text.round, page.typed)])
     /\ UNCHANGED <<page, trash, hold, mark, cache, index, authored, round, era, changes, given>>

\* The library was replaced meanwhile: only the lease is given back.
FinishReplaced(w) ==
  /\ working[w].step = "finish" /\ working[w].era # era
  /\ mark' = IF mark # Unmarked /\ mark.token = w THEN [mark EXCEPT !.token = NoHolder] ELSE mark
  /\ Set(w, Idle)
  /\ UNCHANGED <<page, trash, hold, cache, index, authored, round, era, changes, given>>

FinishLost(w) ==
  /\ working[w].step = "finish" /\ working[w].era = era /\ ~Holds(w)
  /\ Set(w, Idle)
  /\ UNCHANGED <<page, trash, hold, mark, cache, index, authored, round, era, changes, given>>

\* Every derived effect in one transaction; text is authored when it differs
\* from the one that was read.
Finish(w) ==
  LET r == working[w]
  IN /\ r.step = "finish" /\ r.era = era /\ Holds(w)
     /\ index' = IF r.text = None THEN None ELSE [notebook |-> r.notebook, text |-> r.text]
     /\ authored' = IF r.seen = r.text THEN authored ELSE r.text
     /\ cache' = IF r.fresh = None THEN cache ELSE r.fresh
     /\ mark' = Unmarked
     /\ given' = (r.gone /\ page.live)
     /\ Set(w, Idle)
     /\ UNCHANGED <<page, trash, hold, round, era, changes>>

\* A failure is reported under the lease and the mark it was claimed with.
Fail(w) ==
  /\ working[w].step = "read"
  /\ mark' \in IF Holds(w) THEN [state : {"queued", "failed"}, token : {NoHolder}] ELSE {mark}
  /\ Set(w, Idle)
  /\ UNCHANGED <<page, trash, hold, cache, index, authored, round, era, changes, given>>

Crash(w) ==
  /\ working[w] # Idle
  /\ Set(w, Idle)
  /\ UNCHANGED <<page, trash, hold, mark, cache, index, authored, round, era, changes, given>>

Step(w) ==
  \/ Claim(w) \/ ReadGeneration(w) \/ ReadHead(w) \/ ReadInk(w) \/ ReadTyped(w)
  \/ FinishReplaced(w) \/ FinishLost(w) \/ Finish(w) \/ Fail(w) \/ Crash(w)

-----------------------------------------------------------------------------
Next ==
  \/ Edit \/ TrashNotebook \/ Reprocess \/ Request \/ ReplaceLibrary \/ Controls
  \/ \E h \in {"no", "skip", "limit"} : SetHold(h)
  \/ \E w \in Worker : Step(w)

Spec == Init /\ [][Next]_cvars

-----------------------------------------------------------------------------
(* Properties.                                                              *)

\* A page without a mark is indexed, and its text relayed, exactly as it is now,
\* recognised no earlier than the last request to forget; however the devices,
\* the controls, a replacement of the library and several workers interleave.
\* The two cases in which the code gives a mark up are history, not state.
IndexCurrent ==
  mark = Unmarked /\ ~given /\ ~trash =>
    LET text == IF page.live THEN Text(page.ink, round, page.typed) ELSE None
    IN /\ index = IF text = None THEN None ELSE [notebook |-> page.notebook, text |-> text]
       /\ authored = text
=============================================================================
