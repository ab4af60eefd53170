------------------------------- MODULE MCServer -------------------------------
(* The server's queues and stores side by side: the recognition queue, sync *)
(* assets, pages of the clients' notebooks, the semantic index, the tasks   *)
(* and events made of colored ink, and the AI settings.  The parts share no *)
(* row: a behaviour moves one of them, each on variables of its own.        *)
EXTENDS MCPageIndex, ServerParts

CONSTANTS w1, w2, nobody, nothing, a1, e1, e2, u1, q1, q2, h1, h2

VARIABLE part  \* the part that moves

AssetsVars == <<
  asset, chunk, store, intent, upload, verify, publish, collector, lost>>

ClientPageVars == <<
  page, trash, hold, mark, cache, index, authored, round, era, changes, working,
  given>>

SearchVars == <<
  text, enabled, gen, work, vectors, call, edits>>

NoteActionVars == <<
  drawn, meaning, action, making, claims, ledger, items, gone>>

SettingsVars == <<
  scope, settings, since, tab, pass, book, clock, reset, swept, late>>

OwnVars == <<AssetsVars, ClientPageVars, SearchVars, NoteActionVars, SettingsVars>>

\* The semantic index starts with one page that has text.
OneText == [p \in {q1, q2} |-> IF p = q1 THEN h1 ELSE nothing]

\* One asset of one chunk.
OneChunk == [a \in {a1} |-> [i \in {0} |-> e1]]

\* Two versions of the ink; one passage is kept, one is added.
TwoVersions == [v \in 1..2 |-> IF v = 1 THEN {q1} ELSE {q1, q2}]

\* The deployment recognizes pages, without a key.
Keyless == [url |-> h1, on |-> TRUE, key |-> nothing]

\* Settings edited from every two forms, or the automatic choices beside the worker.
Editing == {"models", "minutes"}
ThreeScopes ==
  {Editing, {"models", "automatic", "semantic"}, {"automatic", "alone", "pass", "time"}}

AllInit ==
  /\ part \in {"index", "assets", "pages", "search", "action", "settings"}
  /\ Init /\ Assets!Init /\ ClientPage!Init /\ Search!Init /\ NoteAction!Init /\ Settings!Init
  /\ text = OneText
  /\ part # "index" => src = CHOOSE v \in Drawn : v.status = "live"
  /\ part # "settings" => scope = Editing

AllNext ==
  \/ part = "index" /\ Next /\ UNCHANGED <<part, OwnVars>>
  \/ /\ part = "assets" /\ Assets!Next
     /\ UNCHANGED <<part, vars, ClientPageVars, SearchVars, NoteActionVars, SettingsVars>>
  \/ /\ part = "pages" /\ ClientPage!Next
     /\ UNCHANGED <<part, vars, AssetsVars, SearchVars, NoteActionVars, SettingsVars>>
  \/ /\ part = "search" /\ Search!Next
     /\ UNCHANGED <<part, vars, AssetsVars, ClientPageVars, NoteActionVars, SettingsVars>>
  \/ /\ part = "action" /\ NoteAction!Next
     /\ UNCHANGED <<part, vars, AssetsVars, ClientPageVars, SearchVars, SettingsVars>>
  \/ /\ part = "settings" /\ Settings!Next
     /\ UNCHANGED <<part, vars, AssetsVars, ClientPageVars, SearchVars, NoteActionVars>>

AllSpec == AllInit /\ [][AllNext]_<<part, vars, OwnVars>>
===============================================================================
