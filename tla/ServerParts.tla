----------------------------- MODULE ServerParts -----------------------------
(***************************************************************************)
(* Parts of the server that keep no row in common with the recognition     *)
(* queue nor with each other: the store of sync assets, the pages of the    *)
(* clients' notebooks, the semantic index, the tasks and events made of     *)
(* colored ink, and the AI settings.                                        *)
(***************************************************************************)
CONSTANTS
  Asset, Index, Digest, Right, Uploader, Verifier, MaxReset, Losable, NoDigest,
  Reader, Notebook, Ink, Typed, Nothing, MaxChanges,
  TextPage, Words, Embedder, NoWords, NoEmbedder, MaxBuilds, MaxEdits, MaxTries,
  Passage, PassagesOf, MaxInk, MaxRuns, MaxFailures,
  Tab, Pass, Url, NoUrl, Deployed, Scopes, MaxSaves, MaxClock

VARIABLES
  asset, chunk, store, intent, upload, verify, publish, collector, lost,
  page, trash, hold, mark, cache, index, authored, round, era, changes, working, given,
  text, enabled, gen, work, vectors, call, edits,
  drawn, meaning, action, making, claims, ledger, items, gone,
  scope, settings, since, tab, pass, book, clock, reset, swept, late

Assets == INSTANCE AssetStore
ClientPage == INSTANCE ClientPages WITH Worker <- Reader
Search == INSTANCE Embeddings WITH
  Page <- TextPage, Text <- Words, NoText <- NoWords, Worker <- Embedder,
  NoWorker <- NoEmbedder, MaxAttempts <- MaxTries
NoteAction == INSTANCE NoteActions WITH
  MaxAttempts <- MaxFailures,
  ink <- drawn, setting <- meaning, row <- action, run <- making
Settings == INSTANCE ProviderSettings WITH MaxRevision <- MaxSaves, row <- settings

ASSUME ServerAssumption ==
  /\ Assets!AssetAssumption /\ ClientPage!PageAssumption
  /\ Search!SearchAssumption /\ NoteAction!ActionAssumption
  /\ Settings!SettingsAssumption

\* An asset that is ready has every chunk, with the right content, in the object
\* store (assetstore/store.go:292-383, 410-480).
ReadyWhole == Assets!TypeOK /\ Assets!ReadyWhole

\* A page nobody waits for is indexed as it is (notes/pipeline.go:295-421).
IndexCurrent == ClientPage!TypeOK /\ ClientPage!IndexCurrent

\* A page with nothing left to embed has the vectors of its current text, in every
\* generation in use (providers/index.go:160-272).
VectorsCurrent == Search!TypeOK /\ Search!VectorsCurrent

\* A passage makes one task or event however often its color is run, and a run
\* that finished made everything the ink holds (boox/note_actions.go:315-391).
ItemsRight == NoteAction!TypeOK /\ NoteAction!OnePerPassage /\ NoteAction!MadeAll

\* A key stays with the address it was typed for, a form changes only what it
\* carries, and no notebook is queued for what it was before automatic processing
\* was last turned off or on (providers/store.go:615-700; boox/auto.go:55-92).
SettingsSound ==
  /\ [](Settings!TypeOK /\ Settings!KeysStay /\ Settings!NothingSwept)
  /\ [][Settings!FormsKeepOthers]_<<scope, settings, since, tab, pass, book, clock, reset, swept, late>>
=============================================================================
