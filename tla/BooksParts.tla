----------------------------- MODULE BooksParts -----------------------------
(***************************************************************************)
(* The permanent removal of notebooks, the import of books, the search      *)
(* index of books and the mirrors of what readers write, which keep no row  *)
(* in common with each other or with the publication of other operations.   *)
(***************************************************************************)
CONSTANTS
  Notebook, Removable, Child, NotebookOf, Body, BatchLimit, MaxWrites, MaxFailures,
  Batch, Folder, Book, FolderOf, BookOf, MaxEdits, MaxLost,
  AnnotationCount, Worker, Pumper, Limit, MaxEvents,
  Authored, Sweeper, PageSize, MaxPages, NoRow

VARIABLES
  gateway, feed, revision, blobs, object, derived, inserting, purge, confirmed,
  replaced, erased, leftover, txn, writes, failures,
  folder, seen, book, op, member, seenMember, item, message, pass, newer, edits, lost,
  last, journal, cursor, inputs, ready, jobs, documents, pump, work, newest, overtaken,
  events,
  inbox, state, mirror, sweep

Purge == INSTANCE NotebookPurge
Imports == INSTANCE BookImport
Search == INSTANCE ReaderSearch
Reader == INSTANCE ReaderStore

ASSUME BooksAssumption ==
  /\ Purge!PurgeAssumption /\ Imports!ImportAssumption /\ Search!SearchAssumption
  /\ Reader!ReaderAssumption

\* Recorded revisions and assets have their objects, whatever documents start
\* sharing while a purge deletes; what a purge erased stays erased, and a document
\* that comes back is known to need removing (boox/notebook_purge.go:35-186).
PurgeSound == Purge!TypeOK /\ Purge!ObjectsHeld /\ Purge!StaysErased /\ Purge!ReturnsTracked

\* An import that says it is done has its book on its shelf, and nothing an import
\* does brings back what was removed or renamed meanwhile
\* (boox/book_import_worker.go:18-191).
ImportsSound ==
  /\ [](Imports!TypeOK /\ Imports!ImportedWhole)
  /\ [][Imports!RestoresNothing]_<<folder, seen, book, op, member, seenMember, item, message,
                                   pass, newer, edits, lost>>

\* A search shows an annotation as it is, and finds all of them when the jobs are
\* done, but for the exception ReaderSearch names (readersearch/store.go:37-209).
SearchCurrent == Search!TypeOK /\ Search!ShownIsCurrent /\ Search!IndexedWhenDone

\* The mirrors depend on the ops received and not on the order they came in, and a
\* sweep nobody met leaves no row it could have settled (reader/store.go:152-328).
ReaderConverges == Reader!TypeOK /\ Reader!Converged /\ Reader!SweepDrains
=============================================================================
