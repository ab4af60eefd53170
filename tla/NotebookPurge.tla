---------------------------- MODULE NotebookPurge ----------------------------
(***************************************************************************)
(* internal/boox: the permanent removal of a notebook, next to everything  *)
(* that may bring a piece of it back: the change feed, the object store,   *)
(* derived writers and devices that edit offline.  A transaction that      *)
(* writes native data holds the lock boox-native-writes from its first to  *)
(* its last step; what it does to the gateway and to the object store      *)
(* stays done when it rolls back.                                          *)
(***************************************************************************)
EXTENDS Naturals, FiniteSets

CONSTANTS
  Notebook,   \* documents that are notebook records
  Removable,  \* bound: notebooks that may be removed; derived rows of the rest are left out
  Child,      \* commits and tags, documents that name their notebook
  NotebookOf, \* the notebook a document belongs to (itself for a record)
  Body,       \* asset contents, by hash; notebooks may share one
  BatchLimit, \* documents removed from the gateway in one turn (32)
  MaxWrites,  \* bound: device writes to the gateway
  MaxFailures \* bound: transactions that fail

Item == Notebook \cup Child

\* A notebook's record belongs to itself.
PurgeAssumption ==
  /\ NotebookOf \in [Item -> Notebook] /\ \A n \in Notebook : NotebookOf[n] = n
  /\ Removable \subseteq Notebook
  /\ MaxWrites \in Nat /\ MaxFailures \in Nat

VARIABLES
  gateway,   \* the winning leaf of each document on the gateway
  feed,      \* documents with a change after boox_cursor
  revision,  \* documents with content in boox_revision
  blobs,     \* boox_blob_version: contents recorded for each notebook
  object,    \* the object store: revisions by document, assets by content
  derived,   \* notebooks with queue or derived rows
  inserting, \* notebooks with a derived row inserted and not yet committed
  purge,     \* state of the notebook's purge_note operation
  confirmed, \* the record and the asset manifest are the confirmed ones
  replaced,  \* notebooks whose operation is of an earlier library generation
  erased,    \* boox_purged_document: absent, pending, or removed
  leftover,  \* boox_purge_object: objects still to delete
  txn,        \* the transaction that holds the native write lock
  writes, failures

pvars == <<gateway, feed, revision, blobs, object, derived, inserting, purge,
           confirmed, replaced, erased, leftover, txn, writes, failures>>

Free == [kind |-> "none"]
Unlocked == txn = Free

PurgeStates == {"none", "queued", "purging_native", "purging_server", "purging_objects",
                "complete", "blocked"}

\* boox_notebook_purged has a row from the end of the queued stage on.
Purged == {n \in Notebook : erased[n] # "absent"}

TypeOK ==
  /\ gateway \in [Item -> {"absent", "live", "deleted"}]
  /\ feed \subseteq Item /\ revision \subseteq Item
  /\ blobs \in [Notebook -> SUBSET Body]
  /\ object \subseteq Item \cup Body
  /\ derived \subseteq Notebook /\ inserting \subseteq Notebook
  /\ purge \in [Notebook -> PurgeStates]
  /\ confirmed \subseteq Notebook /\ replaced \subseteq Notebook
  /\ erased \in [Item -> {"absent", "pending", "removed"}]
  /\ leftover \in [Notebook -> SUBSET (Item \cup Body)]
  /\ txn.kind \in {"none", "put", "observe", "tombstone", "objects"}
  /\ writes \in 0..MaxWrites /\ failures \in 0..MaxFailures

\* The notebooks have been observed, none of their commits and tags yet.
Init ==
  /\ gateway = [d \in Item |-> IF d \in Notebook THEN "live" ELSE "absent"]
  /\ revision = Notebook
  /\ object = Notebook
  /\ feed = {} /\ derived = {} /\ inserting = {}
  /\ blobs = [n \in Notebook |-> {}]
  /\ purge = [n \in Notebook |-> "none"]
  /\ confirmed = {} /\ replaced = {}
  /\ erased = [d \in Item |-> "absent"]
  /\ leftover = [n \in Notebook |-> {}]
  /\ txn = Free
  /\ writes = 0 /\ failures = 0

-----------------------------------------------------------------------------
(* Devices: gateway documents and OSS objects.                              *)

\* A device creates, edits or brings back a document; no lock is involved.
DeviceWrite(d) ==
  /\ writes < MaxWrites
  /\ gateway' = [gateway EXCEPT ![d] = "live"]
  /\ feed' = feed \cup {d}
  /\ confirmed' = confirmed \ {d}
  /\ writes' = writes + 1
  /\ UNCHANGED <<revision, blobs, object, derived, inserting, purge, replaced, erased, leftover, txn, failures>>

\* PUT of a note asset: refused for a purged notebook, else the object is
\* stored before its row is written ...
PutObject(n, b) ==
  /\ Unlocked
  /\ n \notin Purged
  /\ object' = object \cup {b}
  /\ txn' = [kind |-> "put", notebook |-> n, body |-> b]
  /\ UNCHANGED <<gateway, feed, revision, blobs, derived, inserting, purge, confirmed,
                 replaced, erased, leftover, writes, failures>>

\* ... and the row changes the manifest a purge was confirmed with.
PutCommit ==
  /\ txn.kind = "put"
  /\ blobs' = [blobs EXCEPT ![txn.notebook] = @ \cup {txn.body}]
  /\ confirmed' = confirmed \ {txn.notebook}
  /\ txn' = Free
  /\ UNCHANGED <<gateway, feed, revision, object, derived, inserting, purge, replaced,
                 erased, leftover, writes, failures>>

\* DELETE hides the live asset: a version without content, a changed manifest.
DeleteAsset(n) ==
  /\ Unlocked
  /\ n \notin Purged
  /\ confirmed' = confirmed \ {n}
  /\ UNCHANGED <<gateway, feed, revision, blobs, object, derived, inserting, purge, replaced,
                 erased, leftover, txn, writes, failures>>

\* Any transaction may fail: its rows roll back, its external effects stay.
\* The feed of an observation is read again from the old cursor.
Rollback ==
  /\ ~Unlocked
  /\ failures < MaxFailures
  /\ failures' = failures + 1
  /\ feed' = IF txn.kind = "observe" THEN feed \cup txn.page ELSE feed
  /\ txn' = Free
  /\ UNCHANGED <<gateway, revision, blobs, object, derived, inserting, purge, confirmed,
                 replaced, erased, leftover, writes>>

-----------------------------------------------------------------------------
(* Derived rows: the trigger checks the ledger under the shared lock of the *)
(* notebook, which the transaction keeps until it commits.                  *)

InsertDerived(n) ==
  /\ n \notin Purged /\ n \notin inserting
  /\ inserting' = inserting \cup {n}
  /\ UNCHANGED <<gateway, feed, revision, blobs, object, derived, purge, confirmed,
                 replaced, erased, leftover, txn, writes, failures>>

CommitDerived(n) ==
  /\ n \in inserting
  /\ inserting' = inserting \ {n}
  /\ derived' = derived \cup {n}
  /\ UNCHANGED <<gateway, feed, revision, blobs, object, purge, confirmed, replaced,
                 erased, leftover, txn, writes, failures>>

-----------------------------------------------------------------------------
(* The change feed.                                                         *)

\* suppressPurgedDocument: known by identity, or by the notebook a body names.
\* A deletion has no body to name one.
Suppressed(d, live) == erased[d] # "absent" \/ (d \in live /\ NotebookOf[d] \in Purged)

\* A page is read with every leaf it names; what is archived is stored at once.
ObservePage ==
  /\ Unlocked
  /\ feed # {}
  /\ LET live == {d \in feed : gateway[d] = "live"}
     IN /\ txn' = [kind |-> "observe", page |-> feed, live |-> live]
        /\ object' = object \cup {d \in live : ~Suppressed(d, live)}
  /\ feed' = {}
  /\ UNCHANGED <<gateway, revision, blobs, derived, inserting, purge, confirmed, replaced,
                 erased, leftover, writes, failures>>

\* A complete purge goes back to its native stage when a document returned.
Reopened(n, returned) ==
  IF purge[n] = "complete" /\ returned # {} THEN "purging_native" ELSE purge[n]

ObserveCommit ==
  /\ txn.kind = "observe"
  /\ LET hidden == {d \in txn.page : Suppressed(d, txn.live)}
         Returned(n) == {d \in hidden \cap txn.live : NotebookOf[d] = n}
     IN /\ revision' = revision \cup (txn.live \ hidden)
        /\ erased' = [d \in Item |->
                       IF d \notin hidden THEN erased[d]
                       ELSE IF d \in txn.live \/ erased[d] = "pending" THEN "pending" ELSE "removed"]
        /\ purge' = [n \in Notebook |-> Reopened(n, Returned(n))]
  /\ txn' = Free
  /\ UNCHANGED <<gateway, feed, blobs, object, derived, inserting, confirmed, replaced,
                 leftover, writes, failures>>

-----------------------------------------------------------------------------
(* The purge operation.                                                     *)

\* The projected record, which is in the trash, and the manifest are the
\* previewed ones; the projection is behind while the record is in the feed.
RequestPurge(n) ==
  /\ Unlocked
  /\ purge[n] \in {"none", "blocked"} /\ n \notin Purged /\ n \in revision
  /\ purge' = [purge EXCEPT ![n] = "queued"]
  /\ confirmed' = IF n \in feed THEN confirmed ELSE confirmed \cup {n}
  /\ replaced' = replaced \ {n}
  /\ UNCHANGED <<gateway, feed, revision, blobs, object, derived, inserting, erased,
                 leftover, txn, writes, failures>>

\* Whole-library replacement gives the library a new generation.
ReplaceLibrary ==
  /\ replaced # {n \in Notebook : purge[n] # "none"}
  /\ replaced' = {n \in Notebook : purge[n] # "none"}
  /\ UNCHANGED <<gateway, feed, revision, blobs, object, derived, inserting, purge,
                 confirmed, erased, leftover, txn, writes, failures>>

Turn(n, state) == Unlocked /\ purge[n] = state /\ n \notin replaced

\* publishOne: an operation of another generation is never carried on.
BlockReplaced(n) ==
  /\ Unlocked
  /\ n \in replaced
  /\ purge[n] \in PurgeStates \ {"none", "complete", "blocked"}
  /\ purge' = [purge EXCEPT ![n] = "blocked"]
  /\ UNCHANGED <<gateway, feed, revision, blobs, object, derived, inserting, confirmed,
                 replaced, erased, leftover, txn, writes, failures>>

\* discoverPurgeDocuments: documents whose archived content names the notebook.
Discovered(n) == {d \in revision : NotebookOf[d] = n /\ erased[d] = "absent"}

StalePreview(n) ==
  /\ Turn(n, "queued") /\ n \notin confirmed
  /\ purge' = [purge EXCEPT ![n] = "blocked"]
  /\ UNCHANGED <<gateway, feed, revision, blobs, object, derived, inserting, confirmed,
                 replaced, erased, leftover, txn, writes, failures>>

\* The exclusive lock of the notebook waits for the inserts under way.
WritersDone(n) == n \notin inserting

\* The queued stage: from here on nothing of the notebook is admitted.
MarkPurged(n) ==
  /\ Turn(n, "queued") /\ n \in confirmed
  /\ WritersDone(n)
  /\ erased' = [d \in Item |-> IF d = n \/ d \in Discovered(n) THEN "pending" ELSE erased[d]]
  /\ derived' = derived \ {n}
  /\ purge' = [purge EXCEPT ![n] = "purging_native"]
  /\ UNCHANGED <<gateway, feed, revision, blobs, object, inserting, confirmed, replaced,
                 leftover, txn, writes, failures>>

Pending(n) == {d \in Item : NotebookOf[d] = n /\ erased[d] = "pending"}

\* The native stage takes at most BatchLimit pending documents, all if fewer.
TakePending(n) ==
  /\ Turn(n, "purging_native")
  /\ \E batch \in SUBSET (Pending(n) \cup Discovered(n)) :
       /\ Cardinality(batch) <= BatchLimit
       /\ Cardinality(batch) < BatchLimit => batch = Pending(n) \cup Discovered(n)
       /\ txn' = [kind |-> "tombstone", notebook |-> n, batch |-> batch, left |-> batch]
  /\ UNCHANGED <<gateway, feed, revision, blobs, object, derived, inserting, purge,
                 confirmed, replaced, erased, leftover, writes, failures>>

\* tombstoneDocument: every leaf is deleted; the gateway reports the change.
Tombstone(d) ==
  /\ txn.kind = "tombstone" /\ d \in txn.left
  /\ gateway' = [gateway EXCEPT ![d] = IF @ = "live" THEN "deleted" ELSE @]
  /\ feed' = IF gateway[d] = "live" THEN feed \cup {d} ELSE feed
  /\ txn' = [txn EXCEPT !.left = @ \ {d}]
  /\ UNCHANGED <<revision, blobs, object, derived, inserting, purge, confirmed, replaced,
                 erased, leftover, writes, failures>>

TombstoneCommit ==
  /\ txn.kind = "tombstone" /\ txn.left = {}
  /\ LET n == txn.notebook
         rest == (Pending(n) \cup Discovered(n)) \ txn.batch
     IN /\ erased' = [d \in Item |-> IF d \in txn.batch THEN "removed"
                                    ELSE IF d \in rest THEN "pending" ELSE erased[d]]
        /\ purge' = IF rest = {} THEN [purge EXCEPT ![n] = "purging_server"] ELSE purge
  /\ txn' = Free
  /\ UNCHANGED <<gateway, feed, revision, blobs, object, derived, inserting, confirmed,
                 replaced, leftover, writes, failures>>

Own(n) == {d \in Item : NotebookOf[d] = n /\ erased[d] # "absent"}

\* purgeServerRows: the rows go, the names of their objects are kept.
PurgeRows(n) ==
  /\ Turn(n, "purging_server")
  /\ leftover' = [leftover EXCEPT ![n] = @ \cup (revision \cap Own(n)) \cup blobs[n]]
  /\ revision' = revision \ Own(n)
  /\ blobs' = [blobs EXCEPT ![n] = {}]
  /\ derived' = derived \ {n}
  /\ purge' = [purge EXCEPT ![n] = "purging_objects"]
  /\ UNCHANGED <<gateway, feed, object, inserting, confirmed, replaced, erased, txn, writes, failures>>

TakeObjects(n) ==
  /\ Turn(n, "purging_objects")
  /\ txn' = [kind |-> "objects", notebook |-> n, left |-> leftover[n]]
  /\ UNCHANGED <<gateway, feed, revision, blobs, object, derived, inserting, purge,
                 confirmed, replaced, erased, leftover, writes, failures>>

\* Fault: only revisions are looked at.
UsedByRevision(k) == k \in revision

\* The content is recorded for another notebook, or archived again.
Used(k) == k \in revision \/ \E n \in Notebook : k \in blobs[n]

DeleteObject(k) ==
  /\ txn.kind = "objects" /\ k \in txn.left
  /\ object' = IF Used(k) THEN object ELSE object \ {k}
  /\ txn' = [txn EXCEPT !.left = @ \ {k}]
  /\ UNCHANGED <<gateway, feed, revision, blobs, derived, inserting, purge, confirmed,
                 replaced, erased, leftover, writes, failures>>

ObjectsCommit ==
  /\ txn.kind = "objects" /\ txn.left = {}
  /\ leftover' = [leftover EXCEPT ![txn.notebook] = {}]
  /\ purge' = [purge EXCEPT ![txn.notebook] =
                 IF Pending(txn.notebook) # {} THEN "purging_native" ELSE "complete"]
  /\ txn' = Free
  /\ UNCHANGED <<gateway, feed, revision, blobs, object, derived, inserting, confirmed,
                 replaced, erased, writes, failures>>

-----------------------------------------------------------------------------
PurgeStep(n) ==
  \/ BlockReplaced(n) \/ StalePreview(n) \/ MarkPurged(n) \/ TakePending(n)
  \/ PurgeRows(n) \/ TakeObjects(n)

Finish ==
  \/ PutCommit \/ ObserveCommit \/ TombstoneCommit \/ ObjectsCommit
  \/ \E d \in Item : Tombstone(d)
  \/ \E k \in Item \cup Body : DeleteObject(k)

Next ==
  \/ \E d \in Item : DeviceWrite(d)
  \/ \E n \in Notebook, b \in Body : PutObject(n, b)
  \/ \E n \in Notebook : DeleteAsset(n)
  \/ \E n \in Removable : InsertDerived(n) \/ CommitDerived(n) \/ RequestPurge(n) \/ PurgeStep(n)
  \/ ObservePage \/ Finish \/ Rollback \/ ReplaceLibrary

Spec == Init /\ [][Next]_pvars

-----------------------------------------------------------------------------
(* Properties.                                                              *)

\* Every recorded revision and asset has its object, although objects are
\* deleted outside the transaction that forgets them and contents are shared
\* between notebooks that come and go.
ObjectsHeld ==
  /\ revision \subseteq object
  /\ \A n \in Notebook : blobs[n] \subseteq object

\* What a purge erased stays erased: no writer that was under way, no feed page
\* and no late upload puts a row back.
StaysErased ==
  \A n \in Notebook : purge[n] \in {"purging_objects", "complete"} =>
    n \notin derived /\ blobs[n] = {} /\ \A d \in revision : NotebookOf[d] # n

\* A document of a purged notebook that is live on the gateway, left over or
\* brought back by a device at any moment, is not forgotten: its change is still
\* to be read, or it is pending and the operation is at, or on its way back to,
\* the stage that removes it.  Only a replaced library gives it up.
ReturnsTracked ==
  \A n \in Purged, d \in Item :
    NotebookOf[d] = n /\ gateway[d] = "live" /\ n \notin replaced =>
      \/ d \in feed \/ (txn.kind = "observe" /\ d \in txn.page)
      \/ /\ purge[n] \in {"purging_native", "purging_server", "purging_objects"}
         /\ d \in Pending(n)
=============================================================================
