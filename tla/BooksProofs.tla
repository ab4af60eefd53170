---------------------------- MODULE BooksProofs ----------------------------
(***************************************************************************)
(* Theorems of the permanent removal of notebooks, the import of books, the  *)
(* search index of books and what readers write about them: any notebooks,  *)
(* documents, batches, folders, books, annotations, workers, ops and pages, *)
(* any number of edits, lost answers and failures.                          *)
(***************************************************************************)
EXTENDS BooksParts, Naturals, TLAPS, FiniteSetTheorems, SequenceTheorems, WellFoundedInduction

-----------------------------------------------------------------------------
(* The permanent removal of notebooks.                                      *)
\* Transactions that hold the native write lock, with what they know.
Txn ==
  {Purge!Free}
  \cup [kind : {"put"}, notebook : Notebook, body : Body]
  \cup [kind : {"observe"}, page : SUBSET Purge!Item, live : SUBSET Purge!Item]
  \cup [kind : {"tombstone"}, notebook : Notebook, batch : SUBSET Purge!Item, left : SUBSET Purge!Item]
  \cup [kind : {"objects"}, notebook : Notebook, left : SUBSET (Purge!Item \cup Body)]

Marked(n) == erased[n] # "absent"

\* A document is known to be erased only with its notebook.
MarkedInv == \A d \in Purge!Item : erased[d] # "absent" => Marked(NotebookOf[d])

\* An operation past its queued stage has a marked notebook; it stops only for a
\* replaced library.
StageInv ==
  \A n \in Notebook :
    IF Marked(n)
    THEN \/ purge[n] \in {"purging_native", "purging_server", "purging_objects", "complete"}
         \/ purge[n] = "blocked" /\ n \in replaced
    ELSE purge[n] \in {"none", "queued", "blocked"}

\* Nothing of a marked notebook is derived, being derived, or archived unknown.
ErasedInv ==
  \A n \in Notebook : Marked(n) =>
    /\ n \notin derived /\ n \notin inserting
    /\ \A d \in revision : NotebookOf[d] = n => erased[d] # "absent"

\* What an open transaction counts on.
TxnInv ==
  /\ txn.kind = "put" => txn.body \in object /\ ~Marked(txn.notebook)
  /\ txn.kind = "observe" =>
       /\ txn.live \subseteq txn.page
       /\ \A d \in txn.live : Purge!Suppressed(d, txn.live) \/ d \in object
       /\ \A d \in txn.page : gateway[d] = "live" => d \in txn.live \/ d \in feed
  /\ txn.kind = "tombstone" =>
       /\ purge[txn.notebook] = "purging_native"
       /\ txn.left \subseteq txn.batch
       /\ \A d \in txn.batch : NotebookOf[d] = txn.notebook
       /\ \A d \in txn.batch : d \in txn.left \/ gateway[d] # "live" \/ d \in feed
  /\ txn.kind = "objects" => purge[txn.notebook] = "purging_objects"

\* A live document the feed has passed is archived or erased.
ObservedInv ==
  \A d \in Purge!Item : gateway[d] = "live" =>
    \/ d \in feed \/ (txn.kind = "observe" /\ d \in txn.page)
    \/ d \in revision \/ erased[d] # "absent"

PInv ==
  /\ PurgeSound /\ txn \in Txn
  /\ MarkedInv /\ StageInv /\ ErasedInv /\ TxnInv /\ ObservedInv

\* What the types say of an open transaction.
LEMMA TxnFacts ==
  ASSUME txn \in Txn
  PROVE  /\ txn = Purge!Free <=> txn.kind = "none"
         /\ txn.kind = "put" => txn.notebook \in Notebook /\ txn.body \in Body
         /\ txn.kind = "observe" => txn.page \subseteq Purge!Item /\ txn.live \subseteq Purge!Item
         /\ txn.kind = "tombstone" =>
              /\ txn \in [kind : {"tombstone"}, notebook : Notebook, batch : SUBSET Purge!Item, left : SUBSET Purge!Item]
              /\ txn.notebook \in Notebook /\ txn.batch \subseteq Purge!Item /\ txn.left \subseteq Purge!Item
         /\ txn.kind = "objects" =>
              /\ txn \in [kind : {"objects"}, notebook : Notebook, left : SUBSET (Purge!Item \cup Body)]
              /\ txn.notebook \in Notebook /\ txn.left \subseteq Purge!Item \cup Body
BY DEF Txn, Purge!Free

\* The initial states satisfy the invariant.
LEMMA PurgeInit ==
  ASSUME Purge!PurgeAssumption, Purge!Init
  PROVE  PInv
<1> USE DEF Purge!PurgeAssumption, Purge!Init, Purge!Free
<1>1. Purge!TypeOK /\ txn \in Txn
  BY DEF Purge!TypeOK, Purge!PurgeStates, Txn, Purge!Item
<1>2. Purge!ObjectsHeld /\ Purge!StaysErased /\ Purge!ReturnsTracked
  BY DEF Purge!ObjectsHeld, Purge!StaysErased, Purge!ReturnsTracked, Purge!Purged, Purge!Item
<1>3. MarkedInv /\ StageInv /\ ErasedInv /\ TxnInv /\ ObservedInv
  BY DEF MarkedInv, StageInv, ErasedInv, TxnInv, ObservedInv, Marked, Purge!Item
<1> QED
  BY <1>1, <1>2, <1>3 DEF PInv, PurgeSound

\* A device writes a document, which the feed then holds.
LEMMA DeviceWriteInv ==
  ASSUME Purge!PurgeAssumption, PInv, NEW d \in Purge!Item, Purge!DeviceWrite(d)
  PROVE  PInv'
<1>1. Purge!TypeOK'
  BY DEF PInv, PurgeSound, Purge!DeviceWrite, Purge!TypeOK, Purge!PurgeAssumption
<1>2. (txn \in Txn)'
  BY DEF PInv, Purge!DeviceWrite
<1>3. MarkedInv'
  BY DEF PInv, Purge!DeviceWrite, MarkedInv, Marked
<1>4. StageInv'
  BY DEF PInv, Purge!DeviceWrite, StageInv, Marked
<1>5. ErasedInv'
  BY DEF PInv, Purge!DeviceWrite, ErasedInv, Marked
<1>6. TxnInv'
  BY DEF PInv, Purge!DeviceWrite, TxnInv, Purge!Purged, Purge!Suppressed, Marked
<1>7. ObservedInv'
  BY DEF PInv, Purge!DeviceWrite, ObservedInv
<1>8. Purge!ObjectsHeld'
  BY DEF PInv, PurgeSound, Purge!DeviceWrite, Purge!ObjectsHeld
<1>9. Purge!StaysErased'
  BY DEF PInv, PurgeSound, Purge!DeviceWrite, Purge!StaysErased
<1>10. Purge!ReturnsTracked'
  BY DEF PInv, PurgeSound, Purge!DeviceWrite, Purge!ReturnsTracked, Purge!Purged,
    Purge!Pending
<1> QED
  BY <1>1, <1>2, <1>3, <1>4, <1>5, <1>6, <1>7, <1>8, <1>9, <1>10 DEF PInv, PurgeSound

\* An upload checks the marks under the lock and writes its object.
LEMMA PutObjectInv ==
  ASSUME Purge!PurgeAssumption, PInv, NEW n \in Notebook, NEW b \in Body, Purge!PutObject(n, b)
  PROVE  PInv'
<1>1. Purge!TypeOK'
  BY DEF PInv, PurgeSound, Purge!PutObject, Purge!TypeOK
<1>2. (txn \in Txn)'
  BY DEF Purge!PutObject, Txn
<1>3. MarkedInv'
  BY DEF PInv, Purge!PutObject, MarkedInv, Marked
<1>4. StageInv'
  BY DEF PInv, Purge!PutObject, StageInv, Marked
<1>5. ErasedInv'
  BY DEF PInv, Purge!PutObject, ErasedInv, Marked
<1>6. TxnInv'
  BY DEF Purge!PutObject, TxnInv, Marked, Purge!Purged
<1>7. ObservedInv'
  BY TxnFacts DEF PInv, Purge!PutObject, ObservedInv, Purge!Unlocked
<1>8. Purge!ObjectsHeld'
  BY DEF PInv, PurgeSound, Purge!PutObject, Purge!ObjectsHeld
<1>9. Purge!StaysErased'
  BY DEF PInv, PurgeSound, Purge!PutObject, Purge!StaysErased
<1>10. Purge!ReturnsTracked'
  BY TxnFacts DEF PInv, PurgeSound, Purge!PutObject, Purge!ReturnsTracked,
    Purge!Unlocked, Purge!Purged, Purge!Pending
<1> QED
  BY <1>1, <1>2, <1>3, <1>4, <1>5, <1>6, <1>7, <1>8, <1>9, <1>10 DEF PInv, PurgeSound

\* The row of an upload goes in under the lock it checked the marks in.
LEMMA PutCommitInv ==
  ASSUME Purge!PurgeAssumption, PInv, Purge!PutCommit
  PROVE  PInv'
<1>1. Purge!TypeOK'
  BY TxnFacts DEF PInv, PurgeSound, Purge!PutCommit, Purge!TypeOK, Purge!Free
<1>2. (txn \in Txn)'
  BY DEF Purge!PutCommit, Txn
<1>3. MarkedInv'
  BY DEF PInv, Purge!PutCommit, MarkedInv, Marked
<1>4. StageInv'
  BY DEF PInv, Purge!PutCommit, StageInv, Marked
<1>5. ErasedInv'
  BY DEF PInv, Purge!PutCommit, ErasedInv, Marked
<1>6. TxnInv'
  BY DEF Purge!PutCommit, TxnInv, Purge!Free
<1>7. ObservedInv'
  BY DEF PInv, Purge!PutCommit, ObservedInv
<1>8. Purge!ObjectsHeld'
  BY DEF PInv, PurgeSound, Purge!PutCommit, Purge!ObjectsHeld, TxnInv
<1>9. Purge!StaysErased'
  BY DEF PInv, PurgeSound, Purge!PutCommit, Purge!StaysErased, StageInv, TxnInv
<1>10. Purge!ReturnsTracked'
  BY DEF PInv, PurgeSound, Purge!PutCommit, Purge!ReturnsTracked, Purge!Purged,
    Purge!Pending
<1> QED
  BY <1>1, <1>2, <1>3, <1>4, <1>5, <1>6, <1>7, <1>8, <1>9, <1>10 DEF PInv, PurgeSound

\* An asset is dropped; its object stays.
LEMMA DeleteAssetInv ==
  ASSUME Purge!PurgeAssumption, PInv, NEW n \in Notebook, Purge!DeleteAsset(n)
  PROVE  PInv'
<1>1. Purge!TypeOK'
  BY DEF PInv, PurgeSound, Purge!DeleteAsset, Purge!TypeOK
<1>2. (txn \in Txn)'
  BY DEF PInv, Purge!DeleteAsset
<1>3. MarkedInv'
  BY DEF PInv, Purge!DeleteAsset, MarkedInv, Marked
<1>4. StageInv'
  BY DEF PInv, Purge!DeleteAsset, StageInv, Marked
<1>5. ErasedInv'
  BY DEF PInv, Purge!DeleteAsset, ErasedInv, Marked
<1>6. TxnInv'
  BY TxnFacts DEF PInv, Purge!DeleteAsset, TxnInv, Purge!Unlocked
<1>7. ObservedInv'
  BY DEF PInv, Purge!DeleteAsset, ObservedInv
<1>8. Purge!ObjectsHeld'
  BY DEF PInv, PurgeSound, Purge!DeleteAsset, Purge!ObjectsHeld
<1>9. Purge!StaysErased'
  BY DEF PInv, PurgeSound, Purge!DeleteAsset, Purge!StaysErased
<1>10. Purge!ReturnsTracked'
  BY DEF PInv, PurgeSound, Purge!DeleteAsset, Purge!ReturnsTracked, Purge!Purged,
    Purge!Pending
<1> QED
  BY <1>1, <1>2, <1>3, <1>4, <1>5, <1>6, <1>7, <1>8, <1>9, <1>10 DEF PInv, PurgeSound

\* A transaction that fails leaves what it did outside the database.
LEMMA RollbackInv ==
  ASSUME Purge!PurgeAssumption, PInv, Purge!Rollback
  PROVE  PInv'
<1>1. Purge!TypeOK'
  BY TxnFacts DEF PInv, PurgeSound, Purge!PurgeAssumption, Purge!Rollback, Purge!TypeOK,
    Purge!Free
<1>2. (txn \in Txn)'
  BY DEF Purge!Rollback, Txn
<1>3. MarkedInv'
  BY DEF PInv, Purge!Rollback, MarkedInv, Marked
<1>4. StageInv'
  BY DEF PInv, Purge!Rollback, StageInv, Marked
<1>5. ErasedInv'
  BY DEF PInv, Purge!Rollback, ErasedInv, Marked
<1>6. TxnInv'
  BY DEF Purge!Rollback, TxnInv, Purge!Item, Purge!Reopened, Purge!PurgeStates,
    Purge!Free
<1>7. ObservedInv'
  BY DEF PInv, Purge!Rollback, ObservedInv
<1>8. Purge!ObjectsHeld'
  BY DEF PInv, PurgeSound, Purge!Rollback, Purge!ObjectsHeld
<1>9. Purge!StaysErased'
  BY DEF PInv, PurgeSound, Purge!Rollback, Purge!StaysErased
<1>10. Purge!ReturnsTracked'
  BY DEF PInv, PurgeSound, Purge!Rollback, Purge!ReturnsTracked, Purge!PurgeAssumption,
    Purge!TypeOK, Purge!Item, Marked, Purge!Purged, Purge!Pending
<1> QED
  BY <1>1, <1>2, <1>3, <1>4, <1>5, <1>6, <1>7, <1>8, <1>9, <1>10 DEF PInv, PurgeSound

\* A derived row is begun only for a notebook without a mark.
LEMMA InsertDerivedInv ==
  ASSUME Purge!PurgeAssumption, PInv, NEW n \in Removable, Purge!InsertDerived(n)
  PROVE  PInv'
<1>1. Purge!TypeOK'
  BY DEF PInv, PurgeSound, Purge!InsertDerived, Purge!TypeOK, Purge!PurgeAssumption
<1>2. (txn \in Txn)'
  BY DEF PInv, Purge!InsertDerived
<1>3. MarkedInv'
  BY DEF PInv, Purge!InsertDerived, MarkedInv, Marked
<1>4. StageInv'
  BY DEF PInv, Purge!InsertDerived, StageInv, Marked
<1>5. ErasedInv'
  BY DEF PInv, Purge!InsertDerived, ErasedInv, Marked, Purge!Purged
<1>6. TxnInv'
  BY DEF PInv, Purge!InsertDerived, TxnInv, Purge!Purged, Purge!Suppressed, Marked
<1>7. ObservedInv'
  BY DEF PInv, Purge!InsertDerived, ObservedInv
<1>8. Purge!ObjectsHeld'
  BY DEF PInv, PurgeSound, Purge!InsertDerived, Purge!ObjectsHeld
<1>9. Purge!StaysErased'
  BY DEF PInv, PurgeSound, Purge!InsertDerived, Purge!StaysErased
<1>10. Purge!ReturnsTracked'
  BY DEF PInv, PurgeSound, Purge!InsertDerived, Purge!ReturnsTracked, Purge!Purged,
    Purge!Pending
<1> QED
  BY <1>1, <1>2, <1>3, <1>4, <1>5, <1>6, <1>7, <1>8, <1>9, <1>10 DEF PInv, PurgeSound

\* A derived row whose insert began before the mark: the mark waits for it.
LEMMA CommitDerivedInv ==
  ASSUME Purge!PurgeAssumption, PInv, NEW n \in Removable, Purge!CommitDerived(n)
  PROVE  PInv'
<1>1. Purge!TypeOK'
  BY DEF PInv, PurgeSound, Purge!CommitDerived, Purge!TypeOK
<1>2. (txn \in Txn)'
  BY DEF PInv, Purge!CommitDerived
<1>3. MarkedInv'
  BY DEF PInv, Purge!CommitDerived, MarkedInv, Marked
<1>4. StageInv'
  BY DEF PInv, Purge!CommitDerived, StageInv, Marked
<1>5. ErasedInv'
  BY DEF PInv, Purge!CommitDerived, ErasedInv, Marked
<1>6. TxnInv'
  BY DEF PInv, Purge!CommitDerived, TxnInv, Purge!Purged, Purge!Suppressed, Marked
<1>7. ObservedInv'
  BY DEF PInv, Purge!CommitDerived, ObservedInv
<1>8. Purge!ObjectsHeld'
  BY DEF PInv, PurgeSound, Purge!CommitDerived, Purge!ObjectsHeld
<1>9. Purge!StaysErased'
  BY DEF PInv, PurgeSound, Purge!CommitDerived, Purge!StaysErased, StageInv, ErasedInv
<1>10. Purge!ReturnsTracked'
  BY DEF PInv, PurgeSound, Purge!CommitDerived, Purge!ReturnsTracked, Purge!Purged,
    Purge!Pending
<1> QED
  BY <1>1, <1>2, <1>3, <1>4, <1>5, <1>6, <1>7, <1>8, <1>9, <1>10 DEF PInv, PurgeSound

\* A feed page is read, and the objects of its live documents are written.
LEMMA ObservePageInv ==
  ASSUME Purge!PurgeAssumption, PInv, Purge!ObservePage
  PROVE  PInv'
<1>1. Purge!TypeOK'
  BY DEF PInv, PurgeSound, Purge!ObservePage, Purge!TypeOK
<1>2. (txn \in Txn)'
  BY DEF PInv, PurgeSound, Purge!ObservePage, Txn, Purge!TypeOK
<1>3. MarkedInv'
  BY DEF PInv, Purge!ObservePage, MarkedInv, Marked
<1>4. StageInv'
  BY DEF PInv, Purge!ObservePage, StageInv, Marked
<1>5. ErasedInv'
  BY DEF PInv, Purge!ObservePage, ErasedInv, Marked
<1>6. TxnInv'
  BY DEF Purge!ObservePage, TxnInv, Purge!Purged, Purge!Suppressed
<1>7. ObservedInv'
  BY TxnFacts DEF PInv, Purge!ObservePage, ObservedInv, Purge!Unlocked
<1>8. Purge!ObjectsHeld'
  BY DEF PInv, PurgeSound, Purge!ObservePage, Purge!ObjectsHeld
<1>9. Purge!StaysErased'
  BY DEF PInv, PurgeSound, Purge!ObservePage, Purge!StaysErased
<1>10. Purge!ReturnsTracked'
  BY TxnFacts DEF PInv, PurgeSound, Purge!ObservePage, Purge!ReturnsTracked,
    Purge!Unlocked, Purge!Purged, Purge!Pending
<1> QED
  BY <1>1, <1>2, <1>3, <1>4, <1>5, <1>6, <1>7, <1>8, <1>9, <1>10 DEF PInv, PurgeSound

\* The page is archived, and documents of marked notebooks become pending.
LEMMA ObserveCommitInv ==
  ASSUME Purge!PurgeAssumption, PInv, Purge!ObserveCommit
  PROVE  PInv'
<1>1. Purge!TypeOK'
  BY TxnFacts DEF PInv, PurgeSound, Purge!ObserveCommit, Purge!TypeOK,
    Purge!PurgeStates, Purge!Free, Purge!Reopened
<1>2. (txn \in Txn)'
  BY DEF Purge!ObserveCommit, Txn
<1>3. MarkedInv'
  BY DEF PInv, Purge!PurgeAssumption, Purge!ObserveCommit, MarkedInv, Purge!Item,
    Purge!Purged, Purge!Suppressed, Marked
<1>4. StageInv'
  BY DEF PInv, Purge!PurgeAssumption, Purge!ObserveCommit, StageInv, Purge!Item,
    Purge!Purged, Purge!Suppressed, Purge!Reopened, Marked
<1>5. ErasedInv'
  BY DEF PInv, PurgeSound, Purge!PurgeAssumption, Purge!ObserveCommit, Purge!TypeOK,
    ErasedInv, TxnInv, Purge!Item, Purge!Purged, Purge!Suppressed, Marked
<1>6. TxnInv'
  BY DEF Purge!ObserveCommit, TxnInv, Purge!Free
<1>7. ObservedInv'
  BY DEF PInv, Purge!ObserveCommit, TxnInv, ObservedInv
<1>8. Purge!ObjectsHeld'
  BY DEF PInv, PurgeSound, Purge!ObserveCommit, Purge!ObjectsHeld, TxnInv
<1>9. Purge!StaysErased'
  BY DEF PInv, PurgeSound, Purge!ObserveCommit, Purge!StaysErased, StageInv, TxnInv,
    Purge!Purged, Purge!Suppressed, Purge!Reopened, Marked
<1>10. Purge!ReturnsTracked'
  BY DEF PInv, PurgeSound, Purge!PurgeAssumption, Purge!ObserveCommit,
    Purge!ReturnsTracked, MarkedInv, StageInv, TxnInv, Purge!Item, Purge!Purged,
    Purge!Pending, Purge!Suppressed, Purge!Reopened
<1> QED
  BY <1>1, <1>2, <1>3, <1>4, <1>5, <1>6, <1>7, <1>8, <1>9, <1>10 DEF PInv, PurgeSound

\* A purge is requested for a notebook in the trash.
LEMMA RequestPurgeInv ==
  ASSUME Purge!PurgeAssumption, PInv, NEW n \in Removable, Purge!RequestPurge(n)
  PROVE  PInv'
<1>1. Purge!TypeOK'
  BY DEF PInv, PurgeSound, Purge!PurgeAssumption, Purge!RequestPurge, Purge!TypeOK,
    Purge!PurgeStates
<1>2. (txn \in Txn)'
  BY DEF PInv, Purge!RequestPurge
<1>3. MarkedInv'
  BY DEF PInv, Purge!RequestPurge, MarkedInv, Marked
<1>4. StageInv'
  BY DEF PInv, Purge!RequestPurge, StageInv, Marked, Purge!Purged
<1>5. ErasedInv'
  BY DEF PInv, Purge!RequestPurge, ErasedInv, Marked
<1>6. TxnInv'
  BY TxnFacts DEF PInv, Purge!RequestPurge, TxnInv, Purge!Unlocked
<1>7. ObservedInv'
  BY DEF PInv, Purge!RequestPurge, ObservedInv
<1>8. Purge!ObjectsHeld'
  BY DEF PInv, PurgeSound, Purge!RequestPurge, Purge!ObjectsHeld
<1>9. Purge!StaysErased'
  BY DEF PInv, PurgeSound, Purge!RequestPurge, Purge!StaysErased
<1>10. Purge!ReturnsTracked'
  BY DEF PInv, PurgeSound, Purge!RequestPurge, Purge!ReturnsTracked, Purge!Purged,
    Purge!Pending
<1> QED
  BY <1>1, <1>2, <1>3, <1>4, <1>5, <1>6, <1>7, <1>8, <1>9, <1>10 DEF PInv, PurgeSound

\* The library is replaced by another generation.
LEMMA ReplaceLibraryInv ==
  ASSUME Purge!PurgeAssumption, PInv, Purge!ReplaceLibrary
  PROVE  PInv'
<1>1. Purge!TypeOK'
  BY DEF PInv, PurgeSound, Purge!ReplaceLibrary, Purge!TypeOK
<1>2. (txn \in Txn)'
  BY DEF PInv, Purge!ReplaceLibrary
<1>3. MarkedInv'
  BY DEF PInv, Purge!ReplaceLibrary, MarkedInv, Marked
<1>4. StageInv'
  BY DEF PInv, Purge!ReplaceLibrary, StageInv, Marked
<1>5. ErasedInv'
  BY DEF PInv, Purge!ReplaceLibrary, ErasedInv, Marked
<1>6. TxnInv'
  BY DEF PInv, Purge!ReplaceLibrary, TxnInv, Purge!Suppressed, Purge!Purged, Marked
<1>7. ObservedInv'
  BY DEF PInv, Purge!ReplaceLibrary, ObservedInv
<1>8. Purge!ObjectsHeld'
  BY DEF PInv, PurgeSound, Purge!ReplaceLibrary, Purge!ObjectsHeld
<1>9. Purge!StaysErased'
  BY DEF PInv, PurgeSound, Purge!ReplaceLibrary, Purge!StaysErased
<1>10. Purge!ReturnsTracked'
  BY DEF PInv, Purge!ReplaceLibrary, Purge!ReturnsTracked, Purge!Purged, Marked,
    StageInv
<1> QED
  BY <1>1, <1>2, <1>3, <1>4, <1>5, <1>6, <1>7, <1>8, <1>9, <1>10 DEF PInv, PurgeSound

\* An operation of another generation stops.
LEMMA BlockReplacedInv ==
  ASSUME Purge!PurgeAssumption, PInv, NEW n \in Removable, Purge!BlockReplaced(n)
  PROVE  PInv'
<1>1. Purge!TypeOK'
  BY DEF PInv, PurgeSound, Purge!BlockReplaced, Purge!TypeOK, Purge!PurgeStates
<1>2. (txn \in Txn)'
  BY DEF PInv, Purge!BlockReplaced
<1>3. MarkedInv'
  BY DEF PInv, Purge!BlockReplaced, MarkedInv, Marked
<1>4. StageInv'
  BY DEF PInv, Purge!BlockReplaced, StageInv, Marked
<1>5. ErasedInv'
  BY DEF PInv, Purge!BlockReplaced, ErasedInv, Marked
<1>6. TxnInv'
  BY TxnFacts DEF PInv, Purge!BlockReplaced, TxnInv, Purge!Unlocked
<1>7. ObservedInv'
  BY DEF PInv, Purge!BlockReplaced, ObservedInv
<1>8. Purge!ObjectsHeld'
  BY DEF PInv, PurgeSound, Purge!BlockReplaced, Purge!ObjectsHeld
<1>9. Purge!StaysErased'
  BY DEF PInv, PurgeSound, Purge!BlockReplaced, Purge!StaysErased
<1>10. Purge!ReturnsTracked'
  BY DEF PInv, PurgeSound, Purge!BlockReplaced, Purge!ReturnsTracked, Purge!Purged,
    Purge!Pending
<1> QED
  BY <1>1, <1>2, <1>3, <1>4, <1>5, <1>6, <1>7, <1>8, <1>9, <1>10 DEF PInv, PurgeSound

\* An operation whose preview is out of date stops.
LEMMA StalePreviewInv ==
  ASSUME Purge!PurgeAssumption, PInv, NEW n \in Removable, Purge!StalePreview(n)
  PROVE  PInv'
<1>1. Purge!TypeOK'
  BY DEF PInv, PurgeSound, Purge!StalePreview, Purge!TypeOK, Purge!PurgeStates
<1>2. (txn \in Txn)'
  BY DEF PInv, Purge!StalePreview
<1>3. MarkedInv'
  BY DEF PInv, Purge!StalePreview, MarkedInv, Marked
<1>4. StageInv'
  BY DEF PInv, Purge!StalePreview, StageInv, Purge!Turn, Marked
<1>5. ErasedInv'
  BY DEF PInv, Purge!StalePreview, ErasedInv, Marked
<1>6. TxnInv'
  BY DEF PInv, Purge!StalePreview, TxnInv, Purge!Turn, Purge!Suppressed, Purge!Purged,
    Marked
<1>7. ObservedInv'
  BY DEF PInv, Purge!StalePreview, ObservedInv
<1>8. Purge!ObjectsHeld'
  BY DEF PInv, PurgeSound, Purge!StalePreview, Purge!ObjectsHeld
<1>9. Purge!StaysErased'
  BY DEF PInv, PurgeSound, Purge!StalePreview, Purge!StaysErased
<1>10. Purge!ReturnsTracked'
  BY DEF PInv, PurgeSound, Purge!StalePreview, Purge!ReturnsTracked, Purge!Turn,
    Purge!Purged, Purge!Pending
<1> QED
  BY <1>1, <1>2, <1>3, <1>4, <1>5, <1>6, <1>7, <1>8, <1>9, <1>10 DEF PInv, PurgeSound

\* The mark: from here on nothing of the notebook is admitted.
LEMMA MarkPurgedInv ==
  ASSUME Purge!PurgeAssumption, PInv, NEW n \in Removable, Purge!MarkPurged(n)
  PROVE  PInv'
<1>1. Purge!TypeOK'
  BY DEF PInv, PurgeSound, Purge!MarkPurged, Purge!TypeOK, Purge!PurgeStates
<1>2. (txn \in Txn)'
  BY DEF PInv, Purge!MarkPurged
<1>3. MarkedInv'
  BY DEF PInv, Purge!MarkPurged, MarkedInv, Purge!Discovered, Marked,
    Purge!PurgeAssumption, Purge!Item
<1>4. StageInv'
  BY DEF PInv, Purge!MarkPurged, StageInv, Purge!Discovered, Marked,
    Purge!PurgeAssumption, PurgeSound, Purge!TypeOK, Purge!Item
<1>5. ErasedInv'
  BY DEF PInv, Purge!MarkPurged, ErasedInv, Purge!WritersDone, Purge!Discovered, Marked,
    Purge!PurgeAssumption, PurgeSound, Purge!TypeOK, Purge!Item
<1>6. TxnInv'
  BY TxnFacts DEF PInv, Purge!MarkPurged, TxnInv, Purge!Turn, Purge!Unlocked
<1>7. ObservedInv'
  BY DEF PInv, Purge!MarkPurged, ObservedInv
<1>8. Purge!ObjectsHeld'
  BY DEF PInv, PurgeSound, Purge!MarkPurged, Purge!ObjectsHeld
<1>9. Purge!StaysErased'
  BY DEF PInv, PurgeSound, Purge!MarkPurged, Purge!StaysErased
<1>10. Purge!ReturnsTracked'
  BY DEF PInv, PurgeSound, Purge!MarkPurged, Purge!ReturnsTracked, Purge!Discovered,
    Purge!Purged, Purge!Pending, Marked, MarkedInv, ObservedInv, Purge!PurgeAssumption,
    Purge!TypeOK, Purge!Item
<1> QED
  BY <1>1, <1>2, <1>3, <1>4, <1>5, <1>6, <1>7, <1>8, <1>9, <1>10 DEF PInv, PurgeSound

\* A tombstone pass takes a batch of pending documents.
LEMMA TakePendingInv ==
  ASSUME Purge!PurgeAssumption, PInv, NEW n \in Removable, Purge!TakePending(n)
  PROVE  PInv'
<1>1. Purge!TypeOK'
  BY DEF PInv, PurgeSound, Purge!TakePending, Purge!TypeOK
<1>2. (txn \in Txn)'
  BY DEF PInv, Purge!TakePending, Txn, Purge!Pending, Purge!Discovered,
    Purge!PurgeAssumption, PurgeSound, Purge!TypeOK
<1>3. MarkedInv'
  BY DEF PInv, Purge!TakePending, MarkedInv, Marked
<1>4. StageInv'
  BY DEF PInv, Purge!TakePending, StageInv, Marked
<1>5. ErasedInv'
  BY DEF PInv, Purge!TakePending, ErasedInv, Marked
<1>6. TxnInv'
  BY DEF Purge!TakePending, TxnInv, Purge!Turn, Purge!Pending, Purge!Discovered
<1>7. ObservedInv'
  BY TxnFacts DEF PInv, Purge!TakePending, ObservedInv, Purge!Turn, Purge!Unlocked
<1>8. Purge!ObjectsHeld'
  BY DEF PInv, PurgeSound, Purge!TakePending, Purge!ObjectsHeld
<1>9. Purge!StaysErased'
  BY DEF PInv, PurgeSound, Purge!TakePending, Purge!StaysErased
<1>10. Purge!ReturnsTracked'
  BY TxnFacts DEF PInv, PurgeSound, Purge!TakePending, Purge!ReturnsTracked, Purge!Turn,
    Purge!Pending, Purge!Unlocked, Purge!Purged
<1> QED
  BY <1>1, <1>2, <1>3, <1>4, <1>5, <1>6, <1>7, <1>8, <1>9, <1>10 DEF PInv, PurgeSound

\* A document is deleted on the gateway, and its change is heard of.
LEMMA TombstoneInv ==
  ASSUME Purge!PurgeAssumption, PInv, NEW d \in Purge!Item, Purge!Tombstone(d)
  PROVE  PInv'
<1>1. Purge!TypeOK'
  BY DEF PInv, PurgeSound, Purge!Tombstone, Purge!TypeOK
<1>2. (txn \in Txn)'
  BY TxnFacts DEF PInv, Purge!Tombstone, Txn
<1>3. MarkedInv'
  BY DEF PInv, Purge!Tombstone, MarkedInv, Marked
<1>4. StageInv'
  BY DEF PInv, Purge!Tombstone, StageInv, Marked
<1>5. ErasedInv'
  BY DEF PInv, Purge!Tombstone, ErasedInv, Marked
<1>6. TxnInv'
  BY DEF PInv, Purge!Tombstone, TxnInv
<1>7. ObservedInv'
  BY DEF PInv, Purge!Tombstone, ObservedInv
<1>8. Purge!ObjectsHeld'
  BY DEF PInv, PurgeSound, Purge!Tombstone, Purge!ObjectsHeld
<1>9. Purge!StaysErased'
  BY DEF PInv, PurgeSound, Purge!Tombstone, Purge!StaysErased
<1>10. Purge!ReturnsTracked'
  BY DEF PInv, PurgeSound, Purge!Tombstone, Purge!ReturnsTracked, Purge!Purged,
    Purge!Pending
<1> QED
  BY <1>1, <1>2, <1>3, <1>4, <1>5, <1>6, <1>7, <1>8, <1>9, <1>10 DEF PInv, PurgeSound

\* The pass ends: its batch is removed, documents found meanwhile are pending.
LEMMA TombstoneCommitInv ==
  ASSUME Purge!PurgeAssumption, PInv, Purge!TombstoneCommit
  PROVE  PInv'
<1>1. Purge!TypeOK'
  BY DEF PInv, PurgeSound, Purge!TombstoneCommit, Purge!TypeOK, Purge!PurgeStates,
    Purge!Free
<1>2. (txn \in Txn)'
  BY DEF Purge!TombstoneCommit, Txn
<1>3. MarkedInv'
  BY DEF PInv, Purge!TombstoneCommit, MarkedInv, Purge!Pending, Purge!Discovered,
    Marked, StageInv, TxnInv, Purge!PurgeAssumption, Purge!Item
<1>4. StageInv'
  BY DEF PInv, Purge!TombstoneCommit, StageInv, Purge!Pending, Purge!Discovered, Marked,
    TxnInv, Purge!PurgeAssumption, Purge!Item
<1>5. ErasedInv'
  BY DEF PInv, Purge!TombstoneCommit, ErasedInv, Purge!Pending, Purge!Discovered,
    Marked, StageInv, TxnInv, Purge!PurgeAssumption, PurgeSound, Purge!TypeOK,
    Purge!Item
<1>6. TxnInv'
  BY DEF Purge!TombstoneCommit, TxnInv, Purge!Free
<1>7. ObservedInv'
  BY DEF PInv, Purge!TombstoneCommit, ObservedInv
<1>8. Purge!ObjectsHeld'
  BY DEF PInv, PurgeSound, Purge!TombstoneCommit, Purge!ObjectsHeld
<1>9. Purge!StaysErased'
  BY DEF PInv, PurgeSound, Purge!TombstoneCommit, Purge!StaysErased
<1>10. Purge!ReturnsTracked'
  BY DEF PInv, PurgeSound, Purge!TombstoneCommit, Purge!ReturnsTracked, Purge!Pending,
    Purge!Discovered, Purge!Purged, Marked, MarkedInv, TxnInv, ObservedInv,
    Purge!PurgeAssumption, Purge!Item
<1> QED
  BY <1>1, <1>2, <1>3, <1>4, <1>5, <1>6, <1>7, <1>8, <1>9, <1>10 DEF PInv, PurgeSound

\* The server's rows go, and the names of their objects are kept.
LEMMA PurgeRowsInv ==
  ASSUME Purge!PurgeAssumption, PInv, NEW n \in Removable, Purge!PurgeRows(n)
  PROVE  PInv'
<1>1. Purge!TypeOK'
  BY DEF PInv, PurgeSound, Purge!PurgeRows, Purge!TypeOK, Purge!PurgeStates
<1>2. (txn \in Txn)'
  BY DEF PInv, Purge!PurgeRows
<1>3. MarkedInv'
  BY DEF PInv, Purge!PurgeRows, MarkedInv, Marked
<1>4. StageInv'
  BY DEF PInv, Purge!PurgeRows, StageInv, Purge!Turn, Marked
<1>5. ErasedInv'
  BY DEF PInv, Purge!PurgeRows, ErasedInv, Marked
<1>6. TxnInv'
  BY DEF PInv, Purge!PurgeRows, TxnInv, Purge!Turn, Purge!Suppressed, Purge!Purged,
    Marked
<1>7. ObservedInv'
  BY DEF PInv, Purge!PurgeRows, ObservedInv, Purge!Own
<1>8. Purge!ObjectsHeld'
  BY DEF PInv, PurgeSound, Purge!PurgeRows, Purge!ObjectsHeld
<1>9. Purge!StaysErased'
  BY DEF PInv, PurgeSound, Purge!PurgeRows, Purge!StaysErased, Purge!Turn, Purge!Own,
    StageInv, ErasedInv, Purge!TypeOK
<1>10. Purge!ReturnsTracked'
  BY DEF PInv, PurgeSound, Purge!PurgeRows, Purge!ReturnsTracked, Purge!Purged,
    Purge!Pending
<1> QED
  BY <1>1, <1>2, <1>3, <1>4, <1>5, <1>6, <1>7, <1>8, <1>9, <1>10 DEF PInv, PurgeSound

\* The objects of the notebook are taken.
LEMMA TakeObjectsInv ==
  ASSUME Purge!PurgeAssumption, PInv, NEW n \in Removable, Purge!TakeObjects(n)
  PROVE  PInv'
<1>1. Purge!TypeOK'
  BY DEF PInv, PurgeSound, Purge!TakeObjects, Purge!TypeOK
<1>2. (txn \in Txn)'
  BY DEF PInv, Purge!TakeObjects, Txn, Purge!PurgeAssumption, PurgeSound, Purge!TypeOK
<1>3. MarkedInv'
  BY DEF PInv, Purge!TakeObjects, MarkedInv, Marked
<1>4. StageInv'
  BY DEF PInv, Purge!TakeObjects, StageInv, Marked
<1>5. ErasedInv'
  BY DEF PInv, Purge!TakeObjects, ErasedInv, Marked
<1>6. TxnInv'
  BY DEF Purge!TakeObjects, TxnInv, Purge!Turn
<1>7. ObservedInv'
  BY TxnFacts DEF PInv, Purge!TakeObjects, ObservedInv, Purge!Turn, Purge!Unlocked
<1>8. Purge!ObjectsHeld'
  BY DEF PInv, PurgeSound, Purge!TakeObjects, Purge!ObjectsHeld
<1>9. Purge!StaysErased'
  BY DEF PInv, PurgeSound, Purge!TakeObjects, Purge!StaysErased
<1>10. Purge!ReturnsTracked'
  BY TxnFacts DEF PInv, PurgeSound, Purge!TakeObjects, Purge!ReturnsTracked, Purge!Turn,
    Purge!Unlocked, Purge!Purged, Purge!Pending
<1> QED
  BY <1>1, <1>2, <1>3, <1>4, <1>5, <1>6, <1>7, <1>8, <1>9, <1>10 DEF PInv, PurgeSound

\* An object that nothing else records is deleted.
LEMMA DeleteObjectInv ==
  ASSUME Purge!PurgeAssumption, PInv, NEW k \in (Purge!Item \cup Body), Purge!DeleteObject(k)
  PROVE  PInv'
<1>1. Purge!TypeOK'
  BY DEF PInv, PurgeSound, Purge!DeleteObject, Purge!TypeOK
<1>2. (txn \in Txn)'
  BY TxnFacts DEF PInv, Purge!DeleteObject, Txn
<1>3. MarkedInv'
  BY DEF PInv, Purge!DeleteObject, MarkedInv, Marked
<1>4. StageInv'
  BY DEF PInv, Purge!DeleteObject, StageInv, Marked
<1>5. ErasedInv'
  BY DEF PInv, Purge!DeleteObject, ErasedInv, Marked
<1>6. TxnInv'
  BY DEF PInv, Purge!DeleteObject, TxnInv
<1>7. ObservedInv'
  BY DEF PInv, Purge!DeleteObject, ObservedInv
<1>8. Purge!ObjectsHeld'
  BY DEF PInv, PurgeSound, Purge!DeleteObject, Purge!ObjectsHeld, Purge!Used
<1>9. Purge!StaysErased'
  BY DEF PInv, PurgeSound, Purge!DeleteObject, Purge!StaysErased
<1>10. Purge!ReturnsTracked'
  BY DEF PInv, PurgeSound, Purge!DeleteObject, Purge!ReturnsTracked, Purge!Purged,
    Purge!Pending
<1> QED
  BY <1>1, <1>2, <1>3, <1>4, <1>5, <1>6, <1>7, <1>8, <1>9, <1>10 DEF PInv, PurgeSound

\* The purge is complete, or starts again for a document that came back.
LEMMA ObjectsCommitInv ==
  ASSUME Purge!PurgeAssumption, PInv, Purge!ObjectsCommit
  PROVE  PInv'
<1>1. Purge!TypeOK'
  BY DEF PInv, PurgeSound, Purge!ObjectsCommit, Purge!TypeOK, Purge!PurgeStates,
    Purge!Free
<1>2. (txn \in Txn)'
  BY DEF Purge!ObjectsCommit, Txn
<1>3. MarkedInv'
  BY DEF PInv, Purge!ObjectsCommit, MarkedInv, Marked
<1>4. StageInv'
  BY DEF PInv, Purge!ObjectsCommit, StageInv, Marked, TxnInv
<1>5. ErasedInv'
  BY DEF PInv, Purge!ObjectsCommit, ErasedInv, Marked
<1>6. TxnInv'
  BY DEF Purge!ObjectsCommit, TxnInv, Purge!Free
<1>7. ObservedInv'
  BY DEF PInv, Purge!ObjectsCommit, ObservedInv
<1>8. Purge!ObjectsHeld'
  BY DEF PInv, PurgeSound, Purge!ObjectsCommit, Purge!ObjectsHeld
<1>9. Purge!StaysErased'
  BY DEF PInv, PurgeSound, Purge!ObjectsCommit, Purge!StaysErased, TxnInv
<1>10. Purge!ReturnsTracked'
  BY DEF PInv, PurgeSound, Purge!ObjectsCommit, Purge!ReturnsTracked, Purge!Pending,
    Purge!Purged
<1> QED
  BY <1>1, <1>2, <1>3, <1>4, <1>5, <1>6, <1>7, <1>8, <1>9, <1>10 DEF PInv, PurgeSound

\* Every step preserves the invariant.
LEMMA PurgeNext ==
  ASSUME Purge!PurgeAssumption, PInv, Purge!Next
  PROVE  PInv'
<1>1. CASE \E d \in Purge!Item : Purge!DeviceWrite(d)
  BY <1>1, DeviceWriteInv
<1>2. CASE \E n \in Notebook, b \in Body : Purge!PutObject(n, b)
  BY <1>2, PutObjectInv
<1>3. CASE \E n \in Notebook : Purge!DeleteAsset(n)
  BY <1>3, DeleteAssetInv
<1>4. CASE \E n \in Removable : Purge!InsertDerived(n) \/ Purge!CommitDerived(n)
                                \/ Purge!RequestPurge(n)
  BY <1>4, InsertDerivedInv, CommitDerivedInv, RequestPurgeInv
<1>5. CASE \E n \in Removable : Purge!PurgeStep(n)
  BY <1>5, BlockReplacedInv, StalePreviewInv, MarkPurgedInv, TakePendingInv, PurgeRowsInv,
     TakeObjectsInv DEF Purge!PurgeStep
<1>6. CASE Purge!ObservePage \/ Purge!Rollback \/ Purge!ReplaceLibrary
  BY <1>6, ObservePageInv, RollbackInv, ReplaceLibraryInv
<1>7. CASE Purge!Finish
  BY <1>7, PutCommitInv, ObserveCommitInv, TombstoneCommitInv, ObjectsCommitInv, TombstoneInv,
     DeleteObjectInv DEF Purge!Finish
<1> QED
  BY <1>1, <1>2, <1>3, <1>4, <1>5, <1>6, <1>7 DEF Purge!Next

\* A step that changes nothing.
LEMMA PurgeStutter ==
  ASSUME PInv, UNCHANGED Purge!pvars
  PROVE  PInv'
<1>1. (Purge!TypeOK /\ txn \in Txn)'
  BY DEF PInv, PurgeSound, Purge!pvars, Purge!TypeOK
<1>2. (Purge!ObjectsHeld /\ Purge!StaysErased /\ Purge!ReturnsTracked)'
  BY DEF PInv, PurgeSound, Purge!pvars, Purge!ObjectsHeld, Purge!StaysErased,
     Purge!ReturnsTracked, Purge!Purged, Purge!Pending
<1>3. (MarkedInv /\ StageInv /\ ErasedInv)'
  BY DEF PInv, Purge!pvars, MarkedInv, StageInv, ErasedInv, Marked
<1>4. (TxnInv /\ ObservedInv)'
  BY DEF PInv, Purge!pvars, TxnInv, ObservedInv, Marked, Purge!Suppressed, Purge!Purged
<1> QED
  BY <1>1, <1>2, <1>3, <1>4 DEF PInv, PurgeSound

\* Recorded revisions and assets have their objects, whatever documents start sharing
\* while a purge deletes; what a purge erased stays erased, and a document that comes
\* back is known to need removing (boox/notebook_purge.go:35-186).
THEOREM PurgeStaysSound == Purge!Spec => []PurgeSound
<1>1. Purge!Init => PInv
  BY BooksAssumption, PurgeInit
<1>2. PInv /\ [Purge!Next]_Purge!pvars => PInv'
  BY BooksAssumption, PurgeNext, PurgeStutter
<1>3. PInv => PurgeSound
  BY DEF PInv
<1> QED
  BY <1>1, <1>2, <1>3, PTL DEF Purge!Spec

-----------------------------------------------------------------------------
(* The import of books.                                                     *)

\* Rows of imports.
Item == [file : {"none", "waiting", "queued", "published", "blocked"},
         folder : {"none", "waiting", "published"}, revision : Nat]

\* Passes under way.
Passing == [step : {"folder", "create", "created", "book", "member", "shelve", "message", "finish"},
            batch : Batch]

\* The folder of the pass.
Into == FolderOf[pass.batch]

\* What a pass has made, or found, before each of its steps stays on the gateway.
PassInv == pass # Imports!Idle =>
  /\ pass.step \notin {"folder", "create"} => folder[Into].state # "absent"
  /\ pass.step \in {"member", "shelve", "message", "finish"} => book[BookOf[pass.batch]] # "absent"
  /\ pass.step \in {"message", "finish"} => member[<<BookOf[pass.batch], Into>>] # "absent"
  /\ pass.step = "finish" => pass.batch \in message

\* A pass creates only what no batch recorded, and shelves only what nobody removed.
FirstInv ==
  /\ pass.step = "create" => ~Imports!CreatedBefore(Into)
  /\ pass.step = "shelve" => member[<<BookOf[pass.batch], Into>>] \notin {"live", "removed"}

IInv == Imports!TypeOK /\ Imports!ImportedWhole /\ PassInv /\ FirstInv

\* The kinds of rows.
Rows ==
  /\ item \in [Batch -> Item] /\ pass \in {Imports!Idle} \cup Passing
  /\ op \in [Book -> {"none", "queued", "published", "blocked"}]
  /\ message \subseteq Batch
  /\ newer \in BOOLEAN /\ edits \in 0..MaxEdits /\ lost \in 0..MaxLost

\* The kinds of records on the gateway, and in the projection.
Records ==
  /\ folder \in [Folder -> Imports!FolderRecord] /\ seen \in [Folder -> Imports!FolderRecord]
  /\ book \in [Book -> {"absent", "live", "removed"}]
  /\ member \in [Book \X Folder -> Imports!RecordStates]
  /\ seenMember \in [Book \X Folder -> Imports!RecordStates]

\* The types are those of the import and those of the gateway's records.
LEMMA Types == Imports!TypeOK <=> Rows /\ Records
BY DEF Imports!TypeOK, Rows, Records, Item, Passing

\* The same, after a step.
LEMMA TypesNext == Imports!TypeOK' <=> Rows' /\ Records'
BY DEF Imports!TypeOK, Rows, Records, Item, Passing

\* Batches, passes and their places.
LEMMA PassFacts ==
  ASSUME Imports!ImportAssumption, Imports!TypeOK
  PROVE  /\ item \in [Batch -> Item] /\ pass \in {Imports!Idle} \cup Passing
         /\ pass = Imports!Idle <=> pass.step = "idle"
         /\ pass # Imports!Idle => /\ pass \in Passing /\ pass.batch \in Batch
                                   /\ Into \in Folder /\ BookOf[pass.batch] \in Book
                                   /\ item[pass.batch] \in Item
                                   /\ <<BookOf[pass.batch], Into>> \in Book \X Folder
BY DEF Imports!ImportAssumption, Imports!TypeOK, Imports!Idle, Item, Passing, Into

\* The initial states satisfy the invariant.
LEMMA ImportInit == ASSUME Imports!ImportAssumption, Imports!Init PROVE IInv
<1> USE DEF Imports!Init
<1>1. Rows
  <2>1. Imports!NoItem \in Item
    BY DEF Imports!NoItem, Item
  <2>2. item \in [Batch -> Item]
    BY <2>1
  <2>3. 0 \in 0..MaxEdits /\ 0 \in 0..MaxLost
    BY DEF Imports!ImportAssumption
  <2>4. edits \in 0..MaxEdits /\ lost \in 0..MaxLost /\ newer \in BOOLEAN
    BY <2>3
  <2>5. pass \in {Imports!Idle} \cup Passing /\ message \subseteq Batch
    OBVIOUS
  <2>6. op \in [Book -> {"none", "queued", "published", "blocked"}]
    OBVIOUS
  <2> QED
    BY <2>2, <2>4, <2>5, <2>6 DEF Rows
<1>2. Records
  <2>1. Imports!NoFolder \in Imports!FolderRecord
    BY DEF Imports!NoFolder, Imports!FolderRecord, Imports!RecordStates
  <2>2. folder \in [Folder -> Imports!FolderRecord] /\ seen \in [Folder -> Imports!FolderRecord]
    BY <2>1
  <2> QED
    BY <2>2 DEF Imports!RecordStates, Records
<1>3. Imports!ImportedWhole /\ PassInv /\ FirstInv
  BY DEF Imports!ImportedWhole, Imports!NoItem, Imports!Idle, PassInv, FirstInv, Imports!CreatedBefore
<1> QED
  BY <1>1, <1>2, <1>3, Types DEF IInv

\* Tablets, the feed and the publisher leave the imports' rows alone, and nothing
\* on the gateway goes back to what it was before it was created.
Outside ==
  \/ \E f \in Folder : Imports!EditFolder(f)
  \/ \E k \in Book : Imports!RemoveBook(k) \/ Imports!PublishBook(k)
  \/ \E m \in Book \X Folder : Imports!RemoveMember(m)
  \/ Imports!Observe \/ Imports!Replace

\* An edited folder is a record of the gateway, and there.
LEMMA EditRecords ==
  ASSUME Records, NEW f \in Folder, Imports!EditFolder(f)
  PROVE  /\ folder' \in [Folder -> Imports!FolderRecord]
         /\ \A g \in Folder : g # f => folder'[g] = folder[g]
         /\ folder'[f].state # "absent"
<1>1. PICK s \in {"live", "removed", "gone"}, m \in BOOLEAN :
        folder' = [folder EXCEPT ![f] = [state |-> s, rev |-> @.rev + 1, moved |-> m]]
  BY DEF Imports!EditFolder
<1> DEFINE new == [state |-> s, rev |-> folder[f].rev + 1, moved |-> m]
<1>2. folder \in [Folder -> Imports!FolderRecord] /\ folder[f] \in Imports!FolderRecord
  BY DEF Records
<1>3. new \in Imports!FolderRecord /\ new.state # "absent"
  BY <1>2 DEF Imports!FolderRecord, Imports!RecordStates
<1>4. folder' = [folder EXCEPT ![f] = new]
  BY <1>1
<1> HIDE DEF new
<1> QED
  BY <1>2, <1>3, <1>4

\* What happens outside leaves the import's own rows as they are.
LEMMA OutsideTypes ==
  ASSUME Imports!ImportAssumption, Rows, Records, Outside
  PROVE  /\ Rows' /\ Records'
         /\ item' = item /\ pass' = pass /\ message' = message
         /\ \A f \in Folder : folder[f].state # "absent" => folder'[f].state # "absent"
         /\ \A k \in Book : book[k] # "absent" => book'[k] # "absent"
         /\ \A m \in Book \X Folder :
              /\ member[m] # "absent" => member'[m] # "absent"
              /\ member[m] \notin {"live", "removed"} => member'[m] = member[m]
<1> DEFINE Kept ==
      /\ item' = item /\ pass' = pass /\ message' = message
      /\ \A f \in Folder : folder[f].state # "absent" => folder'[f].state # "absent"
      /\ \A k \in Book : book[k] # "absent" => book'[k] # "absent"
      /\ \A m \in Book \X Folder :
           /\ member[m] # "absent" => member'[m] # "absent"
           /\ member[m] \notin {"live", "removed"} => member'[m] = member[m]
<1>1. ASSUME NEW f \in Folder, Imports!EditFolder(f) PROVE Rows' /\ Records' /\ Kept
  <2>1. Rows'
    BY <1>1 DEF Rows, Imports!EditFolder, Imports!ImportAssumption
  <2>2. Records'
    BY <1>1, EditRecords DEF Records, Imports!EditFolder
  <2> QED
    BY <1>1, <2>1, <2>2, EditRecords DEF Imports!EditFolder
<1>2. ASSUME NEW k \in Book, Imports!RemoveBook(k) PROVE Rows' /\ Records' /\ Kept
  <2>1. Rows'
    BY <1>2 DEF Rows, Imports!RemoveBook, Imports!ImportAssumption
  <2> QED
    BY <1>2, <2>1 DEF Imports!RemoveBook, Records
<1>3. ASSUME NEW k \in Book, Imports!PublishBook(k) PROVE Rows' /\ Records' /\ Kept
  <2>1. Rows'
    BY <1>3 DEF Rows, Imports!PublishBook, Imports!Rest
  <2> QED
    BY <1>3, <2>1 DEF Imports!PublishBook, Imports!Rest, Records
<1>4. ASSUME NEW m \in Book \X Folder, Imports!RemoveMember(m) PROVE Rows' /\ Records' /\ Kept
  <2>1. Rows'
    BY <1>4 DEF Rows, Imports!RemoveMember, Imports!ImportAssumption
  <2> QED
    BY <1>4, <2>1 DEF Imports!RemoveMember, Records, Imports!RecordStates
<1>5. CASE Imports!Observe
  <2>1. Rows'
    BY <1>5 DEF Rows, Imports!Observe, Imports!Rest, Imports!Gateway
  <2>2. Records'
    <3>1. Imports!NoFolder \in Imports!FolderRecord
      BY DEF Imports!NoFolder, Imports!FolderRecord, Imports!RecordStates
    <3> QED
      BY <1>5, <3>1 DEF Records, Imports!Observe, Imports!Rest, Imports!Gateway
  <2> QED
    BY <1>5, <2>1, <2>2 DEF Imports!Observe, Imports!Gateway
<1>6. CASE Imports!Replace
  <2>1. Rows'
    BY <1>6 DEF Rows, Imports!Replace, Imports!Gateway
  <2> QED
    BY <1>6, <2>1 DEF Imports!Replace, Imports!Gateway, Records
<1> QED
  BY <1>1, <1>2, <1>3, <1>4, <1>5, <1>6 DEF Outside

\* What happens outside does not undo what an import says is done.
LEMMA OutsideStep == ASSUME Imports!ImportAssumption, IInv, Outside PROVE IInv'
<1>1. Rows' /\ Records' /\ item' = item /\ pass' = pass /\ message' = message
  BY OutsideTypes, Types DEF IInv
<1>2. /\ \A f \in Folder : folder[f].state # "absent" => folder'[f].state # "absent"
      /\ \A k \in Book : book[k] # "absent" => book'[k] # "absent"
      /\ \A m \in Book \X Folder :
           /\ member[m] # "absent" => member'[m] # "absent"
           /\ member[m] \notin {"live", "removed"} => member'[m] = member[m]
  BY OutsideTypes, Types DEF IInv
<1>3. Imports!ImportedWhole'
  <2>1. \A b \in Batch : /\ FolderOf[b] \in Folder /\ BookOf[b] \in Book
                        /\ <<BookOf[b], FolderOf[b]>> \in Book \X Folder
    BY DEF Imports!ImportAssumption
  <2> QED
    BY <1>1, <1>2, <2>1 DEF IInv, Imports!ImportedWhole
<1>4. PassInv' /\ FirstInv'
  <2>1. Imports!CreatedBefore(Into)' = Imports!CreatedBefore(Into)
    BY <1>1 DEF Imports!CreatedBefore, Into
  <2>2. PassInv'
    BY <1>1, <1>2, PassFacts DEF IInv, PassInv, Into
  <2>3. FirstInv'
    BY <1>1, <1>2, <2>1, PassFacts DEF IInv, FirstInv, Into, Imports!Idle
  <2> QED
    BY <2>2, <2>3
<1> QED
  BY <1>1, <1>3, <1>4, TypesNext DEF IInv

\* A pass that ends leaves its batch a row; what it says was published is there.
LEMMA Ended ==
  ASSUME Imports!ImportAssumption, IInv, NEW b \in Batch, NEW row \in Item,
         item' = [item EXCEPT ![b] = row], pass' = Imports!Idle,
         folder' = folder, seen' = seen, book' = book, member' = member, seenMember' = seenMember,
         message' = message, op' \in [Book -> {"none", "queued", "published", "blocked"}],
         newer' = newer, edits' = edits, lost' \in 0..MaxLost,
         row.file = "published" =>
           item[b].file = "published" \/
           /\ b \in message
           /\ folder[FolderOf[b]].state # "absent"
           /\ book[BookOf[b]] # "absent"
           /\ member[<<BookOf[b], FolderOf[b]>>] # "absent"
  PROVE  IInv'
<1>1. Rows /\ Records
  BY Types DEF IInv
<1>2. Rows'
  BY <1>1 DEF Rows
<1>3. Records'
  BY <1>1 DEF Records
<1>4. Imports!ImportedWhole'
  <2>1. \A c \in Batch : item'[c] = IF c = b THEN row ELSE item[c]
    BY <1>1 DEF Rows
  <2> QED
    BY <2>1 DEF IInv, Imports!ImportedWhole
<1>5. PassInv' /\ FirstInv'
  BY DEF PassInv, FirstInv, Imports!Idle
<1> QED
  BY <1>2, <1>3, <1>4, <1>5, TypesNext DEF IInv

\* A pass that goes on with its batch.
LEMMA Going ==
  ASSUME Imports!ImportAssumption, Imports!TypeOK, pass # Imports!Idle,
         NEW s \in {"create", "created", "book", "member", "shelve", "message", "finish"},
         Imports!Go(s)
  PROVE  /\ pass' \in Passing /\ pass'.step = s /\ pass'.batch = pass.batch /\ Into' = Into
BY PassFacts DEF Passing, Imports!Go, Into

\* What the owner asks for starts nothing by itself.
LEMMA OwnerStep ==
  ASSUME Imports!ImportAssumption, IInv, NEW b \in Batch,
         Imports!Create(b) \/ Imports!AcceptFile(b) \/ Imports!Retry(b)
  PROVE  IInv'
<1>1. Rows /\ Records /\ item \in [Batch -> Item] /\ item[b] \in Item
  BY Types DEF IInv, Rows
<1>2. pass' = Imports!Idle
  BY DEF Imports!Create, Imports!AcceptFile, Imports!Retry, Imports!Unlocked
<1>3. CASE Imports!Create(b)
  <2>1. PICK r \in Nat : item' = [item EXCEPT ![b] = [file |-> "waiting", folder |-> "waiting",
                                                      revision |-> r]]
    <3>1. seen[FolderOf[b]].rev \in Nat
      BY <1>1 DEF Records, Imports!ImportAssumption, Imports!FolderRecord
    <3> QED
      BY <1>3, <3>1 DEF Imports!Create
  <2> DEFINE row == [file |-> "waiting", folder |-> "waiting", revision |-> r]
  <2>2. row \in Item /\ row.file # "published"
    BY DEF Item
  <2>3. item' = [item EXCEPT ![b] = row]
    BY <2>1
  <2> HIDE DEF row
  <2> QED
    BY <1>1, <1>2, <1>3, <2>2, <2>3, Ended DEF Imports!Create, Imports!Gateway, Imports!Rest, Rows
<1>4. CASE Imports!AcceptFile(b) \/ Imports!Retry(b)
  <2> DEFINE row == [item[b] EXCEPT !.file = "queued"]
  <2>1. row \in Item /\ row.file # "published"
    BY <1>1 DEF Item
  <2>2. item' = [item EXCEPT ![b] = row]
    BY <1>1, <1>4 DEF Imports!AcceptFile, Imports!Retry
  <2>3. op' \in [Book -> {"none", "queued", "published", "blocked"}]
    BY <1>1, <1>4 DEF Imports!AcceptFile, Imports!Retry, Rows
  <2> HIDE DEF row
  <2> QED
    BY <1>1, <1>2, <1>4, <2>1, <2>2, <2>3, Ended
       DEF Imports!AcceptFile, Imports!Retry, Imports!Gateway, Imports!Rest, Rows
<1> QED
  BY <1>3, <1>4

\* A pass begins, or ends at once with its file blocked.
LEMMA StartStep == ASSUME Imports!ImportAssumption, IInv, NEW b \in Batch, Imports!Start(b) PROVE IInv'
<1>1. Rows /\ Records /\ item[b] \in Item /\ pass = Imports!Idle
  BY Types DEF IInv, Rows, Imports!Start, Imports!Unlocked
<1>2. CASE pass' = pass /\ item' = [item EXCEPT ![b].file = "blocked"]
  <2> DEFINE row == [item[b] EXCEPT !.file = "blocked"]
  <2>1. row \in Item /\ row.file # "published"
    BY <1>1 DEF Item
  <2>2. item' = [item EXCEPT ![b] = row]
    BY <1>1, <1>2
  <2> HIDE DEF row
  <2> QED
    BY <1>1, <1>2, <2>1, <2>2, Ended DEF Imports!Start, Imports!Gateway, Imports!Rest, Rows
<1>3. CASE pass' = [step |-> "folder", batch |-> b] /\ item' = item
  <2>1. Rows'
    BY <1>1, <1>3 DEF Rows, Passing, Imports!Start, Imports!Gateway, Imports!Rest
  <2>2. Records'
    BY <1>1 DEF Records, Imports!Start, Imports!Gateway
  <2>3. Imports!ImportedWhole'
    BY <1>3 DEF IInv, Imports!ImportedWhole, Imports!Start, Imports!Gateway
  <2>4. PassInv' /\ FirstInv'
    BY <1>3 DEF PassInv, FirstInv
  <2> QED
    BY <2>1, <2>2, <2>3, <2>4, TypesNext DEF IInv
<1> QED
  BY <1>2, <1>3 DEF Imports!Start

\* What a pass writes when it stops with its file blocked, with its folder
\* recorded, or with both.
LEMMA Outcomes ==
  ASSUME Imports!ImportAssumption, IInv, pass # Imports!Idle
  PROVE  /\ Imports!Blocked \in Item /\ Imports!Blocked.file = "blocked"
         /\ \A r \in Item : /\ [r EXCEPT !.folder = "published"] \in Item
                            /\ [r EXCEPT !.folder = "published"].file = r.file
                            /\ [r EXCEPT !.folder = "published", !.file = "published"] \in Item
BY PassFacts DEF IInv, Imports!Blocked, Item

\* The pass goes on: only its step changes.
LEMMA Moved ==
  ASSUME Imports!ImportAssumption, IInv, pass # Imports!Idle,
         NEW s \in {"create", "created", "book", "member", "shelve", "message", "finish"},
         Imports!Go(s), item' = item, seen' = seen, op' = op, seenMember' = seenMember,
         Imports!Gateway, Imports!Rest,
         s \notin {"folder", "create"} => folder[Into].state # "absent",
         s \in {"member", "shelve", "message", "finish"} => book[BookOf[pass.batch]] # "absent",
         s \in {"message", "finish"} => member[<<BookOf[pass.batch], Into>>] # "absent",
         s = "finish" => pass.batch \in message,
         s = "create" => ~Imports!CreatedBefore(Into),
         s = "shelve" => member[<<BookOf[pass.batch], Into>>] \notin {"live", "removed"}
  PROVE  IInv'
<1>1. /\ pass' \in Passing /\ pass'.step = s /\ pass'.batch = pass.batch /\ Into' = Into
  BY Going DEF IInv
<1>2. Rows'
  BY <1>1, Types DEF IInv, Rows, Imports!Gateway, Imports!Rest
<1>3. Records'
  BY Types DEF IInv, Records, Imports!Gateway
<1>4. Imports!ImportedWhole'
  BY DEF IInv, Imports!ImportedWhole, Imports!Gateway
<1>5. PassInv'
  BY <1>1 DEF PassInv, Imports!Gateway
<1>6. FirstInv'
  BY <1>1 DEF FirstInv, Imports!Gateway, Imports!CreatedBefore
<1> QED
  BY <1>2, <1>3, <1>4, <1>5, <1>6, TypesNext DEF IInv

\* What a pass reads decides where it goes on, or ends it.
LEMMA ReadStep ==
  ASSUME Imports!ImportAssumption, IInv, Imports!ReadFolder \/ Imports!ReadBook \/ Imports!ReadMember
  PROVE  IInv'
<1> DEFINE b == pass.batch
           Same == /\ item' = item /\ seen' = seen /\ op' = op /\ seenMember' = seenMember
                   /\ Imports!Gateway /\ Imports!Rest
<1>1. /\ pass # Imports!Idle /\ pass.step # "create" /\ b \in Batch /\ item[b] \in Item
      /\ op \in [Book -> {"none", "queued", "published", "blocked"}] /\ lost \in 0..MaxLost
      /\ seen' = seen /\ op' = op /\ seenMember' = seenMember /\ Imports!Gateway /\ Imports!Rest
  BY PassFacts, Types DEF IInv, Rows, Imports!ReadFolder, Imports!ReadBook, Imports!ReadMember, Imports!Idle
<1>2. ASSUME NEW row \in Item, row.file # "published", Imports!Commit(row) PROVE IInv'
  BY <1>1, <1>2, Ended DEF Imports!Commit, Imports!Gateway, Imports!Rest
<1>3. CASE Imports!ReadFolder
  <2>1. CASE Imports!Commit(Imports!Blocked)
    BY <1>1, <1>2, <2>1, Outcomes
  <2>2. CASE Imports!Usable(folder[Into], item[b].revision) /\ Imports!Go("book") /\ item' = item
    BY <1>1, <2>2, Moved DEF Imports!Usable
  <2>3. CASE ~Imports!CreatedBefore(Into) /\ Imports!Go("create") /\ item' = item
    BY <1>1, <2>3, Moved
  <2> QED
    BY <1>3, <2>1, <2>2, <2>3 DEF Imports!ReadFolder, Into
<1>4. CASE Imports!ReadBook
  <2>1. CASE Imports!Commit([Imports!Blocked EXCEPT !.folder = "published"])
    BY <1>1, <1>2, <2>1, Outcomes
  <2>2. CASE book[BookOf[b]] = "live" /\ Imports!Go("member") /\ item' = item
    BY <1>1, <1>4, <2>2, Moved DEF IInv, PassInv, Imports!ReadBook
  <2> QED
    BY <1>4, <2>1, <2>2 DEF Imports!ReadBook
<1>5. CASE Imports!ReadMember
  <2>1. CASE Imports!Commit([Imports!Blocked EXCEPT !.folder = "published"])
    BY <1>1, <1>2, <2>1, Outcomes
  <2>2. CASE member[<<BookOf[b], Into>>] = "live" /\ Imports!Go("message") /\ item' = item
    BY <1>1, <1>5, <2>2, Moved DEF IInv, PassInv, Imports!ReadMember
  <2>3. CASE /\ member[<<BookOf[b], Into>>] \notin {"live", "removed"}
             /\ Imports!Go("shelve") /\ item' = item
    BY <1>1, <1>5, <2>3, Moved DEF IInv, PassInv, Imports!ReadMember
  <2> QED
    BY <1>5, <2>1, <2>2, <2>3 DEF Imports!ReadMember, Into
<1> QED
  BY <1>3, <1>4, <1>5

\* The folder a pass creates was absent or gone; nothing else changes.
LEMMA CreateFolderStep ==
  ASSUME Imports!ImportAssumption, IInv, Imports!CreateFolder
  PROVE  /\ IInv'
         /\ \A f \in Folder : /\ folder[f].state # "absent" => folder'[f].state # "absent"
                              /\ folder'[f] # folder[f] => f = Into
<1>1. /\ pass # Imports!Idle /\ Into \in Folder /\ Rows /\ Records
      /\ folder[Into] \in Imports!FolderRecord
  BY PassFacts, Types DEF IInv, Imports!CreateFolder, Imports!Idle, Records
<1>2. /\ pass' \in Passing /\ pass'.step = "created" /\ pass'.batch = pass.batch /\ Into' = Into
  BY <1>1, Going DEF IInv, Imports!CreateFolder
<1> DEFINE r == IF folder[Into].state \in {"absent", "gone"}
                THEN [state |-> "live", rev |-> folder[Into].rev + 1, moved |-> FALSE]
                ELSE folder[Into]
<1>3. r \in Imports!FolderRecord /\ r.state # "absent"
  BY <1>1 DEF Imports!FolderRecord, Imports!RecordStates
<1>4. folder' = [folder EXCEPT ![Into] = r]
  BY DEF Imports!CreateFolder, Into
<1> HIDE DEF r
<1>5. /\ folder' \in [Folder -> Imports!FolderRecord]
      /\ \A f \in Folder : folder'[f] = IF f = Into THEN r ELSE folder[f]
  BY <1>1, <1>3, <1>4 DEF Records
<1>6. Rows'
  BY <1>1, <1>2 DEF Rows, Imports!CreateFolder, Imports!Rest
<1>7. Records'
  BY <1>1, <1>5 DEF Records, Imports!CreateFolder
<1>8. Imports!ImportedWhole'
  BY <1>3, <1>5 DEF IInv, Imports!ImportedWhole, Imports!CreateFolder, Imports!ImportAssumption
<1>9. PassInv' /\ FirstInv'
  BY <1>1, <1>2, <1>3, <1>5 DEF PassInv, FirstInv
<1> QED
  BY <1>3, <1>5, <1>6, <1>7, <1>8, <1>9, TypesNext DEF IInv

\* The membership a pass creates was neither live nor removed.
LEMMA ShelveStep ==
  ASSUME Imports!ImportAssumption, IInv, Imports!Shelve
  PROVE  /\ IInv'
         /\ \A m \in Book \X Folder : member[m] = "removed" => member'[m] = "removed"
<1> DEFINE place == <<BookOf[pass.batch], Into>>
<1>1. pass # Imports!Idle /\ place \in Book \X Folder /\ Rows /\ Records
  BY PassFacts, Types DEF IInv, Imports!Shelve, Imports!Idle
<1>2. /\ pass' \in Passing /\ pass'.step = "message" /\ pass'.batch = pass.batch /\ Into' = Into
  BY <1>1, Going DEF IInv, Imports!Shelve
<1>3. member' = [member EXCEPT ![place] = "live"] /\ member[place] # "removed"
  BY DEF Imports!Shelve, Into, IInv, FirstInv
<1> HIDE DEF place
<1>4. /\ member' \in [Book \X Folder -> Imports!RecordStates]
      /\ \A m \in Book \X Folder : member'[m] = IF m = place THEN "live" ELSE member[m]
  BY <1>1, <1>3 DEF Records, Imports!RecordStates
<1>5. Rows'
  BY <1>1, <1>2 DEF Rows, Imports!Shelve, Imports!Rest
<1>6. Records'
  BY <1>1, <1>4 DEF Records, Imports!Shelve
<1>7. Imports!ImportedWhole'
  <2>1. \A b \in Batch : <<BookOf[b], FolderOf[b]>> \in Book \X Folder
    BY DEF Imports!ImportAssumption
  <2> QED
    BY <1>4, <2>1 DEF IInv, Imports!ImportedWhole, Imports!Shelve
<1>8. FirstInv'
  BY <1>2 DEF FirstInv
<1>9. PassInv'
  <2>1. member'[place] = "live"
    BY <1>1, <1>4
  <2> QED
    BY <1>2, <2>1 DEF place, IInv, PassInv, Imports!Shelve, Imports!Idle
<1> QED
  BY <1>3, <1>4, <1>5, <1>6, <1>7, <1>8, <1>9, TypesNext DEF IInv

\* The message is on the gateway before the file is reported.
LEMMA SendMessageStep == ASSUME Imports!ImportAssumption, IInv, Imports!SendMessage PROVE IInv'
<1>1. pass # Imports!Idle /\ pass.batch \in Batch /\ Rows /\ Records
  BY PassFacts, Types DEF IInv, Imports!SendMessage, Imports!Idle
<1>2. /\ pass' \in Passing /\ pass'.step = "finish" /\ pass'.batch = pass.batch /\ Into' = Into
  BY <1>1, Going DEF IInv, Imports!SendMessage
<1>3. Rows'
  BY <1>1, <1>2 DEF Rows, Imports!SendMessage, Imports!Rest
<1>4. Records'
  BY <1>1 DEF Records, Imports!SendMessage
<1>5. Imports!ImportedWhole'
  BY DEF IInv, Imports!ImportedWhole, Imports!SendMessage
<1>6. PassInv' /\ FirstInv'
  BY <1>1, <1>2 DEF IInv, PassInv, FirstInv, Imports!SendMessage
<1> QED
  BY <1>3, <1>4, <1>5, <1>6, TypesNext DEF IInv

\* A pass ends when its transaction commits, gives up or is cut off.
LEMMA EndStep ==
  ASSUME Imports!ImportAssumption, IInv,
         Imports!CommitCreated \/ Imports!Finish \/ Imports!RequestLost \/ Imports!Crash
  PROVE  IInv'
<1> DEFINE b == pass.batch
           done == [item[b] EXCEPT !.folder = "published", !.file = "published"]
           kept == [item[b] EXCEPT !.folder = "published"]
<1>1. /\ pass # Imports!Idle /\ b \in Batch /\ item[b] \in Item /\ item \in [Batch -> Item]
      /\ op \in [Book -> {"none", "queued", "published", "blocked"}]
      /\ lost \in 0..MaxLost /\ MaxLost \in Nat
      /\ seen' = seen /\ op' = op /\ seenMember' = seenMember /\ Imports!Gateway
      /\ newer' = newer /\ edits' = edits
  BY PassFacts, Types DEF IInv, Rows, Imports!CommitCreated, Imports!Finish, Imports!RequestLost,
     Imports!Crash, Imports!Idle, Imports!Rest, Imports!ImportAssumption
<1>2. done \in Item /\ kept \in Item /\ kept.file = item[b].file
  BY <1>1, Outcomes
<1>3. lost' \in 0..MaxLost
  BY <1>1 DEF Imports!CommitCreated, Imports!Finish, Imports!RequestLost, Imports!Crash, Imports!Rest
<1>4. ASSUME NEW row \in Item, Imports!Commit(row), row.file = item[b].file PROVE IInv'
  BY <1>1, <1>3, <1>4, Ended DEF Imports!Commit, Imports!Gateway
<1>5. CASE Imports!CommitCreated
  BY <1>2, <1>4, <1>5 DEF Imports!CommitCreated
<1>6. CASE Imports!Finish
  BY <1>1, <1>2, <1>3, <1>6, Ended
     DEF Imports!Finish, Imports!Commit, Imports!Gateway, IInv, PassInv, Into
<1>7. CASE Imports!RequestLost
  BY <1>1, <1>2, <1>4, <1>7 DEF Imports!RequestLost, Imports!GivesUp
<1>8. CASE Imports!Crash
  <2>1. item' = [item EXCEPT ![b] = item[b]] /\ pass' = Imports!Idle
    BY <1>1, <1>8 DEF Imports!Crash
  <2> QED
    BY <1>1, <1>3, <1>4, <2>1 DEF Imports!Commit
<1> QED
  BY <1>5, <1>6, <1>7, <1>8

\* Every step of the imports keeps the invariant and brings nothing back.
LEMMA ImportNext ==
  ASSUME Imports!ImportAssumption, IInv, Imports!Next
  PROVE  IInv' /\ Imports!RestoresNothing
<1> DEFINE Quiet == folder' = folder /\ member' = member
<1>1. CASE Outside
  <2>1. \A f \in Folder : folder'[f] # folder[f] => edits' # edits
    <3>1. edits \in Nat
      BY Types DEF IInv, Rows, Imports!ImportAssumption
    <3> QED
      BY <1>1, <3>1 DEF Outside, Imports!EditFolder, Imports!RemoveBook, Imports!PublishBook,
                        Imports!RemoveMember, Imports!Observe, Imports!Replace, Imports!Gateway
  <2>2. \A m \in Book \X Folder : member[m] = "removed" => member'[m] = "removed"
    <3>1. member \in [Book \X Folder -> Imports!RecordStates]
      BY Types DEF IInv, Records
    <3> QED
      BY <1>1, <3>1 DEF Outside, Imports!EditFolder, Imports!RemoveBook, Imports!PublishBook,
                        Imports!RemoveMember, Imports!Observe, Imports!Replace, Imports!Gateway
  <2> QED
    BY <1>1, <2>1, <2>2, OutsideStep DEF Imports!RestoresNothing
<1>2. ASSUME Quiet PROVE Imports!RestoresNothing
  BY <1>2 DEF Imports!RestoresNothing
<1>3. ASSUME NEW b \in Batch, Imports!Create(b) \/ Imports!AcceptFile(b) \/ Imports!Retry(b)
      PROVE  IInv' /\ Quiet
  BY <1>3, OwnerStep DEF Imports!Create, Imports!AcceptFile, Imports!Retry, Imports!Gateway
<1>4. ASSUME NEW b \in Batch, Imports!Start(b) PROVE IInv' /\ Quiet
  BY <1>4, StartStep DEF Imports!Start, Imports!Gateway
<1>5. CASE Imports!ReadFolder \/ Imports!ReadBook \/ Imports!ReadMember
  <2>1. IInv'
    BY <1>5, ReadStep
  <2>2. Quiet
    BY <1>5 DEF Imports!ReadFolder, Imports!ReadBook, Imports!ReadMember, Imports!Gateway
  <2> QED
    BY <1>2, <2>1, <2>2
<1>6. CASE Imports!CreateFolder
  <2>1. member' = member /\ ~Imports!CreatedBefore(Into)
    BY <1>6 DEF Imports!CreateFolder, IInv, FirstInv
  <2> QED
    BY <1>6, <2>1, CreateFolderStep DEF Imports!RestoresNothing, Imports!CreatedBefore
<1>7. CASE Imports!Shelve
  BY <1>7, ShelveStep DEF Imports!RestoresNothing, Imports!Shelve
<1>8. CASE Imports!SendMessage
  BY <1>2, <1>8, SendMessageStep DEF Imports!SendMessage
<1>9. CASE Imports!CommitCreated \/ Imports!Finish \/ Imports!RequestLost \/ Imports!Crash
  <2>1. IInv'
    BY <1>9, EndStep
  <2>2. Quiet
    BY <1>9 DEF Imports!CommitCreated, Imports!Finish, Imports!RequestLost, Imports!Crash, Imports!Gateway
  <2> QED
    BY <1>2, <2>1, <2>2
<1> QED
  BY <1>1, <1>2, <1>3, <1>4, <1>5, <1>6, <1>7, <1>8, <1>9 DEF Imports!Next, Imports!Coordinator, Outside

\* A step that changes nothing.
LEMMA ImportStutter == ASSUME IInv, UNCHANGED Imports!bvars PROVE IInv'
<1>1. Imports!TypeOK'
  BY DEF IInv, Imports!TypeOK, Imports!bvars
<1> QED
  BY <1>1 DEF IInv, Imports!bvars, Imports!ImportedWhole, PassInv, FirstInv, Into, Imports!CreatedBefore

\* An import that says it is done has its book on its shelf, and nothing an import does
\* brings back what was removed or renamed meanwhile
\* (boox/book_import_worker.go:18-191).
THEOREM ImportsStaySound == Imports!Spec => ImportsSound
<1>1. Imports!Init => IInv
  BY BooksAssumption, ImportInit
<1>2. IInv /\ [Imports!Next]_Imports!bvars => IInv'
  BY BooksAssumption, ImportNext, ImportStutter
<1>3. IInv => Imports!TypeOK /\ Imports!ImportedWhole
  BY DEF IInv
<1>4. IInv /\ [Imports!Next]_Imports!bvars
      => [Imports!RestoresNothing]_<<folder, seen, book, op, member, seenMember, item, message,
                                     pass, newer, edits, lost>>
  BY BooksAssumption, ImportNext DEF Imports!bvars
<1> QED
  BY <1>1, <1>2, <1>3, <1>4, PTL DEF Imports!Spec, ImportsSound

-----------------------------------------------------------------------------
(* The search index of books.                                               *)

\* The number of an annotation's last change is in the journal, and no later entry
\* is about it.
ChangesInv ==
  /\ \A a \in ready : inputs[a] > 0
  /\ \A a \in Search!Annotation : inputs[a] > 0 =>
       /\ inputs[a] \in DOMAIN journal /\ journal[inputs[a]] \in {a, Search!BookRow}
       /\ \A s \in DOMAIN journal : journal[s] \in {a, Search!BookRow} => s <= inputs[a]

\* A document that is not older than its annotation's last change shows the
\* annotation as it is.
DocumentInv ==
  \A a \in Search!Annotation : documents[a] # Search!NoDocument =>
    /\ documents[a].of > 0
    /\ inputs[a] > 0 /\ documents[a].revision >= inputs[a]
         => a \in ready /\ documents[a].of = inputs[a]

Holds(w) == work[w].phase \in {"made", "checked"}

\* So does what a worker made and has not published.
MadeInv ==
  \A w \in Worker : Holds(w) =>
    /\ inputs[work[w].at] > 0 /\ work[w].made.revision >= inputs[work[w].at]
         => work[w].made.of = IF work[w].at \in ready THEN inputs[work[w].at] ELSE 0
    /\ \A b \in work[w].left : work[w].at < b
    /\ work[w].job \in DOMAIN journal => work[w].job <= work[w].made.revision

\* The newest publication of an annotation stands, unless an older one overtook it.
NewestInv ==
  \A a \in ready : a \notin overtaken /\ newest[a] >= inputs[a] =>
    documents[a] # Search!NoDocument /\ documents[a].revision = newest[a]

\* What a job has passed was published after the job's change.
PassedInv ==
  /\ DOMAIN jobs \subseteq DOMAIN journal
  /\ \A s \in DOMAIN jobs, a \in Search!Annotation :
       inputs[a] = s /\ (jobs[s].done \/ a <= jobs[s].after) => newest[a] >= s

\* What the pump passed has its job.
HandedInv ==
  /\ \A s \in DOMAIN journal : s <= cursor => s \in DOMAIN jobs
  /\ \A p \in Pumper : pump[p] \in DOMAIN journal => pump[p] \in DOMAIN jobs

\* The annotation at stake is published, in the worker's page, or after it.
Ahead(w, a) ==
  CASE work[w].phase = "query" -> a > work[w].after /\ work[w].row = journal[work[w].job]
    [] work[w].phase = "publish" ->
         a \in work[w].left \/ (work[w].full /\ \A b \in work[w].left : b < a)
    [] OTHER ->
         \/ a \in work[w].left \/ a = work[w].at
         \/ work[w].full /\ work[w].at < a /\ \A b \in work[w].left : b < a

AheadInv ==
  \A w \in Worker, a \in Search!Annotation :
    work[w] # Search!Idle /\ inputs[a] = work[w].job => newest[a] >= work[w].job \/ Ahead(w, a)

SearchInv ==
  /\ Search!TypeOK /\ ChangesInv /\ DocumentInv /\ MadeInv /\ NewestInv /\ PassedInv
  /\ HandedInv /\ AheadInv

\* The locals of a worker, phase by phase.
LEMMA WorkTypes ==
  ASSUME Search!TypeOK, NEW w \in Worker
  PROVE  /\ work[w].phase \in {"idle", "query", "publish", "made", "checked"}
         /\ work[w].phase = "idle" <=> work[w] = Search!Idle
         /\ work[w] # Search!Idle => work[w].job \in 1..last
         /\ work[w].phase = "query" => work[w].row \in Search!Row /\ work[w].after \in 0..AnnotationCount
         /\ work[w].phase \in {"publish", "made", "checked"} =>
              work[w].left \subseteq Search!Annotation /\ work[w].full \in BOOLEAN
         /\ work[w].phase \in {"made", "checked"} =>
              /\ work[w].at \in Search!Annotation /\ work[w].made \in Search!Document
              /\ work[w].made.of \in 0..last /\ work[w].made.revision \in 0..last
<1>1. work[w] \in Search!Step
  BY DEF Search!TypeOK
<1> QED
  BY <1>1 DEF Search!Step, Search!Idle, Search!Document

\* The numbers of the journal go on: locals keep their type.
LEMMA StepsGrow ==
  ASSUME last \in Nat, last' \in Nat, last <= last'
  PROVE  Search!Step \subseteq Search!Step' /\ Search!Document \subseteq Search!Document'
<1>1. 1..last \subseteq 1..last' /\ 0..last \subseteq 0..last'
  OBVIOUS
<1>2. Search!Document \subseteq Search!Document'
  BY <1>1 DEF Search!Document
<1> QED
  BY <1>1, <1>2 DEF Search!Step, Search!Row, Search!Annotation, Search!Idle

\* A library that is indexed.
LEMMA SearchInit == ASSUME Search!SearchAssumption, Search!Init PROVE SearchInv
<1>1. AnnotationCount \in Nat
  BY DEF Search!SearchAssumption
<1>2. \A w \in Worker : work[w] = Search!Idle
  BY DEF Search!Init
<1>3. Search!TypeOK
  <2>1. work \in [Worker -> Search!Step]
    BY DEF Search!Init, Search!Step
  <2>2. documents \in [Search!Annotation -> Search!Document]
    BY <1>1 DEF Search!Init, Search!Document, Search!Annotation
  <2>3. jobs \in [DOMAIN jobs -> [after : 0..AnnotationCount, done : BOOLEAN, leased : BOOLEAN]]
        /\ DOMAIN jobs = 1..last
    BY <1>1 DEF Search!Init
  <2>4. events \in 0..MaxEvents
    BY DEF Search!Init, Search!SearchAssumption
  <2>5. pump \in [Pumper -> 0..last]
    BY <1>1 DEF Search!Init
  <2> QED
    BY <1>1, <2>1, <2>2, <2>3, <2>4, <2>5 DEF Search!TypeOK, Search!Init, Search!Annotation, Search!Row
<1>4. ChangesInv
  BY <1>1 DEF ChangesInv, Search!Init, Search!Annotation, Search!BookRow
<1>5. DocumentInv /\ NewestInv
  BY <1>1 DEF DocumentInv, NewestInv, Search!Init, Search!Annotation, Search!NoDocument
<1>6. MadeInv /\ AheadInv
  BY <1>2 DEF MadeInv, AheadInv, Holds, Search!Idle
<1>7. PassedInv /\ HandedInv
  BY <1>1 DEF PassedInv, HandedInv, Search!Init, Search!Annotation
<1> QED
  BY <1>3, <1>4, <1>5, <1>6, <1>7 DEF SearchInv

\* The mirrors and the index are left alone.
Untouched ==
  /\ last' = last /\ journal' = journal /\ inputs' = inputs /\ ready' = ready
  /\ documents' = documents /\ newest' = newest /\ overtaken' = overtaken

\* What relates the journal and the documents holds while they are left alone.
LEMMA UntouchedInv ==
  ASSUME SearchInv, Untouched PROVE ChangesInv' /\ DocumentInv' /\ NewestInv'
<1>1. ChangesInv'
  BY DEF SearchInv, Untouched, ChangesInv
<1>2. DocumentInv'
  BY DEF SearchInv, Untouched, DocumentInv
<1>3. NewestInv'
  BY DEF SearchInv, Untouched, NewestInv
<1> QED
  BY <1>1, <1>2, <1>3

\* A job that is not there yet has passed nothing.
LEMMA ScheduleStep ==
  ASSUME Search!SearchAssumption, SearchInv, NEW w \in Pumper, Search!Schedule(w)
  PROVE  SearchInv'
<1>1. PICK s \in Search!First(Search!Open) :
        /\ pump' = [pump EXCEPT ![w] = s]
        /\ jobs' = [j \in DOMAIN jobs \cup {s} |-> IF j \in DOMAIN jobs THEN jobs[j]
                     ELSE [after |-> 0, done |-> FALSE, leased |-> FALSE]]
  BY DEF Search!Schedule
<1>2. Untouched /\ cursor' = cursor /\ work' = work /\ events' = events
  BY DEF Untouched, Search!Schedule
<1>3. s \in DOMAIN journal /\ s \in 1..last /\ last \in Nat
  BY DEF Search!First, Search!Open, SearchInv, Search!TypeOK
<1>4. Search!TypeOK'
  <2>1. pump' \in [Pumper -> 0..last']
    BY <1>1, <1>2, <1>3 DEF SearchInv, Search!TypeOK, Untouched
  <2>2. DOMAIN jobs' = DOMAIN jobs \cup {s}
    BY <1>1
  <2>3. jobs' \in [DOMAIN jobs' -> [after : 0..AnnotationCount, done : BOOLEAN, leased : BOOLEAN]]
    BY <1>1, <2>2 DEF SearchInv, Search!TypeOK, Search!SearchAssumption
  <2>4. Search!Step' = Search!Step /\ Search!Document' = Search!Document
    BY <1>2 DEF Search!Step, Search!Document, Untouched
  <2> QED
    BY <1>2, <1>3, <2>1, <2>2, <2>3, <2>4 DEF SearchInv, Search!TypeOK, Untouched
<1>5. PassedInv'
  BY <1>1, <1>2, <1>3 DEF SearchInv, PassedInv, Untouched, Search!Annotation, Search!SearchAssumption
<1>6. HandedInv'
  BY <1>1, <1>2, <1>3 DEF SearchInv, HandedInv, Untouched, Search!TypeOK
<1>7. MadeInv'
  BY <1>2 DEF SearchInv, MadeInv, Holds, Untouched
<1>8. AheadInv'
  BY <1>2 DEF SearchInv, AheadInv, Ahead, Untouched
<1> QED
  BY <1>2, <1>4, <1>5, <1>6, <1>7, <1>8, UntouchedInv DEF SearchInv

\* The cursor passes an entry that has its job.
LEMMA CompleteStep ==
  ASSUME Search!SearchAssumption, SearchInv, NEW w \in Pumper, Search!Complete(w)
  PROVE  SearchInv'
<1>1. /\ pump' = [pump EXCEPT ![w] = 0]
      /\ cursor' = IF pump[w] \in Search!First(Search!Open) THEN pump[w] ELSE cursor
  BY DEF Search!Complete
<1>2. Untouched /\ jobs' = jobs /\ work' = work /\ events' = events
  BY DEF Untouched, Search!Complete
<1>3. Search!TypeOK'
  <2>1. Search!Step' = Search!Step /\ Search!Document' = Search!Document
    BY <1>2 DEF Search!Step, Search!Document, Untouched
  <2>2. pump' \in [Pumper -> 0..last'] /\ cursor' \in 0..last'
    BY <1>1, <1>2 DEF SearchInv, Search!TypeOK, Untouched
  <2> QED
    BY <1>2, <2>1, <2>2 DEF SearchInv, Search!TypeOK, Untouched
<1>4. HandedInv'
  <2>1. \A s \in DOMAIN journal : s <= cursor' => s \in DOMAIN jobs
    <3>1. CASE pump[w] \in Search!First(Search!Open)
      <4>1. /\ cursor' = pump[w] /\ pump[w] \in DOMAIN journal
            /\ \A s \in DOMAIN journal : s > cursor => pump[w] <= s
        BY <1>1, <3>1 DEF Search!First, Search!Open
      <4>2. cursor \in Nat /\ pump[w] \in Nat /\ DOMAIN journal \subseteq Nat
        BY DEF SearchInv, Search!TypeOK
      <4> QED
        BY <4>1, <4>2 DEF SearchInv, HandedInv
    <3>2. CASE pump[w] \notin Search!First(Search!Open)
      BY <1>1, <3>2 DEF SearchInv, HandedInv
    <3> QED
      BY <3>1, <3>2
  <2>2. \A p \in Pumper : pump'[p] \in DOMAIN journal => pump'[p] \in DOMAIN jobs
    BY <1>1 DEF SearchInv, HandedInv, Search!TypeOK
  <2> QED
    BY <1>2, <2>1, <2>2 DEF HandedInv, Untouched
<1>5. PassedInv' /\ MadeInv'
  BY <1>2 DEF SearchInv, PassedInv, MadeInv, Holds, Untouched
<1>6. AheadInv'
  BY <1>2 DEF SearchInv, AheadInv, Ahead, Untouched
<1> QED
  BY <1>2, <1>3, <1>4, <1>5, <1>6, UntouchedInv DEF SearchInv

Job == [after : 0..AnnotationCount, done : BOOLEAN, leased : BOOLEAN]

\* Nothing but leases changes.
Kept ==
  /\ DOMAIN jobs' = DOMAIN jobs /\ jobs' \in [DOMAIN jobs -> Job]
  /\ \A s \in DOMAIN jobs : jobs'[s].after = jobs[s].after /\ jobs'[s].done = jobs[s].done

\* A worker that takes or gives up its job changes the lease alone.
LEMMA LeaseKept ==
  ASSUME Search!TypeOK, NEW s, NEW free \in BOOLEAN,
         \/ jobs' = Search!Updated(s, [jobs[s] EXCEPT !.leased = FALSE])
         \/ s \in DOMAIN jobs /\ jobs' = [jobs EXCEPT ![s].leased = free]
         \/ jobs' = jobs
  PROVE  Kept
<1>1. jobs \in [DOMAIN jobs -> Job]
  BY DEF Search!TypeOK, Job
<1>2. CASE jobs' = Search!Updated(s, [jobs[s] EXCEPT !.leased = FALSE])
  BY <1>1, <1>2 DEF Kept, Job, Search!Updated
<1>3. CASE s \in DOMAIN jobs /\ jobs' = [jobs EXCEPT ![s].leased = free]
  BY <1>1, <1>3 DEF Kept, Job
<1>4. CASE jobs' = jobs
  BY <1>1, <1>4 DEF Kept
<1> QED
  BY <1>2, <1>3, <1>4

\* Leases matter neither to what a job has passed nor to which changes have a job.
LEMMA KeptInv ==
  ASSUME SearchInv, Untouched, Kept
  PROVE  /\ PassedInv'
         /\ (cursor' = cursor /\ \A p \in Pumper : pump'[p] \in {pump[p], 0}) => HandedInv'
<1>1. PassedInv'
  BY DEF SearchInv, PassedInv, Untouched, Kept
<1>2. ASSUME cursor' = cursor, \A p \in Pumper : pump'[p] \in {pump[p], 0} PROVE HandedInv'
  <2>1. 0 \notin DOMAIN journal
    BY DEF SearchInv, Search!TypeOK
  <2> QED
    BY <1>2, <2>1 DEF SearchInv, HandedInv, Untouched, Kept
<1> QED
  BY <1>1, <1>2

\* Types, when only a worker, its job and a pump move.
LEMMA WorkerTypes ==
  ASSUME Search!TypeOK, Untouched, Kept, cursor' = cursor, events' \in 0..MaxEvents,
         work' \in [Worker -> Search!Step], pump' \in [Pumper -> 0..last]
  PROVE  Search!TypeOK'
<1>1. Search!Step' = Search!Step /\ Search!Document' = Search!Document
  BY DEF Search!Step, Search!Document, Untouched
<1> QED
  BY <1>1 DEF Search!TypeOK, Untouched, Kept, Job

\* What a worker that moves must hold.
LEMMA WorkerMoves ==
  ASSUME SearchInv, Untouched, NEW w \in Worker, work' = [work EXCEPT ![w] = work'[w]],
         \/ work'[w] = Search!Idle
         \/ /\ Holds(w)' =>
                 /\ inputs[work'[w].at] > 0 /\ work'[w].made.revision >= inputs[work'[w].at]
                      => work'[w].made.of = IF work'[w].at \in ready THEN inputs[work'[w].at] ELSE 0
                 /\ \A b \in work'[w].left : work'[w].at < b
                 /\ work'[w].job \in DOMAIN journal => work'[w].job <= work'[w].made.revision
            /\ \A a \in Search!Annotation : inputs[a] = work'[w].job =>
                 newest[a] >= work'[w].job \/ Ahead(w, a)'
  PROVE  MadeInv' /\ AheadInv'
<1>1. \A v \in Worker : v # w => work'[v] = work[v]
  BY DEF SearchInv, Search!TypeOK
<1>2. work'[w] = Search!Idle => ~Holds(w)'
  BY DEF Holds, Search!Idle
<1>3. MadeInv'
  <2> SUFFICES ASSUME NEW v \in Worker, Holds(v)'
               PROVE  /\ inputs'[work'[v].at] > 0 /\ work'[v].made.revision >= inputs'[work'[v].at]
                           => work'[v].made.of = IF work'[v].at \in ready' THEN inputs'[work'[v].at] ELSE 0
                      /\ \A b \in work'[v].left : work'[v].at < b
                      /\ work'[v].job \in DOMAIN journal' => work'[v].job <= work'[v].made.revision
    BY DEF MadeInv
  <2>1. CASE v = w
    BY <1>2, <2>1 DEF Untouched
  <2>2. CASE v # w
    BY <1>1, <2>2 DEF SearchInv, MadeInv, Holds, Untouched
  <2> QED
    BY <2>1, <2>2
<1>4. AheadInv'
  <2> SUFFICES ASSUME NEW v \in Worker, NEW a \in Search!Annotation, work'[v] # Search!Idle,
                      inputs'[a] = work'[v].job
               PROVE  newest'[a] >= work'[v].job \/ Ahead(v, a)'
    BY DEF AheadInv
  <2>1. CASE v = w
    BY <2>1 DEF Untouched
  <2>2. CASE v # w
    BY <1>1, <2>2 DEF SearchInv, AheadInv, Ahead, Untouched
  <2> QED
    BY <2>1, <2>2
<1> QED
  BY <1>3, <1>4

\* An error, a crash or a stale snapshot: the worker knows nothing any more.
LEMMA DroppedStep ==
  ASSUME Search!SearchAssumption, SearchInv, NEW w \in Worker,
         Search!Fail(w) \/ Search!Crash(w)
         \/ (Search!CheckCurrent(w) /\ work' = [work EXCEPT ![w] = Search!Idle])
  PROVE  SearchInv'
<1>1. /\ Untouched /\ cursor' = cursor /\ events' = events
      /\ work' = [work EXCEPT ![w] = Search!Idle]
      /\ pump' = [p \in Pumper |-> pump'[p]] /\ \A p \in Pumper : pump'[p] \in {pump[p], 0}
  BY DEF Untouched, Search!Fail, Search!Crash, Search!CheckCurrent, SearchInv, Search!TypeOK
<1>2. Kept
  <2>1. jobs' = Search!Updated(work[w].job, [jobs[work[w].job] EXCEPT !.leased = FALSE])
        \/ jobs' = jobs
    BY DEF Search!Fail, Search!Crash, Search!CheckCurrent
  <2> QED
    BY <2>1, LeaseKept DEF SearchInv
<1>3. work' = [work EXCEPT ![w] = work'[w]] /\ work'[w] = Search!Idle
  BY <1>1 DEF SearchInv, Search!TypeOK
<1>4. work' \in [Worker -> Search!Step]
  BY <1>1 DEF SearchInv, Search!TypeOK, Search!Step
<1>5. pump' \in [Pumper -> 0..last]
  BY <1>1 DEF SearchInv, Search!TypeOK
<1>6. Search!TypeOK'
  BY <1>1, <1>2, <1>4, <1>5, WorkerTypes DEF SearchInv, Search!TypeOK
<1> QED
  BY <1>1, <1>2, <1>3, <1>6, UntouchedInv, KeptInv, WorkerMoves DEF SearchInv

\* A lease lapses.
LEMMA LapseStep ==
  ASSUME Search!SearchAssumption, SearchInv, Search!Lapse PROVE SearchInv'
<1>1. Untouched /\ cursor' = cursor /\ pump' = pump /\ work' = work
  BY DEF Untouched, Search!Lapse
<1>2. Kept
  BY LeaseKept DEF Search!Lapse, SearchInv
<1>3. events' \in 0..MaxEvents
  BY DEF Search!Lapse, Search!Happens, SearchInv, Search!TypeOK, Search!SearchAssumption
<1>4. Search!TypeOK'
  BY <1>1, <1>2, <1>3, WorkerTypes DEF SearchInv, Search!TypeOK
<1>5. MadeInv' /\ AheadInv'
  BY <1>1 DEF SearchInv, MadeInv, AheadInv, Holds, Ahead, Untouched
<1> QED
  BY <1>1, <1>2, <1>4, <1>5, UntouchedInv, KeptInv DEF SearchInv

\* A worker takes a job as far as it has come.
LEMMA ClaimStep ==
  ASSUME Search!SearchAssumption, SearchInv, NEW w \in Worker, Search!Claim(w)
  PROVE  SearchInv'
<1>1. PICK s \in DOMAIN jobs :
        /\ jobs' = [jobs EXCEPT ![s].leased = TRUE] /\ ~jobs[s].done
        /\ work' = [work EXCEPT ![w] = [phase |-> "query", job |-> s, row |-> journal[s],
                                        after |-> jobs[s].after]]
  BY DEF Search!Claim, Search!First
<1>2. Untouched /\ cursor' = cursor /\ events' = events /\ pump' = pump
  BY DEF Untouched, Search!Claim
<1>3. Kept
  BY <1>1, LeaseKept DEF SearchInv
<1>4. work'[w] = [phase |-> "query", job |-> s, row |-> journal[s], after |-> jobs[s].after]
  BY <1>1 DEF SearchInv, Search!TypeOK
<1>5. /\ s \in 1..last /\ s \in DOMAIN journal /\ journal[s] \in Search!Row
      /\ jobs[s].after \in 0..AnnotationCount
  BY DEF SearchInv, PassedInv, Search!TypeOK
<1>6. Search!TypeOK'
  <2>1. work' \in [Worker -> Search!Step]
    BY <1>1, <1>5 DEF SearchInv, Search!TypeOK, Search!Step
  <2> QED
    BY <1>2, <1>3, <2>1, WorkerTypes DEF SearchInv, Search!TypeOK
<1>7. \A a \in Search!Annotation : inputs[a] = s => newest[a] >= s \/ a > jobs[s].after
  BY <1>5 DEF SearchInv, PassedInv, Search!Annotation, Search!SearchAssumption
<1>8. MadeInv' /\ AheadInv'
  <2>1. work' = [work EXCEPT ![w] = work'[w]]
    BY <1>1, <1>4
  <2>3. ~Holds(w)'
    BY <1>4 DEF Holds
  <2>2. \A a \in Search!Annotation : inputs[a] = work'[w].job =>
          newest[a] >= work'[w].job \/ Ahead(w, a)'
    BY <1>2, <1>4, <1>7 DEF Ahead, Untouched
  <2> QED
    BY <1>2, <2>1, <2>2, <2>3, WorkerMoves
<1> QED
  BY <1>2, <1>3, <1>6, <1>8, UntouchedInv, KeptInv DEF SearchInv

\* The page: what is not in it comes after it, and then the page is full.
LEMMA Pages ==
  ASSUME NEW n \in Nat, NEW m \in Nat, NEW all \in SUBSET (1..n), NEW a \in all,
         ~(Search!Cardinality({b \in all : b < a}) < m)
  PROVE  /\ Search!Cardinality(all) >= m
         /\ \A p \in all : Search!Cardinality({b \in all : b < p}) < m => p < a
<1> DEFINE Below(x) == {b \in all : b < x}
<1>1. \A S : Search!Cardinality(S) = Cardinality(S)
  BY DEF Search!Cardinality, Cardinality, Search!IsFiniteSet, IsFiniteSet
<1>2. IsFiniteSet(all) /\ all \subseteq Nat
  <2>1. IsFiniteSet(1..n)
    BY FS_Interval
  <2>2. IsFiniteSet(all)
    BY <2>1, FS_Subset
  <2> QED
    BY <2>2
<1>3. \A x : Below(x) \subseteq all
  OBVIOUS
<1>4. \A x : IsFiniteSet(Below(x)) /\ Cardinality(Below(x)) \in Nat
             /\ Cardinality(Below(x)) <= Cardinality(all)
  BY <1>2, <1>3, FS_Subset, FS_CardinalityType
<1>5. Cardinality(all) \in Nat
  BY <1>2, FS_CardinalityType
<1>6. ASSUME NEW p \in all, ~(p < a) PROVE Cardinality(Below(a)) <= Cardinality(Below(p))
  <2>1. \A b \in all : b < a => b < p
    BY <1>2, <1>6
  <2>2. Below(a) \subseteq Below(p)
    BY <2>1
  <2> QED
    BY <1>4, <2>2, FS_Subset
<1> HIDE DEF Below
<1>7. ~(Cardinality(Below(a)) < m)
  BY <1>1 DEF Below
<1>8. Cardinality(all) >= m
  BY <1>4, <1>5, <1>7
<1>9. ASSUME NEW p \in all, Search!Cardinality({b \in all : b < p}) < m PROVE p < a
  <2>1. Cardinality(Below(p)) < m
    BY <1>1, <1>9 DEF Below
  <2> QED
    BY <1>4, <1>6, <1>7, <2>1
<1> QED
  BY <1>1, <1>8, <1>9

\* A worker reads the next page.
LEMMA QueryStep ==
  ASSUME Search!SearchAssumption, SearchInv, NEW w \in Worker, Search!Query(w)
  PROVE  SearchInv'
<1> DEFINE all == {a \in Search!Affects(work[w].row) : a > work[w].after}
           page == {a \in all : Search!Cardinality({b \in all : b < a}) < Limit}
           full == Search!Cardinality(all) >= Limit
           s == work[w].job
<1>1. /\ work' = [work EXCEPT ![w] = [phase |-> "publish", job |-> s, left |-> page, full |-> full]]
      /\ work[w].phase = "query"
  BY DEF Search!Query
<1>2. Untouched /\ cursor' = cursor /\ events' = events /\ pump' = pump /\ jobs' = jobs
  BY DEF Untouched, Search!Query
<1>3. /\ work[w] # Search!Idle /\ s \in 1..last /\ work[w].row \in Search!Row
      /\ work[w].after \in 0..AnnotationCount
  BY <1>1, WorkTypes DEF SearchInv, Search!Idle
<1>4. all \subseteq 1..AnnotationCount /\ AnnotationCount \in Nat /\ Limit \in Nat
  BY DEF Search!Affects, Search!Present, Search!Annotation, Search!SearchAssumption
<1>5. ASSUME NEW a \in Search!Annotation, inputs[a] = s
      PROVE  newest[a] >= s \/ a \in page \/ (full /\ \A b \in page : b < a)
  <2>1. newest[a] >= s \/ (a > work[w].after /\ work[w].row = journal[s])
    BY <1>1, <1>3, <1>5 DEF SearchInv, AheadInv, Ahead
  <2>2. ASSUME a > work[w].after, work[w].row = journal[s] PROVE a \in all
    <3>1. inputs[a] > 0
      BY <1>3, <1>5
    <3>2. journal[s] \in {a, Search!BookRow}
      BY <1>5, <3>1 DEF SearchInv, ChangesInv
    <3> QED
      BY <2>2, <3>1, <3>2 DEF Search!Affects, Search!Present
  <2>3. ASSUME a \in all, a \notin page PROVE full /\ \A b \in page : b < a
    <3>1. ~(Search!Cardinality({b \in all : b < a}) < Limit)
      BY <2>3
    <3>2. all \in SUBSET (1..AnnotationCount)
      BY <1>4
    <3> HIDE DEF all
    <3>3. full /\ \A p \in all : Search!Cardinality({b \in all : b < p}) < Limit => p < a
      BY <1>4, <2>3, <3>1, <3>2, Pages
    <3> QED
      BY <3>3
  <2> HIDE DEF all, page, full
  <2> QED
    BY <2>1, <2>2, <2>3
<1>6. page \subseteq Search!Annotation /\ full \in BOOLEAN
  BY <1>4 DEF Search!Annotation
<1> HIDE DEF all, page, full
<1>7. work'[w] = [phase |-> "publish", job |-> s, left |-> page, full |-> full]
  BY <1>1 DEF SearchInv, Search!TypeOK
<1>8. Search!TypeOK'
  <2>1. work' \in [Worker -> Search!Step]
    <3>1. [phase |-> "publish", job |-> s, left |-> page, full |-> full] \in Search!Step
      BY <1>3, <1>6 DEF Search!Step
    <3> QED
      BY <1>1, <3>1 DEF SearchInv, Search!TypeOK
  <2>2. Kept
    BY <1>2, LeaseKept DEF SearchInv
  <2> QED
    BY <1>2, <2>1, <2>2, WorkerTypes DEF SearchInv, Search!TypeOK
<1>9. MadeInv' /\ AheadInv'
  <2>1. work' = [work EXCEPT ![w] = work'[w]]
    BY <1>1, <1>7
  <2>3. ~Holds(w)'
    BY <1>7 DEF Holds
  <2>2. \A a \in Search!Annotation : inputs[a] = work'[w].job =>
          newest[a] >= work'[w].job \/ Ahead(w, a)'
    BY <1>5, <1>7 DEF Ahead
  <2> QED
    BY <1>2, <2>1, <2>2, <2>3, WorkerMoves
<1>10. PassedInv' /\ HandedInv'
  BY <1>2 DEF SearchInv, PassedInv, HandedInv, Untouched
<1> QED
  BY <1>2, <1>8, <1>9, <1>10, UntouchedInv DEF SearchInv

\* A snapshot of the next annotation shows it as it is now.
LEMMA SnapshotStep ==
  ASSUME Search!SearchAssumption, SearchInv, NEW w \in Worker, Search!Snapshot(w)
  PROVE  SearchInv'
<1> DEFINE s == work[w].job
<1>1. PICK a \in Search!First(work[w].left) :
        work' = [work EXCEPT ![w] =
          [phase |-> "made", job |-> s, left |-> work[w].left \ {a}, full |-> work[w].full, at |-> a,
           made |-> [of |-> IF a \in ready THEN inputs[a] ELSE 0,
                     revision |-> IF DOMAIN journal = {} THEN 0 ELSE last]]]
  BY DEF Search!Snapshot
<1> DEFINE of == IF a \in ready THEN inputs[a] ELSE 0
           rev == IF DOMAIN journal = {} THEN 0 ELSE last
           made == [of |-> of, revision |-> rev]
           rest == work[w].left \ {a}
<1>2. Untouched /\ cursor' = cursor /\ events' = events /\ pump' = pump /\ jobs' = jobs
      /\ work[w].phase = "publish"
  BY DEF Untouched, Search!Snapshot
<1>3. /\ work[w] # Search!Idle /\ s \in 1..last /\ work[w].left \subseteq Search!Annotation
      /\ work[w].full \in BOOLEAN /\ last \in Nat /\ Search!Annotation \subseteq Nat
  BY <1>2, WorkTypes DEF SearchInv, Search!Idle, Search!TypeOK, Search!Annotation
<1>4. a \in work[w].left /\ a \in Search!Annotation /\ \A b \in rest : a < b
  <2>1. a \in work[w].left /\ \A b \in work[w].left : a <= b
    BY DEF Search!First
  <2>2. a \in Search!Annotation /\ a \in Nat
    BY <1>3, <2>1
  <2>3. ASSUME NEW b \in rest PROVE a < b
    <3>1. b \in Nat /\ a <= b /\ a # b
      BY <1>3, <2>1, <2>3
    <3> QED
      BY <2>2, <3>1
  <2> QED
    BY <2>1, <2>2, <2>3
<1>5. of \in 0..last /\ rev \in 0..last
  BY <1>3, <1>4 DEF SearchInv, Search!TypeOK
<1>6. inputs[a] > 0 => of = IF a \in ready THEN inputs[a] ELSE 0
  OBVIOUS
<1>7. s \in DOMAIN journal => s <= rev
  BY <1>3
<1>8. work'[w] = [phase |-> "made", job |-> s, left |-> rest, full |-> work[w].full, at |-> a,
                  made |-> made]
  BY <1>1 DEF SearchInv, Search!TypeOK
<1>9. rest \subseteq Search!Annotation /\ rest \cup {a} = work[w].left /\ a \notin rest
  BY <1>3, <1>4
<1>10. made \in Search!Document /\ made.of = of /\ made.revision = rev
  BY <1>5 DEF Search!Document
<1> HIDE DEF of, rev, made, rest
<1>11. Search!TypeOK'
  <2>1. work'[w] \in Search!Step
    BY <1>3, <1>4, <1>8, <1>9, <1>10 DEF Search!Step
  <2>2. work' = [work EXCEPT ![w] = work'[w]]
    BY <1>1, <1>8 DEF of, rev, made, rest
  <2>3. work' \in [Worker -> Search!Step]
    BY <2>1, <2>2 DEF SearchInv, Search!TypeOK
  <2>4. Kept
    BY <1>2, LeaseKept DEF SearchInv
  <2> QED
    BY <1>2, <2>3, <2>4, WorkerTypes DEF SearchInv, Search!TypeOK
<1>12. MadeInv' /\ AheadInv'
  <2>1. work' = [work EXCEPT ![w] = work'[w]]
    BY <1>1, <1>8 DEF of, rev, made, rest
  <2>2. /\ inputs[work'[w].at] > 0 /\ work'[w].made.revision >= inputs[work'[w].at]
             => work'[w].made.of = IF work'[w].at \in ready THEN inputs[work'[w].at] ELSE 0
        /\ \A b \in work'[w].left : work'[w].at < b
        /\ work'[w].job \in DOMAIN journal => work'[w].job <= work'[w].made.revision
    BY <1>4, <1>6, <1>7, <1>8, <1>10
  <2>3. ASSUME NEW x \in Search!Annotation, inputs[x] = work'[w].job
        PROVE  newest[x] >= work'[w].job \/ Ahead(w, x)'
    <3>1. newest[x] >= s \/ x \in work[w].left \/ (work[w].full /\ \A b \in work[w].left : b < x)
      BY <1>2, <1>3, <1>8, <2>3 DEF SearchInv, AheadInv, Ahead
    <3> QED
      BY <1>8, <1>9, <3>1 DEF Ahead
  <2> QED
    BY <1>2, <2>1, <2>2, <2>3, WorkerMoves
<1>13. PassedInv' /\ HandedInv'
  BY <1>2 DEF SearchInv, PassedInv, HandedInv, Untouched
<1> QED
  BY <1>2, <1>11, <1>12, <1>13, UntouchedInv DEF SearchInv

\* A snapshot that no change made stale stays what it is until it is written.
LEMMA CheckedStep ==
  ASSUME Search!SearchAssumption, SearchInv, NEW w \in Worker, Search!CheckCurrent(w)
  PROVE  SearchInv'
<1>1. CASE work' = [work EXCEPT ![w] = Search!Idle]
  BY <1>1, DroppedStep
<1>2. CASE work' = [work EXCEPT ![w].phase = "checked"] /\ jobs' = jobs
  <2>1. Untouched /\ cursor' = cursor /\ events' = events /\ pump' = pump
        /\ work[w].phase = "made"
    BY DEF Untouched, Search!CheckCurrent
  <2>2. /\ work[w] # Search!Idle /\ Holds(w)
        /\ work'[w] = [work[w] EXCEPT !.phase = "checked"]
        /\ work' = [work EXCEPT ![w] = work'[w]]
    BY <1>2, <2>1 DEF Holds, SearchInv, Search!TypeOK, Search!Idle
  <2>3. work[w] \in [phase : {"made", "checked"}, job : 1..last, left : SUBSET Search!Annotation,
                     full : BOOLEAN, at : Search!Annotation, made : Search!Document]
    <3>1. work[w] \in Search!Step
      BY DEF SearchInv, Search!TypeOK
    <3> QED
      BY <2>1, <3>1 DEF Search!Step, Search!Idle
  <2>4. /\ work'[w] \in Search!Step
        /\ work'[w].phase = "checked" /\ work'[w].job = work[w].job /\ work'[w].left = work[w].left
        /\ work'[w].full = work[w].full /\ work'[w].at = work[w].at
        /\ work'[w].made = work[w].made
    BY <2>2, <2>3 DEF Search!Step
  <2>5. Search!TypeOK'
    <3>1. work' \in [Worker -> Search!Step]
      BY <2>2, <2>4 DEF SearchInv, Search!TypeOK
    <3>2. Kept
      BY <1>2, LeaseKept DEF SearchInv
    <3> QED
      BY <2>1, <3>1, <3>2, WorkerTypes DEF SearchInv, Search!TypeOK
  <2>6. MadeInv' /\ AheadInv'
    <3>1. /\ inputs[work'[w].at] > 0 /\ work'[w].made.revision >= inputs[work'[w].at]
               => work'[w].made.of = IF work'[w].at \in ready THEN inputs[work'[w].at] ELSE 0
          /\ \A b \in work'[w].left : work'[w].at < b
          /\ work'[w].job \in DOMAIN journal => work'[w].job <= work'[w].made.revision
      BY <2>2, <2>4 DEF SearchInv, MadeInv
    <3>2. ASSUME NEW x \in Search!Annotation, inputs[x] = work'[w].job
          PROVE  newest[x] >= work'[w].job \/ Ahead(w, x)'
      BY <2>1, <2>2, <2>4, <3>2 DEF SearchInv, AheadInv, Ahead
    <3> QED
      BY <2>1, <2>2, <3>1, <3>2, WorkerMoves
  <2>7. PassedInv' /\ HandedInv'
    BY <1>2, <2>1 DEF SearchInv, PassedInv, HandedInv, Untouched
  <2> QED
    BY <2>1, <2>5, <2>6, <2>7, UntouchedInv DEF SearchInv
<1> QED
  BY <1>1, <1>2 DEF Search!CheckCurrent

\* A publication: what it wrote is current or will be told from what is, and its job
\* has come as far as its annotation.
LEMMA WriteStep ==
  ASSUME Search!SearchAssumption, SearchInv, NEW w \in Worker, Search!Write(w)
  PROVE  SearchInv'
<1> DEFINE s == work[w].job
           at == work[w].at
           made == work[w].made
           left == work[w].left
           full == work[w].full
<1>1. /\ work[w].phase = "checked"
      /\ documents' = [documents EXCEPT ![at] = IF made.of = 0 THEN Search!NoDocument ELSE made]
      /\ newest' = [newest EXCEPT ![at] = IF newest[at] < made.revision THEN made.revision
                                          ELSE newest[at]]
      /\ overtaken' = IF made.revision < newest[at] THEN overtaken \cup {at} ELSE overtaken \ {at}
      /\ jobs' = Search!Updated(s, [jobs[s] EXCEPT !.after = at])
      /\ work' = [work EXCEPT ![w] = [phase |-> "publish", job |-> s, left |-> left, full |-> full]]
      /\ last' = last /\ journal' = journal /\ cursor' = cursor /\ inputs' = inputs
      /\ ready' = ready /\ pump' = pump /\ events' = events
  BY DEF Search!Write, SearchInv, Search!TypeOK
<1>2. /\ work[w] # Search!Idle /\ Holds(w) /\ s \in 1..last /\ left \subseteq Search!Annotation
      /\ full \in BOOLEAN /\ at \in Search!Annotation /\ made \in Search!Document
      /\ made.of \in 0..last /\ made.revision \in 0..last
  BY <1>1, WorkTypes DEF SearchInv, Search!Idle, Holds
<1>3. /\ newest \in [Search!Annotation -> 0..last] /\ last \in Nat
      /\ documents \in [Search!Annotation -> Search!Document] /\ Search!Annotation \subseteq Nat
      /\ inputs \in [Search!Annotation -> 0..last] /\ ready \subseteq Search!Annotation
      /\ work \in [Worker -> Search!Step] /\ jobs \in [DOMAIN jobs -> Job]
  BY DEF SearchInv, Search!TypeOK, Search!Annotation, Job
<1>4. /\ inputs[at] > 0 /\ made.revision >= inputs[at]
           => made.of = IF at \in ready THEN inputs[at] ELSE 0
      /\ \A b \in left : at < b
      /\ s \in DOMAIN journal => s <= made.revision
  BY <1>2 DEF SearchInv, MadeInv
<1>5. /\ newest'[at] >= made.revision /\ newest'[at] >= newest[at]
      /\ newest'[at] \in {newest[at], made.revision}
      /\ \A a \in Search!Annotation : newest'[a] >= newest[a]
      /\ \A a \in Search!Annotation : a # at => newest'[a] = newest[a] /\ documents'[a] = documents[a]
      /\ newest' \in [Search!Annotation -> 0..last]
      /\ documents'[at] = IF made.of = 0 THEN Search!NoDocument ELSE made
  BY <1>1, <1>2, <1>3
<1>6. /\ work'[w] = [phase |-> "publish", job |-> s, left |-> left, full |-> full]
      /\ \A v \in Worker : v # w => work'[v] = work[v]
  BY <1>1, <1>3
<1>7. /\ DOMAIN jobs' = DOMAIN jobs /\ jobs' \in [DOMAIN jobs -> Job]
      /\ \A j \in DOMAIN jobs : j # s => jobs'[j] = jobs[j]
      /\ s \in DOMAIN jobs => jobs'[s].after = at /\ jobs'[s].done = jobs[s].done
  <2>1. at \in 0..AnnotationCount
    BY <1>2 DEF Search!Annotation, Search!SearchAssumption
  <2> QED
    BY <1>1, <1>3, <2>1 DEF Search!Updated, Job
<1>8. \A a \in Search!Annotation : inputs[a] = s =>
        newest'[a] >= s \/ a \in left \/ (full /\ \A b \in left : b < a)
  <2> SUFFICES ASSUME NEW a \in Search!Annotation, inputs[a] = s
               PROVE  newest'[a] >= s \/ a \in left \/ (full /\ \A b \in left : b < a)
    OBVIOUS
  <2>1. newest[a] >= s \/ a \in left \/ a = at \/ (full /\ at < a /\ \A b \in left : b < a)
    BY <1>1, <1>2 DEF SearchInv, AheadInv, Ahead
  <2>2. s \in DOMAIN journal
    BY <1>2 DEF SearchInv, ChangesInv
  <2>3. a = at => newest'[a] >= s
    BY <1>2, <1>3, <1>4, <1>5, <2>2
  <2>4. newest[a] >= s => newest'[a] >= s
    BY <1>2, <1>3, <1>5
  <2> QED
    BY <2>1, <2>3, <2>4
<1>9. \A a \in Search!Annotation : inputs[a] = s /\ a <= at => newest'[a] >= s
  <2> SUFFICES ASSUME NEW a \in Search!Annotation, inputs[a] = s, a <= at
               PROVE  newest'[a] >= s
    OBVIOUS
  <2>1. newest[a] >= s \/ a \in left \/ a = at \/ (full /\ at < a /\ \A b \in left : b < a)
    BY <1>1, <1>2 DEF SearchInv, AheadInv, Ahead
  <2>2. s \in DOMAIN journal
    BY <1>2 DEF SearchInv, ChangesInv
  <2>3. a = at => newest'[a] >= s
    BY <1>2, <1>3, <1>4, <1>5, <2>2
  <2>4. newest[a] >= s => newest'[a] >= s
    BY <1>2, <1>3, <1>5
  <2>5. a \notin left /\ ~(at < a)
    BY <1>2, <1>3, <1>4
  <2> QED
    BY <2>1, <2>3, <2>4, <2>5
<1>10. Search!TypeOK'
  <2>1. Search!Step' = Search!Step /\ Search!Document' = Search!Document
    BY <1>1 DEF Search!Step, Search!Document
  <2>2. work'[w] \in Search!Step
    BY <1>2, <1>6 DEF Search!Step
  <2>3. work' \in [Worker -> Search!Step]
    BY <1>1, <1>3, <1>6, <2>2
  <2>4. documents' \in [Search!Annotation -> Search!Document]
    <3>1. Search!NoDocument \in Search!Document
      BY <1>3 DEF Search!NoDocument, Search!Document
    <3> QED
      BY <1>1, <1>2, <1>3, <3>1
  <2>5. overtaken' \subseteq Search!Annotation
    BY <1>1, <1>2 DEF SearchInv, Search!TypeOK
  <2> HIDE DEF s, at, made, left, full
  <2> QED
    BY <1>1, <1>5, <1>7, <2>1, <2>3, <2>4, <2>5 DEF SearchInv, Search!TypeOK, Job
<1>11. ChangesInv'
  BY <1>1 DEF SearchInv, ChangesInv
<1>12. DocumentInv'
  <2>1. ASSUME NEW a \in Search!Annotation, documents'[a] # Search!NoDocument
        PROVE  /\ documents'[a].of > 0
               /\ inputs[a] > 0 /\ documents'[a].revision >= inputs[a]
                    => a \in ready /\ documents'[a].of = inputs[a]
    <3>1. CASE a # at
      BY <1>5, <2>1, <3>1 DEF SearchInv, DocumentInv
    <3>2. CASE a = at
      BY <1>2, <1>4, <1>5, <2>1, <3>2
    <3> QED
      BY <3>1, <3>2
  <2> QED
    BY <1>1, <2>1 DEF DocumentInv
<1>13. NewestInv'
  <2>1. ASSUME NEW a \in ready, a \notin overtaken', newest'[a] >= inputs[a]
        PROVE  documents'[a] # Search!NoDocument /\ documents'[a].revision = newest'[a]
    <3>1. CASE a # at
      <4>1. a \notin overtaken
        BY <1>1, <2>1, <3>1
      <4> QED
        BY <1>3, <1>5, <2>1, <3>1, <4>1 DEF SearchInv, NewestInv
    <3>2. CASE a = at
      <4>1. ~(made.revision < newest[at])
        BY <1>1, <2>1, <3>2
      <4>2. newest'[at] = made.revision
        BY <1>2, <1>3, <1>5, <4>1
      <4>3. inputs[at] > 0
        BY <2>1, <3>2 DEF SearchInv, ChangesInv
      <4>4. made.of = inputs[at] /\ made.of # 0
        BY <1>2, <1>3, <1>4, <2>1, <3>2, <4>2, <4>3
      <4> QED
        BY <1>5, <3>2, <4>2, <4>4 DEF Search!NoDocument
    <3> QED
      BY <3>1, <3>2
  <2> QED
    BY <1>1, <2>1 DEF NewestInv
<1>14. PassedInv'
  <2>1. ASSUME NEW j \in DOMAIN jobs, NEW a \in Search!Annotation, inputs[a] = j,
               jobs'[j].done \/ a <= jobs'[j].after
        PROVE  newest'[a] >= j
    <3>1. newest[a] >= j => newest'[a] >= j
      <4>1. j \in Nat
        BY DEF SearchInv, Search!TypeOK
      <4> QED
        BY <1>3, <1>5, <4>1
    <3>2. CASE j # s
      BY <1>7, <2>1, <3>1, <3>2 DEF SearchInv, PassedInv
    <3>3. CASE j = s /\ jobs'[j].done
      BY <1>7, <2>1, <3>1, <3>3 DEF SearchInv, PassedInv
    <3>4. CASE j = s /\ a <= jobs'[j].after
      BY <1>7, <1>9, <2>1, <3>4
    <3> QED
      BY <2>1, <3>2, <3>3, <3>4
  <2> QED
    BY <1>1, <1>7, <2>1 DEF SearchInv, PassedInv
<1>15. HandedInv'
  BY <1>1, <1>7 DEF SearchInv, HandedInv
<1>16. MadeInv'
  <2> SUFFICES ASSUME NEW v \in Worker, Holds(v)'
               PROVE  /\ inputs'[work'[v].at] > 0 /\ work'[v].made.revision >= inputs'[work'[v].at]
                           => work'[v].made.of = IF work'[v].at \in ready' THEN inputs'[work'[v].at] ELSE 0
                      /\ \A b \in work'[v].left : work'[v].at < b
                      /\ work'[v].job \in DOMAIN journal' => work'[v].job <= work'[v].made.revision
    BY DEF MadeInv
  <2>1. v # w
    BY <1>6 DEF Holds
  <2> QED
    BY <1>1, <1>6, <2>1 DEF SearchInv, MadeInv, Holds
<1>17. AheadInv'
  <2> SUFFICES ASSUME NEW v \in Worker, NEW a \in Search!Annotation, work'[v] # Search!Idle,
                      inputs'[a] = work'[v].job
               PROVE  newest'[a] >= work'[v].job \/ Ahead(v, a)'
    BY DEF AheadInv
  <2>1. CASE v = w
    BY <1>1, <1>6, <1>8, <2>1 DEF Ahead
  <2>2. CASE v # w
    <3>1. newest[a] >= work[v].job \/ Ahead(v, a)
      BY <1>1, <1>6, <2>2 DEF SearchInv, AheadInv
    <3>2. newest[a] >= work[v].job => newest'[a] >= work'[v].job
      <4>1. inputs[a] = work[v].job /\ inputs[a] \in Nat /\ newest[a] \in Nat /\ newest'[a] \in Nat
        BY <1>1, <1>3, <1>5, <1>6, <2>2
      <4> QED
        BY <1>5, <1>6, <2>2, <4>1
    <3>3. Ahead(v, a) => Ahead(v, a)'
      BY <1>1, <1>6, <2>2 DEF Ahead
    <3> QED
      BY <3>1, <3>2, <3>3
  <2> QED
    BY <2>1, <2>2
<1> QED
  BY <1>10, <1>11, <1>12, <1>13, <1>14, <1>15, <1>16, <1>17 DEF SearchInv

\* A worker gives its job back, done if its page was the last one.
LEMMA FinishStep ==
  ASSUME Search!SearchAssumption, SearchInv, NEW w \in Worker, Search!Finish(w)
  PROVE  SearchInv'
<1> DEFINE s == work[w].job
<1>1. /\ work[w].phase = "publish" /\ work[w].left = {}
      /\ jobs' = Search!Updated(s, [jobs[s] EXCEPT !.leased = FALSE, !.done = @ \/ ~work[w].full])
      /\ work' = [work EXCEPT ![w] = Search!Idle]
      /\ Untouched /\ cursor' = cursor /\ events' = events /\ pump' = pump
  BY DEF Search!Finish, Untouched
<1>2. /\ work[w] # Search!Idle /\ s \in 1..last /\ work[w].full \in BOOLEAN
      /\ jobs \in [DOMAIN jobs -> Job]
  BY <1>1, WorkTypes DEF SearchInv, Search!Idle, Search!TypeOK, Job
<1>3. /\ DOMAIN jobs' = DOMAIN jobs /\ jobs' \in [DOMAIN jobs -> Job]
      /\ \A j \in DOMAIN jobs : jobs'[j].after = jobs[j].after
      /\ \A j \in DOMAIN jobs : jobs'[j].done => jobs[j].done \/ (j = s /\ ~work[w].full)
  BY <1>1, <1>2 DEF Search!Updated, Job
<1>4. work'[w] = Search!Idle /\ work' = [work EXCEPT ![w] = work'[w]]
      /\ work' \in [Worker -> Search!Step]
  BY <1>1 DEF SearchInv, Search!TypeOK, Search!Step
<1>5. Search!TypeOK'
  <2>1. Search!Step' = Search!Step /\ Search!Document' = Search!Document
    BY <1>1 DEF Search!Step, Search!Document, Untouched
  <2> QED
    BY <1>1, <1>3, <1>4, <2>1 DEF SearchInv, Search!TypeOK, Untouched, Job
<1>6. PassedInv'
  <2>1. ASSUME NEW j \in DOMAIN jobs, NEW a \in Search!Annotation, inputs[a] = j,
               jobs'[j].done \/ a <= jobs'[j].after
        PROVE  newest[a] >= j
    <3>1. CASE jobs[j].done \/ a <= jobs[j].after
      BY <2>1, <3>1 DEF SearchInv, PassedInv
    <3>2. CASE j = s /\ ~work[w].full
      BY <1>1, <1>2, <2>1, <3>2 DEF SearchInv, AheadInv, Ahead
    <3> QED
      BY <1>3, <2>1, <3>1, <3>2
  <2> QED
    BY <1>1, <1>3, <2>1 DEF SearchInv, PassedInv, Untouched
<1>7. HandedInv'
  BY <1>1, <1>3 DEF SearchInv, HandedInv, Untouched
<1>8. MadeInv' /\ AheadInv'
  BY <1>1, <1>4, WorkerMoves
<1> QED
  BY <1>1, <1>5, <1>6, <1>7, <1>8, UntouchedInv DEF SearchInv

\* An annotation the last step did not touch.
Same(a) == inputs'[a] = inputs[a] /\ (a \in ready' <=> a \in ready)

\* The others are newer than anything published, being published, or with a job.
LEMMA MirrorsMove ==
  ASSUME SearchInv, Search!TypeOK', ChangesInv', last <= last',
         \A a \in Search!Annotation : inputs'[a] = 0 \/ inputs'[a] > last \/ Same(a),
         \A s \in DOMAIN journal' : s <= last => s \in DOMAIN journal /\ journal'[s] = journal[s],
         work' = work
  PROVE  /\ MadeInv'
         /\ newest' = newest => AheadInv'
         /\ documents' = documents => DocumentInv'
         /\ (documents' = documents /\ newest' = newest /\ overtaken' = overtaken) => NewestInv'
         /\ (jobs' = jobs /\ newest' = newest /\ DOMAIN jobs \subseteq DOMAIN journal') => PassedInv'
<1>1. /\ last \in Nat /\ last' \in Nat /\ Search!Annotation \subseteq Nat
      /\ inputs \in [Search!Annotation -> 0..last] /\ inputs' \in [Search!Annotation -> 0..last']
      /\ newest \in [Search!Annotation -> 0..last] /\ ready' \subseteq Search!Annotation
      /\ documents \in [Search!Annotation -> Search!Document]
  BY DEF SearchInv, Search!TypeOK, Search!Annotation
<1>0. \A a \in Search!Annotation :
        inputs[a] \in Nat /\ inputs'[a] \in Nat /\ newest[a] \in Nat /\ newest[a] <= last
  BY <1>1
<1>2. MadeInv'
  <2> SUFFICES ASSUME NEW v \in Worker, Holds(v)
               PROVE  /\ inputs'[work[v].at] > 0 /\ work[v].made.revision >= inputs'[work[v].at]
                           => work[v].made.of = IF work[v].at \in ready' THEN inputs'[work[v].at] ELSE 0
                      /\ \A b \in work[v].left : work[v].at < b
                      /\ work[v].job \in DOMAIN journal' => work[v].job <= work[v].made.revision
    BY DEF MadeInv, Holds
  <2>1. /\ work[v].at \in Search!Annotation /\ work[v].made.revision \in 0..last
        /\ work[v].job \in 1..last
    BY WorkTypes DEF SearchInv, Holds, Search!Idle
  <2>2. PICK at \in Search!Annotation, rev \in 0..last :
          at = work[v].at /\ rev = work[v].made.revision
    BY <2>1
  <2>3. /\ inputs[at] > 0 /\ rev >= inputs[at]
             => work[v].made.of = IF at \in ready THEN inputs[at] ELSE 0
        /\ \A b \in work[v].left : at < b
        /\ work[v].job \in DOMAIN journal => work[v].job <= rev
    BY <2>2 DEF SearchInv, MadeInv
  <2>4. work[v].job \in DOMAIN journal' => work[v].job \in DOMAIN journal
    BY <1>1, <2>1
  <2>5. inputs'[at] \in Nat /\ rev \in Nat /\ rev <= last
    BY <1>0, <1>1
  <2>6. ASSUME inputs'[at] > 0, rev >= inputs'[at]
        PROVE  work[v].made.of = IF at \in ready' THEN inputs'[at] ELSE 0
    <3>1. Same(at)
      BY <1>1, <2>5, <2>6
    <3> QED
      BY <2>3, <2>6, <3>1 DEF Same
  <2> QED
    BY <2>2, <2>3, <2>4, <2>6
<1>3. ASSUME newest' = newest PROVE AheadInv'
  <2> SUFFICES ASSUME NEW v \in Worker, NEW a \in Search!Annotation, work[v] # Search!Idle,
                      inputs'[a] = work[v].job
               PROVE  newest[a] >= work[v].job \/ Ahead(v, a)'
    BY <1>3 DEF AheadInv
  <2>1. work[v].job \in 1..last
    BY WorkTypes DEF SearchInv
  <2>2. inputs[a] = work[v].job
    BY <1>1, <2>1 DEF Same
  <2>3. newest[a] >= work[v].job \/ Ahead(v, a)
    BY <2>2 DEF SearchInv, AheadInv
  <2>4. journal'[work[v].job] = journal[work[v].job]
    BY <1>1, <2>1 DEF ChangesInv
  <2> QED
    BY <2>3, <2>4 DEF Ahead
<1>4. ASSUME documents' = documents PROVE DocumentInv'
  <2>1. ASSUME NEW a \in Search!Annotation, documents[a] # Search!NoDocument
        PROVE  /\ documents[a].of > 0
               /\ inputs'[a] > 0 /\ documents[a].revision >= inputs'[a]
                    => a \in ready' /\ documents[a].of = inputs'[a]
    <3>1. documents[a].revision \in 0..last
      BY <1>1 DEF Search!Document
    <3>2. CASE Same(a)
      BY <2>1, <3>2 DEF SearchInv, DocumentInv, Same
    <3>3. CASE inputs'[a] = 0 \/ inputs'[a] > last
      BY <1>1, <2>1, <3>1, <3>3 DEF SearchInv, DocumentInv
    <3> QED
      BY <3>2, <3>3
  <2> QED
    BY <1>4, <2>1 DEF DocumentInv
<1>5. ASSUME documents' = documents, newest' = newest, overtaken' = overtaken PROVE NewestInv'
  <2>1. ASSUME NEW a \in ready', a \notin overtaken, newest[a] >= inputs'[a]
        PROVE  documents[a] # Search!NoDocument /\ documents[a].revision = newest[a]
    <3>1. /\ a \in Search!Annotation /\ inputs'[a] > 0 /\ inputs'[a] \in Nat /\ newest[a] \in Nat
          /\ newest[a] <= last /\ last \in Nat
      BY <1>0, <1>1, <2>1 DEF ChangesInv
    <3>2. Same(a)
      BY <2>1, <3>1
    <3> QED
      BY <2>1, <3>2 DEF SearchInv, NewestInv, Same
  <2> QED
    BY <1>5, <2>1 DEF NewestInv
<1>6. ASSUME jobs' = jobs, newest' = newest, DOMAIN jobs \subseteq DOMAIN journal' PROVE PassedInv'
  <2>1. ASSUME NEW s \in DOMAIN jobs, NEW a \in Search!Annotation, inputs'[a] = s PROVE inputs[a] = s
    <3>1. s \in 1..last
      BY DEF SearchInv, Search!TypeOK
    <3> QED
      BY <1>1, <2>1, <3>1 DEF Same
  <2> QED
    BY <1>6, <2>1 DEF SearchInv, PassedInv
<1> QED
  BY <1>2, <1>3, <1>4, <1>5, <1>6

\* A drain stores a row.
LEMMA ChangeStep ==
  ASSUME Search!SearchAssumption, SearchInv, Search!Change
  PROVE  SearchInv'
<1>1. PICK row \in Search!Row :
        /\ journal' = [s \in DOMAIN journal \cup {last + 1} |->
                        IF s = last + 1 THEN row ELSE journal[s]]
        /\ inputs' = [a \in Search!Annotation |->
                        IF row = a \/ a \in Search!Affects(row) THEN last + 1 ELSE inputs[a]]
        /\ IF row = Search!BookRow THEN UNCHANGED ready
           ELSE \E shown \in BOOLEAN : ready' = IF shown THEN ready \cup {row} ELSE ready \ {row}
  BY DEF Search!Change
<1>2. /\ last' = last + 1 /\ cursor' = cursor /\ jobs' = jobs /\ documents' = documents
      /\ pump' = pump /\ work' = work /\ newest' = newest /\ overtaken' = overtaken
      /\ events' \in 0..MaxEvents
  BY DEF Search!Change, Search!Happens, SearchInv, Search!TypeOK, Search!SearchAssumption
<1>3. /\ last \in Nat /\ DOMAIN journal \subseteq 1..last /\ Search!Annotation \subseteq Nat \ {0}
      /\ inputs \in [Search!Annotation -> 0..last] /\ ready \subseteq Search!Annotation
      /\ journal \in [DOMAIN journal -> Search!Row]
  BY DEF SearchInv, Search!TypeOK, Search!Annotation
<1> DEFINE Touched(a) == row = a \/ (row = Search!BookRow /\ inputs[a] > 0)
<1>4. /\ \A a \in Search!Annotation : inputs'[a] = IF Touched(a) THEN last + 1 ELSE inputs[a]
      /\ inputs' \in [Search!Annotation -> 0..last + 1]
      /\ \A a \in Search!Annotation : a # row => (a \in ready' <=> a \in ready)
      /\ ready' \subseteq Search!Annotation
  <2>1. \A a \in Search!Annotation : (row = a \/ a \in Search!Affects(row)) <=> Touched(a)
    BY <1>3 DEF Search!Affects, Search!Present, Search!BookRow
  <2>2. \A a \in Search!Annotation : inputs'[a] = IF Touched(a) THEN last + 1 ELSE inputs[a]
    BY <1>1, <2>1
  <2>3. inputs' \in [Search!Annotation -> 0..last + 1]
    BY <1>1, <1>3
  <2>4. /\ \A a \in Search!Annotation : a # row => (a \in ready' <=> a \in ready)
        /\ ready' \subseteq Search!Annotation
    BY <1>1, <1>3 DEF Search!Row
  <2> QED
    BY <2>2, <2>3, <2>4
<1>5. /\ DOMAIN journal' = DOMAIN journal \cup {last + 1} /\ journal'[last + 1] = row
      /\ \A s \in DOMAIN journal : journal'[s] = journal[s] /\ s <= last
  BY <1>1, <1>3
<1> HIDE DEF Touched
<1>6. Search!TypeOK'
  <2>1. Search!Step \subseteq Search!Step' /\ Search!Document \subseteq Search!Document'
    BY <1>2, <1>3, StepsGrow
  <2>2. DOMAIN journal' \subseteq 1..last' /\ journal' \in [DOMAIN journal' -> Search!Row]
    <3>1. DOMAIN journal' \subseteq 1..last'
      BY <1>2, <1>3, <1>5
    <3>2. journal' \in [DOMAIN journal' -> Search!Row]
      BY <1>1, <1>3, <1>5
    <3> QED
      BY <3>1, <3>2
  <2>3. /\ cursor' \in 0..last' /\ DOMAIN jobs' \subseteq 1..last' /\ pump' \in [Pumper -> 0..last']
        /\ newest' \in [Search!Annotation -> 0..last'] /\ last' \in Nat
        /\ inputs' \in [Search!Annotation -> 0..last']
    <3>1. 0..last \subseteq 0..last' /\ 1..last \subseteq 1..last' /\ last' \in Nat
      BY <1>2, <1>3
    <3>2. cursor \in 0..last /\ DOMAIN jobs \subseteq 1..last /\ pump \in [Pumper -> 0..last]
          /\ newest \in [Search!Annotation -> 0..last]
      BY DEF SearchInv, Search!TypeOK
    <3> QED
      BY <1>2, <1>4, <3>1, <3>2
  <2>4. documents' \in [Search!Annotation -> Search!Document'] /\ work' \in [Worker -> Search!Step']
    BY <1>2, <2>1 DEF SearchInv, Search!TypeOK
  <2> QED
    BY <1>2, <1>4, <2>2, <2>3, <2>4 DEF SearchInv, Search!TypeOK
<1>7. ChangesInv'
  <2>1. ASSUME NEW a \in ready' PROVE inputs'[a] > 0
    BY <1>3, <1>4 DEF SearchInv, ChangesInv, Touched
  <2>2. ASSUME NEW a \in Search!Annotation, inputs'[a] > 0
        PROVE  /\ inputs'[a] \in DOMAIN journal' /\ journal'[inputs'[a]] \in {a, Search!BookRow}
               /\ \A s \in DOMAIN journal' : journal'[s] \in {a, Search!BookRow} => s <= inputs'[a]
    <3>1. CASE Touched(a)
      BY <1>3, <1>4, <1>5, <3>1 DEF Touched
    <3>2. CASE ~Touched(a)
      <4>1. inputs'[a] = inputs[a] /\ row \notin {a, Search!BookRow}
        BY <1>4, <2>2, <3>2 DEF Touched
      <4> QED
        BY <1>5, <2>2, <4>1 DEF SearchInv, ChangesInv
    <3> QED
      BY <3>1, <3>2
  <2> QED
    BY <2>1, <2>2 DEF ChangesInv
<1>8. \A a \in Search!Annotation : inputs'[a] = 0 \/ inputs'[a] > last \/ Same(a)
  BY <1>3, <1>4 DEF Same, Touched
<1>9. \A s \in DOMAIN journal' : s <= last => s \in DOMAIN journal /\ journal'[s] = journal[s]
  BY <1>3, <1>5
<1>10. DOMAIN jobs \subseteq DOMAIN journal' /\ last <= last'
  BY <1>2, <1>3, <1>5 DEF SearchInv, PassedInv
<1>11. MadeInv' /\ AheadInv' /\ DocumentInv' /\ NewestInv' /\ PassedInv'
  BY <1>2, <1>6, <1>7, <1>8, <1>9, <1>10, MirrorsMove
<1>12. HandedInv'
  <2>1. cursor \in 0..last /\ pump \in [Pumper -> 0..last]
    BY DEF SearchInv, Search!TypeOK
  <2> QED
    BY <1>2, <1>3, <1>5, <2>1 DEF SearchInv, HandedInv
<1> QED
  BY <1>6, <1>7, <1>11, <1>12 DEF SearchInv

\* A restore replaces the library, its journal and the index.
LEMMA RestoreStep ==
  ASSUME Search!SearchAssumption, SearchInv, Search!Restore
  PROVE  SearchInv'
<1>0. PICK n \in 0..AnnotationCount : \E rows \in Search!Injection(1..n, Search!Annotation) :
        /\ last' = last + n
        /\ journal' = [s \in (last + 1)..(last + n) |-> rows[s - last]]
        /\ inputs' = [a \in Search!Annotation |->
             IF a \in Search!Range(rows) THEN last + CHOOSE i \in 1..n : rows[i] = a ELSE 0]
        /\ ready' = Search!Range(rows)
  BY DEF Search!Restore
<1>1. PICK rows \in Search!Injection(1..n, Search!Annotation) :
        /\ last' = last + n
        /\ journal' = [s \in (last + 1)..(last + n) |-> rows[s - last]]
        /\ inputs' = [a \in Search!Annotation |->
             IF a \in Search!Range(rows) THEN last + CHOOSE i \in 1..n : rows[i] = a ELSE 0]
        /\ ready' = Search!Range(rows)
  BY <1>0
<1>2. /\ cursor' = 0 /\ jobs' = <<>> /\ pump' = pump /\ work' = work
      /\ documents' = [a \in Search!Annotation |-> Search!NoDocument]
      /\ newest' = [a \in Search!Annotation |-> 0] /\ overtaken' = {}
      /\ events' \in 0..MaxEvents
  BY DEF Search!Restore, Search!Happens, SearchInv, Search!TypeOK, Search!SearchAssumption
<1>3. /\ last \in Nat /\ n \in Nat /\ Search!Annotation \subseteq Nat \ {0}
      /\ rows \in [1..n -> Search!Annotation]
      /\ \A i \in 1..n, j \in 1..n : rows[i] = rows[j] => i = j
      /\ \A a : a \in Search!Range(rows) <=> \E i \in 1..n : rows[i] = a
  BY DEF SearchInv, Search!TypeOK, Search!Annotation, Search!SearchAssumption,
         Search!Injection, Search!IsInjective, Search!Range
<1>4. \A a \in Search!Annotation :
        IF a \in ready' THEN \E i \in 1..n : rows[i] = a /\ inputs'[a] = last + i
        ELSE inputs'[a] = 0
  <2> SUFFICES ASSUME NEW a \in Search!Annotation
               PROVE  IF a \in ready' THEN \E i \in 1..n : rows[i] = a /\ inputs'[a] = last + i
                      ELSE inputs'[a] = 0
    OBVIOUS
  <2>1. CASE a \notin ready'
    BY <1>1, <2>1
  <2>2. CASE a \in ready'
    <3> DEFINE place == CHOOSE i \in 1..n : rows[i] = a
    <3>1. place \in 1..n /\ rows[place] = a
      BY <1>1, <1>3, <2>2
    <3>2. inputs'[a] = last + place
      BY <1>1, <2>2
    <3> QED
      BY <2>2, <3>1, <3>2
  <2> QED
    BY <2>1, <2>2
<1>5. /\ DOMAIN journal' = (last + 1)..(last + n)
      /\ \A i \in 1..n : last + i \in DOMAIN journal' /\ journal'[last + i] = rows[i]
      /\ \A s \in DOMAIN journal' : s - last \in 1..n /\ journal'[s] = rows[s - last]
  <2>1. \A i \in 1..n : last + i \in (last + 1)..(last + n) /\ (last + i) - last = i
    BY <1>3
  <2>2. \A s \in (last + 1)..(last + n) : s - last \in 1..n
    BY <1>3
  <2> QED
    BY <1>1, <2>1, <2>2
<1>6. ready' \subseteq Search!Annotation
  BY <1>1, <1>3
<1>7. Search!TypeOK'
  <2>1. last' \in Nat /\ last <= last'
    BY <1>1, <1>3
  <2>2. Search!Step \subseteq Search!Step' /\ Search!Document \subseteq Search!Document'
    BY <1>3, <2>1, StepsGrow
  <2>3. /\ DOMAIN journal' \subseteq 1..last' /\ journal' \in [DOMAIN journal' -> Search!Row]
    <3>1. DOMAIN journal' \subseteq 1..last'
      BY <1>1, <1>3, <1>5
    <3>2. \A s \in DOMAIN journal' : journal'[s] \in Search!Row
      BY <1>3, <1>5 DEF Search!Row
    <3>3. journal' = [s \in DOMAIN journal' |-> journal'[s]]
      BY <1>1
    <3> QED
      BY <3>1, <3>2, <3>3
  <2>4. inputs' \in [Search!Annotation -> 0..last']
    <3>1. \A a \in Search!Annotation : inputs'[a] \in 0..last'
      BY <1>1, <1>3, <1>4
    <3>2. inputs' = [a \in Search!Annotation |-> inputs'[a]]
      BY <1>1
    <3> QED
      BY <3>1, <3>2
  <2>5. /\ DOMAIN jobs' = {} /\ jobs' \in [DOMAIN jobs' -> Job]
    BY <1>2
  <2>6. documents' \in [Search!Annotation -> Search!Document']
    BY <1>2, <2>1 DEF Search!NoDocument, Search!Document
  <2>7. pump' \in [Pumper -> 0..last'] /\ work' \in [Worker -> Search!Step']
    <3>1. 0..last \subseteq 0..last'
      BY <1>3, <2>1
    <3> QED
      BY <1>2, <2>2, <3>1 DEF SearchInv, Search!TypeOK
  <2>8. newest' \in [Search!Annotation -> 0..last'] /\ cursor' \in 0..last'
    BY <1>2, <2>1
  <2> QED
    BY <1>2, <1>6, <2>1, <2>3, <2>4, <2>5, <2>6, <2>7, <2>8 DEF Search!TypeOK, Job
<1>8. ChangesInv'
  <2>1. \A a \in ready' : inputs'[a] > 0
    BY <1>3, <1>4, <1>6
  <2>2. ASSUME NEW a \in Search!Annotation, inputs'[a] > 0
        PROVE  /\ inputs'[a] \in DOMAIN journal' /\ journal'[inputs'[a]] \in {a, Search!BookRow}
               /\ \A s \in DOMAIN journal' : journal'[s] \in {a, Search!BookRow} => s <= inputs'[a]
    <3>1. PICK i \in 1..n : rows[i] = a /\ inputs'[a] = last + i
      BY <1>4, <2>2
    <3>2. ASSUME NEW s \in DOMAIN journal', journal'[s] \in {a, Search!BookRow}
          PROVE  s <= inputs'[a]
      <4>1. s - last \in 1..n /\ journal'[s] = rows[s - last] /\ s \in Int
        BY <1>3, <1>5
      <4>2. rows[s - last] = a
        BY <1>3, <3>2, <4>1 DEF Search!BookRow
      <4>3. s - last = i
        BY <1>3, <3>1, <4>1, <4>2
      <4> QED
        BY <1>3, <3>1, <4>1, <4>3
    <3> QED
      BY <1>5, <3>1, <3>2
  <2> QED
    BY <2>1, <2>2 DEF ChangesInv
<1>9. \A a \in Search!Annotation : inputs'[a] = 0 \/ inputs'[a] > last
  BY <1>3, <1>4
<1>10. \A s \in DOMAIN journal' : s > last
  BY <1>3, <1>5
<1>11. last <= last' /\ \A s \in DOMAIN journal' : ~(s <= last)
  BY <1>1, <1>3, <1>5, <1>10
<1>12. MadeInv'
  BY <1>2, <1>7, <1>8, <1>9, <1>11, MirrorsMove
<1>13. AheadInv'
  <2>1. ASSUME NEW v \in Worker, NEW a \in Search!Annotation, work[v] # Search!Idle
        PROVE  inputs'[a] # work[v].job
    <3>1. work[v].job \in 1..last
      BY <2>1, WorkTypes DEF SearchInv
    <3> QED
      BY <1>3, <1>9, <3>1
  <2> QED
    BY <1>2, <2>1 DEF AheadInv
<1>14. DocumentInv' /\ NewestInv' /\ PassedInv'
  <2>1. DocumentInv'
    BY <1>2 DEF DocumentInv
  <2>2. NewestInv'
    <3>1. \A a \in ready' : newest'[a] = 0 /\ inputs'[a] > 0 /\ inputs'[a] \in Nat
      BY <1>2, <1>6, <1>7, <1>8 DEF ChangesInv, Search!TypeOK
    <3> QED
      BY <3>1 DEF NewestInv
  <2>3. PassedInv'
    BY <1>2 DEF PassedInv
  <2> QED
    BY <2>1, <2>2, <2>3
<1>15. HandedInv'
  <2>1. \A p \in Pumper : pump[p] \in 0..last
    BY DEF SearchInv, Search!TypeOK
  <2>2. \A s \in DOMAIN journal' : s \in Int
    BY <1>3, <1>5
  <2> QED
    BY <1>2, <1>3, <1>10, <2>1, <2>2 DEF HandedInv
<1> QED
  BY <1>7, <1>8, <1>12, <1>13, <1>14, <1>15 DEF SearchInv

\* Every step keeps the invariant.
LEMMA SearchNext ==
  ASSUME Search!SearchAssumption, SearchInv, Search!Next PROVE SearchInv'
<1>1. CASE Search!Change \/ Search!Restore \/ Search!Lapse
  BY <1>1, ChangeStep, RestoreStep, LapseStep
<1>2. ASSUME NEW w \in Pumper, Search!Schedule(w) \/ Search!Complete(w) PROVE SearchInv'
  BY <1>2, ScheduleStep, CompleteStep
<1>3. ASSUME NEW w \in Worker,
             Search!Claim(w) \/ Search!Query(w) \/ Search!Snapshot(w) \/ Search!CheckCurrent(w)
      PROVE  SearchInv'
  BY <1>3, ClaimStep, QueryStep, SnapshotStep, CheckedStep
<1>4. ASSUME NEW w \in Worker,
             Search!Write(w) \/ Search!Finish(w) \/ Search!Fail(w) \/ Search!Crash(w)
      PROVE  SearchInv'
  BY <1>4, WriteStep, FinishStep, DroppedStep
<1> QED
  BY <1>1, <1>2, <1>3, <1>4 DEF Search!Next

\* A step that changes nothing.
LEMMA SearchStutter == ASSUME SearchInv, UNCHANGED Search!svars PROVE SearchInv'
<1>1. Search!Step' = Search!Step /\ Search!Document' = Search!Document
  BY DEF Search!svars, Search!Step, Search!Document
<1>2. Search!TypeOK'
  BY <1>1 DEF Search!svars, SearchInv, Search!TypeOK
<1>3. Untouched /\ Kept /\ cursor' = cursor /\ pump' = pump /\ work' = work
  BY LeaseKept DEF Search!svars, Untouched, SearchInv
<1>4. MadeInv' /\ AheadInv'
  BY <1>3 DEF Untouched, SearchInv, MadeInv, AheadInv, Holds, Ahead
<1> QED
  BY <1>2, <1>3, <1>4, UntouchedInv, KeptInv DEF SearchInv

\* What the invariant is for.
LEMMA SearchShows == ASSUME SearchInv PROVE SearchCurrent
<1>1. /\ last \in Nat /\ inputs \in [Search!Annotation -> 0..last]
      /\ documents \in [Search!Annotation -> Search!Document]
      /\ DOMAIN journal \subseteq 1..last /\ ready \subseteq Search!Annotation
  BY DEF SearchInv, Search!TypeOK
<1>2. ASSUME NEW a \in Search!Annotation PROVE documents[a].revision \in Nat
  BY <1>1 DEF Search!Document
<1>3. Search!ShownIsCurrent
  <2> SUFFICES ASSUME NEW a \in Search!Annotation, Search!Shown(a)
               PROVE  a \in ready /\ documents[a].of = inputs[a]
    BY DEF Search!ShownIsCurrent
  <2>1. /\ documents[a] # Search!NoDocument /\ inputs[a] > 0
        /\ ~Search!Dirty(a, documents[a].revision)
    BY DEF Search!Shown, Search!Present
  <2>2. documents[a].revision >= inputs[a]
    BY <1>1, <1>2, <2>1 DEF SearchInv, ChangesInv, Search!Dirty, Search!Present
  <2> QED
    BY <2>1, <2>2 DEF SearchInv, DocumentInv
<1>4. Search!IndexedWhenDone
  <2> SUFFICES ASSUME \A s \in DOMAIN journal : s <= cursor,
                      \A s \in DOMAIN jobs : jobs[s].done,
                      NEW a \in ready \ overtaken
               PROVE  Search!Shown(a)
    BY DEF Search!IndexedWhenDone
  <2>1. a \in Search!Annotation /\ inputs[a] > 0 /\ inputs[a] \in DOMAIN journal
    BY <1>1 DEF SearchInv, ChangesInv
  <2>2. inputs[a] \in DOMAIN jobs
    BY <2>1 DEF SearchInv, HandedInv
  <2>3. newest[a] >= inputs[a]
    BY <2>1, <2>2 DEF SearchInv, PassedInv
  <2>4. documents[a] # Search!NoDocument /\ documents[a].revision = newest[a]
    BY <2>3 DEF SearchInv, NewestInv
  <2>5. ~Search!Dirty(a, documents[a].revision)
    BY <1>1, <1>2, <2>1, <2>3, <2>4 DEF SearchInv, ChangesInv, Search!Dirty
  <2> QED
    BY <2>1, <2>4, <2>5 DEF Search!Shown, Search!Present
<1> QED
  BY <1>3, <1>4 DEF SearchInv, SearchCurrent

\* A search shows an annotation as it is, and finds all of them when the jobs are
\* done, but for those an overtaken publication wrote last
\* (readersearch/store.go:37-209).
THEOREM SearchStaysCurrent == Search!Spec => []SearchCurrent
<1>1. Search!Init => SearchInv
  BY BooksAssumption, SearchInit
<1>2. SearchInv /\ [Search!Next]_Search!svars => SearchInv'
  BY BooksAssumption, SearchNext, SearchStutter
<1>3. SearchInv => SearchCurrent
  BY SearchShows
<1> QED
  BY <1>1, <1>2, <1>3, PTL DEF Search!Spec

-----------------------------------------------------------------------------
(* What readers write about books.                                          *)

\* What any order of settling keeps: a mirror holds an op of its key, one no applied
\* op of that key beats; an op is applied only if all the ops together make it, and
\* quarantined only if they do not.
Sane(m, st) ==
  /\ m \in [Reader!Key -> Authored \cup {NoRow}] /\ st \in [Authored -> Reader!States]
  /\ \A k \in Reader!Key : m[k] # NoRow =>
       m[k] \in Authored /\ Reader!KeyOf(m[k]) = k /\ st[m[k]] = "applied"
  /\ \A o \in Authored :
       /\ st[o] = "applied" =>
            /\ o \in Reader!Sound
            /\ m[Reader!KeyOf(o)] # NoRow /\ o.at <= m[Reader!KeyOf(o)].at
       /\ st[o] = "quarantined" => o \notin Reader!Sound

\* A rule finds a row by its table and id.
LEMMA RowFound ==
  ASSUME NEW m, NEW st, Sane(m, st), NEW table, NEW id, Reader!Row(m, table, id) # NoRow
  PROVE  LET r == Reader!Row(m, table, id)
         IN  /\ r \in Authored /\ r.table = table /\ r.id = id /\ r \in Reader!Sound
             /\ Reader!KeyOf(r) = <<table, id>>
<1>1. <<table, id>> \in Reader!Key /\ Reader!Row(m, table, id) = m[<<table, id>>]
  BY DEF Reader!Row
<1>2. PICK r : r = m[<<table, id>>]
  OBVIOUS
<1>3. r \in Authored /\ Reader!KeyOf(r) = <<table, id>> /\ r \in Reader!Sound
  BY <1>1, <1>2 DEF Sane
<1>4. r.table = table /\ r.id = id
  BY <1>3 DEF Reader!KeyOf
<1> QED
  BY <1>1, <1>2, <1>3, <1>4

\* A row that was applied is found.
LEMMA RowThere ==
  ASSUME NEW m, NEW st, Sane(m, st), NEW o \in Authored, st[o] = "applied"
  PROVE  Reader!Row(m, o.table, o.id) # NoRow
BY DEF Sane, Reader!Row, Reader!KeyOf, Reader!Key

\* Each table has its part of what the ops make.
LEMMA Tables ==
  ASSUME Reader!ReaderAssumption, NEW o \in Reader!Sound
  PROVE  /\ o \in Authored
         /\ o.table = "annotation" => o \in Reader!Annotations
         /\ o.table = "session" => o \in Reader!Sessions
         /\ o.table = "stroke" => o \in Reader!Strokes
         /\ o.table = "claim" => o \in Reader!Claims
         /\ o.table \in {"annotation", "session", "stroke", "claim"}
BY DEF Reader!Sound, Reader!Annotations, Reader!Sessions, Reader!Strokes, Reader!Claims

\* The rules decide.
LEMMA Decisions ==
  ASSUME NEW o, NEW m
  PROVE  /\ Reader!Check(o, m) \in {"pending", "applied", "quarantined"}
         /\ o.table = "annotation" => Reader!Check(o, m) # "pending"
BY DEF Reader!Check, Reader!CheckSession, Reader!CheckContribution

\* What the rules apply, all the ops together make.
LEMMA AppliedIsSound ==
  ASSUME Reader!ReaderAssumption, NEW m, NEW st, Sane(m, st), NEW o \in Authored,
         Reader!Check(o, m) = "applied"
  PROVE  o \in Reader!Sound
<1>1. o.table \in {"annotation", "session", "stroke", "claim"}
  BY DEF Reader!ReaderAssumption
<1>2. CASE o.table = "annotation"
  BY <1>2 DEF Reader!Sound, Reader!Annotations
<1>3. CASE o.table = "session"
  <2>1. PICK r : r = Reader!Row(m, "annotation", o.annotation)
    OBVIOUS
  <2>2. /\ o.owner = o.by /\ r # NoRow
        /\ ~(r.creator = o.id /\ r.by # o.by)
    BY <1>3, <2>1 DEF Reader!Check, Reader!CheckSession
  <2>3. r \in Authored /\ r.table = "annotation" /\ r.id = o.annotation
    BY <2>1, <2>2, RowFound
  <2> QED
    BY <1>3, <2>2, <2>3 DEF Reader!Sound, Reader!Sessions, Reader!Annotations
<1>4. ASSUME o.table \in {"stroke", "claim"}
      PROVE  \E r \in Reader!Sessions :
               /\ r = Reader!Row(m, "session", o.session)
               /\ r.id = o.session /\ r.owner = o.by
               /\ Reader!CheckContribution(o, m) = "applied"
  <2>1. PICK r : r = Reader!Row(m, "session", o.session)
    OBVIOUS
  <2>2. Reader!CheckContribution(o, m) = "applied"
    BY <1>4 DEF Reader!Check
  <2>3. r # NoRow /\ r.owner = o.by
    BY <2>1, <2>2 DEF Reader!CheckContribution
  <2>4. r \in Reader!Sound /\ r.table = "session" /\ r.id = o.session
    BY <2>1, <2>3, RowFound
  <2>5. r \in Reader!Sessions
    BY <2>4, Tables
  <2> QED
    BY <2>1, <2>2, <2>3, <2>4, <2>5
<1>5. CASE o.table = "stroke"
  <2>1. PICK r \in Reader!Sessions :
          /\ r = Reader!Row(m, "session", o.session) /\ r.id = o.session /\ r.owner = o.by
          /\ Reader!CheckContribution(o, m) = "applied"
    BY <1>4, <1>5
  <2>2. o.annotation = r.annotation
    BY <1>5, <2>1 DEF Reader!CheckContribution
  <2> QED
    BY <1>5, <2>1, <2>2 DEF Reader!Sound, Reader!Strokes
<1>6. CASE o.table = "claim"
  <2>1. PICK r \in Reader!Sessions :
          /\ r = Reader!Row(m, "session", o.session) /\ r.id = o.session /\ r.owner = o.by
          /\ Reader!CheckContribution(o, m) = "applied"
    BY <1>4, <1>6
  <2>2. PICK k : k = Reader!Row(m, "stroke", o.stroke)
    OBVIOUS
  <2>3. k # NoRow /\ k.annotation = r.annotation
    BY <1>6, <2>1, <2>2 DEF Reader!CheckContribution
  <2>4. k \in Reader!Sound /\ k.table = "stroke" /\ k.id = o.stroke
    BY <2>2, <2>3, RowFound
  <2>5. k \in Reader!Strokes
    BY <2>4, Tables
  <2> QED
    BY <1>6, <2>1, <2>3, <2>4, <2>5 DEF Reader!Sound, Reader!Claims
<1> QED
  BY <1>1, <1>2, <1>3, <1>5, <1>6

\* A session found by a rule is the one that makes the op.
LEMMA SameColumns ==
  ASSUME Reader!ReaderAssumption, NEW m, NEW st, Sane(m, st), NEW s \in Authored, NEW r,
         r = Reader!Row(m, s.table, s.id), r # NoRow
  PROVE  /\ r \in Authored /\ r.table = s.table
         /\ s.table = "annotation" => r.creator = s.creator /\ r.by = s.by
         /\ s.table = "session" => r.annotation = s.annotation /\ r.owner = s.owner
         /\ s.table = "stroke" => r.annotation = s.annotation
<1>1. r \in Authored /\ r.table = s.table /\ Reader!KeyOf(r) = Reader!KeyOf(s)
  BY RowFound DEF Reader!KeyOf
<1>2. ~Reader!Conflict(r, s) /\ (r.table = "annotation" => r.by = s.by)
  BY <1>1 DEF Reader!ReaderAssumption
<1> QED
  BY <1>1, <1>2 DEF Reader!Conflict

\* What all the ops together make, no rule refuses.
LEMMA SoundIsNotRefused ==
  ASSUME Reader!ReaderAssumption, NEW m, NEW st, Sane(m, st), NEW o \in Reader!Sound
  PROVE  Reader!Check(o, m) # "quarantined"
<1>1. /\ o \in Authored /\ o.table \in {"annotation", "session", "stroke", "claim"}
      /\ o.at \in Nat
  BY Tables DEF Reader!ReaderAssumption
<1>2. PICK old : old = m[Reader!KeyOf(o)]
  OBVIOUS
<1>3. old # NoRow => old \in Authored /\ Reader!KeyOf(old) = Reader!KeyOf(o) /\ old.at \in Nat
  BY <1>1, <1>2 DEF Sane, Reader!Key, Reader!ReaderAssumption
<1>4. ~(old # NoRow /\ Reader!Conflict(o, old))
  BY <1>1, <1>3 DEF Reader!ReaderAssumption
<1>5. CASE o.table = "annotation"
  BY <1>2, <1>4, <1>5 DEF Reader!Check
<1>6. CASE o.table = "session"
  <2>1. PICK a \in Reader!Annotations : a.id = o.annotation /\ (a.creator = o.id => a.by = o.by)
    BY <1>6, Tables DEF Reader!Sessions
  <2>2. o.owner = o.by
    BY <1>6, Tables DEF Reader!Sessions
  <2>3. PICK r : r = Reader!Row(m, "annotation", o.annotation)
    OBVIOUS
  <2>4. a \in Authored /\ a.table = "annotation"
    BY <2>1 DEF Reader!Annotations
  <2>5. r # NoRow => r.creator = a.creator /\ r.by = a.by
    BY <2>1, <2>3, <2>4, SameColumns
  <2>6. old # NoRow => ~Reader!Reopens(o, old)
    <3>1. SUFFICES ASSUME old # NoRow, old.state # "open", old.state # o.state,
                          o.state # "open" \/ o.at >= old.at
                   PROVE  FALSE
      BY DEF Reader!Reopens
    <3>2. o.state = old.state \/ (o.state = "open" /\ o.at < old.at)
      BY <1>1, <1>3, <1>6, <3>1 DEF Reader!ReaderAssumption
    <3> QED
      BY <1>1, <1>3, <3>1, <3>2
  <2>7. Reader!CheckSession(o, m) # "quarantined"
    BY <1>2, <2>1, <2>2, <2>3, <2>5, <2>6 DEF Reader!CheckSession
  <2> QED
    BY <1>2, <1>4, <1>6, <2>7 DEF Reader!Check
<1>7. ASSUME NEW s \in Reader!Sessions, o.table \in {"stroke", "claim"},
             s.id = o.session, s.owner = o.by,
             o.table = "stroke" => s.annotation = o.annotation,
             o.table = "claim" => \E k \in Reader!Strokes : k.id = o.stroke /\ k.annotation = s.annotation
      PROVE  Reader!Check(o, m) # "quarantined"
  <2>1. PICK r : r = Reader!Row(m, "session", o.session)
    OBVIOUS
  <2>2. s \in Authored /\ s.table = "session"
    BY DEF Reader!Sessions
  <2>3. r # NoRow => r.owner = o.by /\ r.annotation = s.annotation
    BY <1>7, <2>1, <2>2, SameColumns
  <2>4. PICK q : q = Reader!Row(m, "stroke", o.stroke)
    OBVIOUS
  <2>5. ASSUME o.table = "claim", q # NoRow PROVE q.annotation = s.annotation
    <3>1. PICK k \in Reader!Strokes : k.id = o.stroke /\ k.annotation = s.annotation
      BY <1>7, <2>5
    <3>2. k \in Authored /\ k.table = "stroke"
      BY DEF Reader!Strokes
    <3> QED
      BY <2>4, <2>5, <3>1, <3>2, SameColumns
  <2>6. Reader!CheckContribution(o, m) # "quarantined"
    BY <1>7, <2>1, <2>3, <2>4, <2>5 DEF Reader!CheckContribution
  <2> QED
    BY <1>2, <1>4, <1>7, <2>6 DEF Reader!Check
<1>8. CASE o.table = "stroke"
  <2>1. \E s \in Reader!Sessions : s.id = o.session /\ s.owner = o.by /\ s.annotation = o.annotation
    BY <1>8, Tables DEF Reader!Strokes
  <2> QED
    BY <1>7, <1>8, <2>1
<1>9. CASE o.table = "claim"
  <2>1. \E s \in Reader!Sessions : /\ s.id = o.session /\ s.owner = o.by
          /\ \E k \in Reader!Strokes : k.id = o.stroke /\ k.annotation = s.annotation
    BY <1>9, Tables DEF Reader!Claims
  <2> QED
    BY <1>7, <1>9, <2>1
<1> QED
  BY <1>1, <1>5, <1>6, <1>8, <1>9

\* What settling some rows made of the mirrors and states: it keeps what was settled,
\* and without progress it changed nothing, as none of the rows could be settled.
Acc == [mirror : [Reader!Key -> Authored \cup {NoRow}], state : [Authored -> Reader!States],
        progress : BOOLEAN]
Went(a, b, done) ==
  /\ b \in Acc /\ Sane(b.mirror, b.state)
  /\ \A o \in Authored : /\ a.state[o] # "pending" => b.state[o] = a.state[o]
                         /\ a.state[o] = "pending" => b.state[o] # "absent"
  /\ \/ b.state = a.state /\ b.mirror = a.mirror
     \/ \E o \in Authored : a.state[o] = "pending" /\ b.state[o] # "pending"
  /\ ~b.progress =>
       /\ ~a.progress /\ b.state = a.state /\ b.mirror = a.mirror
       /\ \A o \in done : a.state[o] = "pending" => Reader!Check(o, a.mirror) = "pending"

\* Settling a row keeps the mirrors sane.
LEMMA SettleSane ==
  ASSUME Reader!ReaderAssumption, NEW a \in Acc, Sane(a.mirror, a.state), NEW o \in Authored
  PROVE  Reader!Settle(a, o) \in Acc
         /\ Sane(Reader!Settle(a, o).mirror, Reader!Settle(a, o).state)
<1> DEFINE k == Reader!KeyOf(o)
           wins == Reader!Check(o, a.mirror) = "applied" /\ Reader!Wins(o, a.mirror[k])
           m == IF wins THEN [a.mirror EXCEPT ![k] = o] ELSE a.mirror
<1>1. PICK c : c = Reader!Check(o, a.mirror)
  OBVIOUS
<1>2. c \in {"pending", "applied", "quarantined"}
  BY <1>1, Decisions
<1>3. PICK st : st = [a.state EXCEPT ![o] = c]
  OBVIOUS
<1>4. CASE a.state[o] # "pending"
  BY <1>4 DEF Reader!Settle
<1>5. CASE a.state[o] = "pending"
  <2>1. Reader!Settle(a, o) = [mirror |-> m, state |-> st, progress |-> a.progress \/ c # "pending"]
    BY <1>1, <1>3, <1>5 DEF Reader!Settle
  <2>2. a.mirror \in [Reader!Key -> Authored \cup {NoRow}] /\ a.state \in [Authored -> Reader!States]
        /\ a.progress \in BOOLEAN
    BY DEF Acc
  <2>3. k \in Reader!Key /\ o # NoRow /\ o.at \in Nat
    BY DEF Reader!Key, Reader!ReaderAssumption
  <2>4. m \in [Reader!Key -> Authored \cup {NoRow}] /\ st \in [Authored -> Reader!States]
    BY <1>2, <1>3, <2>2, <2>3 DEF Reader!States
  <2>5. /\ c = "applied" => o \in Reader!Sound
        /\ c = "quarantined" => o \notin Reader!Sound
    BY <1>1, AppliedIsSound, SoundIsNotRefused
  <2>6. \A x \in Reader!Key : x # k => m[x] = a.mirror[x]
    BY <2>2
  <2>7. m[k] = IF wins THEN o ELSE a.mirror[k]
    BY <2>2, <2>3
  <2>8. st[o] = c /\ \A p \in Authored : p # o => st[p] = a.state[p]
    BY <1>3, <2>2
  <2>9. \A x \in Reader!Key : m[x] # NoRow =>
          m[x] \in Authored /\ Reader!KeyOf(m[x]) = x /\ st[m[x]] = "applied"
    <3>1. TAKE x \in Reader!Key
    <3>2. CASE x = k /\ wins
      BY <1>1, <2>7, <2>8, <3>2
    <3>3. CASE ~(x = k /\ wins)
      <4>1. m[x] = a.mirror[x]
        BY <2>6, <2>7, <3>3
      <4>2. m[x] # NoRow => m[x] # o
        BY <1>5, <4>1, <3>1 DEF Sane
      <4> QED
        BY <2>8, <4>1, <4>2, <3>1 DEF Sane
    <3> QED
      BY <3>2, <3>3
  <2>10. wins => a.mirror[k] = NoRow \/ a.mirror[k].at < o.at
    BY DEF Reader!Wins
  <2>11. c = "applied" => wins \/ (a.mirror[k] # NoRow /\ ~(a.mirror[k].at < o.at))
    BY <1>1 DEF Reader!Wins
  <2>12. a.mirror[k] # NoRow => a.mirror[k] \in Authored /\ a.mirror[k].at \in Nat
    BY <2>3 DEF Sane, Reader!ReaderAssumption
  <2> HIDE DEF wins, m
  <2>13. \A p \in Authored : st[p] = "applied" =>
           /\ p \in Reader!Sound
           /\ m[Reader!KeyOf(p)] # NoRow /\ p.at <= m[Reader!KeyOf(p)].at
    <3>1. TAKE p \in Authored
    <3>2. HAVE st[p] = "applied"
    <3>3. p.at \in Nat /\ Reader!KeyOf(p) \in Reader!Key
      BY DEF Reader!ReaderAssumption, Reader!Key
    <3>4. CASE p = o
      <4>1. c = "applied"
        BY <2>8, <3>2, <3>4
      <4> QED
        BY <2>3, <2>5, <2>7, <2>11, <2>12, <3>4, <4>1
    <3>5. CASE p # o
      <4>1. a.state[p] = "applied"
        BY <2>8, <3>2, <3>5
      <4>2. /\ p \in Reader!Sound
            /\ a.mirror[Reader!KeyOf(p)] # NoRow /\ p.at <= a.mirror[Reader!KeyOf(p)].at
        BY <4>1 DEF Sane
      <4>3. CASE Reader!KeyOf(p) = k /\ wins
        BY <2>3, <2>7, <2>10, <2>12, <3>3, <4>2, <4>3
      <4>4. CASE ~(Reader!KeyOf(p) = k /\ wins)
        BY <2>6, <2>7, <3>3, <4>2, <4>4
      <4> QED
        BY <4>3, <4>4
    <3> QED
      BY <3>4, <3>5
  <2>14. \A p \in Authored : st[p] = "quarantined" => p \notin Reader!Sound
    BY <2>5, <2>8 DEF Sane
  <2>15. Sane(m, st)
    BY <2>4, <2>9, <2>13, <2>14 DEF Sane
  <2>16. [mirror |-> m, state |-> st, progress |-> a.progress \/ c # "pending"] \in Acc
    BY <2>2, <2>4 DEF Acc
  <2> QED
    BY <2>1, <2>15, <2>16
<1> QED
  BY <1>4, <1>5

\* Settling one more row.
LEMMA SettleWent ==
  ASSUME Reader!ReaderAssumption, NEW a \in Acc, NEW b, NEW done, Went(a, b, done),
         NEW o \in Authored
  PROVE  Went(a, Reader!Settle(b, o), done \cup {o})
<1>1. PICK c : c = Reader!Settle(b, o)
  OBVIOUS
<1>2. c \in Acc /\ Sane(c.mirror, c.state) /\ b \in Acc
  BY <1>1, SettleSane DEF Went
<1>3. PICK d : d = Reader!Check(o, b.mirror)
  OBVIOUS
<1>4. d \in {"pending", "applied", "quarantined"}
  BY <1>3, Decisions
<1>5. CASE b.state[o] # "pending"
  <2>1. c = b
    BY <1>1, <1>5 DEF Reader!Settle
  <2> QED
    BY <1>1, <1>5, <2>1 DEF Went
<1>6. CASE b.state[o] = "pending"
  <2>1. /\ c.state = [b.state EXCEPT ![o] = d]
        /\ c.progress = (b.progress \/ d # "pending")
        /\ d # "applied" => c.mirror = b.mirror
    BY <1>1, <1>3, <1>6 DEF Reader!Settle
  <2>2. b.state \in [Authored -> Reader!States] /\ b.progress \in BOOLEAN /\ c.progress \in BOOLEAN
    BY <1>2 DEF Acc
  <2>3. c.state[o] = d /\ \A p \in Authored : p # o => c.state[p] = b.state[p]
    BY <2>1, <2>2
  <2>4. \A p \in Authored : /\ a.state[p] # "pending" => c.state[p] = a.state[p]
                            /\ a.state[p] = "pending" => c.state[p] # "absent"
    BY <1>4, <1>6, <2>3 DEF Went
  <2>5. a.state[o] = "pending"
    BY <1>6 DEF Went
  <2>6. CASE d # "pending"
    <3>1. \E p \in Authored : a.state[p] = "pending" /\ c.state[p] # "pending"
      BY <2>3, <2>5, <2>6
    <3>2. c.progress
      BY <2>1, <2>6
    <3> QED
      BY <1>1, <1>2, <2>4, <3>1, <3>2 DEF Went
  <2>7. CASE d = "pending"
    <3>1. c.state = b.state /\ c.mirror = b.mirror /\ (c.progress <=> b.progress)
      BY <1>6, <2>1, <2>2, <2>7
    <3> QED
      BY <1>1, <1>2, <1>3, <2>4, <2>7, <3>1 DEF Went
  <2> QED
    BY <2>6, <2>7
<1> QED
  BY <1>5, <1>6
\* Induction, as a fact about sets.
LEMMA EveryNatural ==
  ASSUME NEW S, 0 \in S, \A n \in Nat : n \in S => n + 1 \in S
  PROVE  Nat \subseteq S
<1> DEFINE R == {p \in Nat \X Nat : p[1] < p[2]}
           T == Nat \ S
<1>1. IsWellFoundedOn(R, Nat)
  BY NatLessThanWellFounded DEF OpToRel
<1>2. SUFFICES ASSUME T # {} PROVE FALSE
  OBVIOUS
<1>3. PICK x \in T : \A y \in T : ~(<<y, x>> \in R)
  <2> HIDE DEF R, T
  <2>1. T \subseteq Nat
    BY DEF T
  <2> QED
    BY <1>1, <1>2, <2>1, WFMin
<1>4. x \in Nat /\ x # 0 /\ x - 1 \in Nat /\ x - 1 < x
  OBVIOUS
<1>5. x - 1 \in S
  BY <1>3, <1>4
<1> QED
  BY <1>3, <1>4, <1>5

\* The rows of a page settle one after the other, in the order of the inbox.
Steps(n, page, start, rows) ==
  CHOOSE upTo : upTo = [i \in 0..n |->
    IF i = 0 THEN start
    ELSE IF i \in page THEN Reader!Settle(upTo[i - 1], rows[i]) ELSE upTo[i - 1]]

\* They are what the recursion says.
LEMMA StepsTaken ==
  ASSUME NEW n \in Nat, NEW page, NEW start, NEW rows
  PROVE  Steps(n, page, start, rows) = [i \in 0..n |->
           IF i = 0 THEN start
           ELSE IF i \in page THEN Reader!Settle(Steps(n, page, start, rows)[i - 1], rows[i])
           ELSE Steps(n, page, start, rows)[i - 1]]
<1> DEFINE Is(f, k) == f = [i \in 0..k |->
             IF i = 0 THEN start
             ELSE IF i \in page THEN Reader!Settle(f[i - 1], rows[i]) ELSE f[i - 1]]
           S == {k \in Nat : \E f : Is(f, k)}
<1>1. 0 \in S
  <2>1. Is([i \in 0..0 |-> start], 0)
    OBVIOUS
  <2> QED
    BY <2>1
<1>2. ASSUME NEW k \in Nat, k \in S PROVE k + 1 \in S
  <2>1. PICK f : Is(f, k)
    BY <1>2
  <2>2. PICK g : g = [i \in 0..(k + 1) |->
          IF i <= k THEN f[i]
          ELSE IF i \in page THEN Reader!Settle(f[k], rows[i]) ELSE f[k]]
    OBVIOUS
  <2>3. \A i \in 0..k : g[i] = f[i]
    BY <2>2
  <2>4. \A i \in 0..k : f[i] = IF i = 0 THEN start
          ELSE IF i \in page THEN Reader!Settle(f[i - 1], rows[i]) ELSE f[i - 1]
    BY <2>1
  <2>5. \A i \in 0..(k + 1) : g[i] = IF i = 0 THEN start
          ELSE IF i \in page THEN Reader!Settle(g[i - 1], rows[i]) ELSE g[i - 1]
    <3>1. TAKE i \in 0..(k + 1)
    <3>2. CASE i = k + 1
      BY <2>2, <2>3, <3>2
    <3>3. CASE i \in 0..k
      <4>1. i # 0 => i - 1 \in 0..k
        BY <3>3
      <4> QED
        BY <2>3, <2>4, <3>3, <4>1
    <3> QED
      BY <3>2, <3>3
  <2>6. Is(g, k + 1)
    BY <2>2, <2>5
  <2> QED
    BY <2>6
<1>3. Nat \subseteq S
  <2> HIDE DEF S
  <2> QED
    BY <1>1, <1>2, EveryNatural
<1>4. \E f : Is(f, n)
  BY <1>3
<1> QED
  BY <1>4 DEF Steps

\* The page's result is the last of the steps.
LEMMA SettledIs ==
  ASSUME NEW page, NEW start
  PROVE  Reader!Settled(page, start) = Steps(Reader!Len(inbox), page, start, inbox)[Reader!Len(inbox)]
BY DEF Reader!Settled, Steps

\* What a page makes of the mirrors and states.
LEMMA SettledWent ==
  ASSUME Reader!ReaderAssumption, inbox \in Seq(Authored), NEW a \in Acc,
         Sane(a.mirror, a.state), NEW page \in SUBSET DOMAIN inbox
  PROVE  Went(a, Reader!Settled(page, a), {inbox[i] : i \in page})
<1>1. PICK n : n = Len(inbox)
  OBVIOUS
<1>2. n \in Nat /\ DOMAIN inbox = 1..n /\ Reader!Len(inbox) = n
  BY <1>1
<1>3. PICK f : f = Steps(n, page, a, inbox)
  OBVIOUS
<1>4. /\ f[0] = a
      /\ \A i \in 1..n : f[i] = IF i \in page THEN Reader!Settle(f[i - 1], inbox[i]) ELSE f[i - 1]
  BY <1>2, <1>3, StepsTaken
<1> DEFINE Done(i) == {inbox[j] : j \in {j \in page : j <= i}}
           S == {i \in Nat : i <= n => Went(a, f[i], Done(i))}
<1>5. 0 \in S
  <2>1. Done(0) = {}
    BY <1>2
  <2>2. Went(a, a, {})
    BY DEF Went, Acc
  <2> QED
    BY <1>4, <2>1, <2>2
<1>6. ASSUME NEW i \in Nat, i \in S PROVE i + 1 \in S
  <2>1. SUFFICES ASSUME i + 1 <= n PROVE Went(a, f[i + 1], Done(i + 1))
    BY <1>6
  <2>2. Went(a, f[i], Done(i)) /\ i + 1 \in 1..n /\ inbox[i + 1] \in Authored
    BY <1>2, <1>6, <2>1
  <2>3. CASE i + 1 \in page
    <3>1. Done(i + 1) = Done(i) \cup {inbox[i + 1]}
      BY <1>2, <2>3
    <3>2. f[i + 1] = Reader!Settle(f[i], inbox[i + 1])
      BY <1>4, <2>2, <2>3
    <3> HIDE DEF Done
    <3> QED
      BY <2>2, <3>1, <3>2, SettleWent
  <2>4. CASE i + 1 \notin page
    <3>1. Done(i + 1) = Done(i)
      BY <1>2, <2>4
    <3>2. f[i + 1] = f[i]
      BY <1>4, <2>2, <2>4
    <3> QED
      BY <2>2, <3>1, <3>2
  <2> QED
    BY <2>3, <2>4
<1>7. Nat \subseteq S
  <2> HIDE DEF S
  <2> QED
    BY <1>5, <1>6, EveryNatural
<1>8. Went(a, f[n], Done(n))
  <2>1. n \in S
    <3> HIDE DEF S
    <3> QED
      BY <1>2, <1>7
  <2> HIDE DEF Done
  <2> QED
    BY <1>2, <2>1
<1>9. Done(n) = {inbox[i] : i \in page}
  BY <1>2
<1>10. Reader!Settled(page, a) = f[n]
  BY <1>2, <1>3, SettledIs
<1> QED
  BY <1>8, <1>9, <1>10
\* A row that the rules leave pending, or that is settled.
Stuck(i) == state[inbox[i]] = "pending" => Reader!Check(inbox[i], mirror) = "pending"

\* A sweep that nothing met and that settled nothing so far has only seen rows that
\* stay pending.
SweptInv ==
  \A d \in Sweeper :
    /\ sweep[d].phase = "read" /\ sweep[d].quiet /\ ~sweep[d].progress =>
         \A i \in DOMAIN inbox : i <= sweep[d].after => Stuck(i)
    /\ sweep[d].phase = "apply" /\ sweep[d].quiet /\ ~sweep[d].progress =>
         \A i \in DOMAIN inbox :
           Stuck(i) \/ i \in sweep[d].page \/ (sweep[d].next # 0 /\ i > sweep[d].next)
    /\ sweep[d].phase = "done" /\ sweep[d].quiet /\ ~sweep[d].cut =>
         \A i \in DOMAIN inbox : Stuck(i)

ReaderInv == Reader!TypeOK /\ Sane(mirror, state) /\ SweptInv

\* The types, each by itself.
LEMMA ReaderTypes ==
  Reader!TypeOK <=>
    /\ inbox \in Seq(Authored)
    /\ \A i, j \in DOMAIN inbox : inbox[i] = inbox[j] => i = j
    /\ state \in [Authored -> Reader!States]
    /\ {inbox[i] : i \in DOMAIN inbox} = {o \in Authored : state[o] # "absent"}
    /\ mirror \in [Reader!Key -> Authored \cup {NoRow}]
    /\ sweep \in [Sweeper -> Reader!Pass]
BY DEF Reader!TypeOK, Reader!IsInjective, Reader!Range

\* The same, after a step.
LEMMA TypesAfter ==
  ASSUME /\ inbox' \in Seq(Authored)
         /\ \A i, j \in DOMAIN inbox' : inbox'[i] = inbox'[j] => i = j
         /\ state' \in [Authored -> Reader!States]
         /\ {inbox'[i] : i \in DOMAIN inbox'} = {o \in Authored : state'[o] # "absent"}
         /\ mirror' \in [Reader!Key -> Authored \cup {NoRow}]
         /\ sweep' \in [Sweeper -> Reader!Pass']
  PROVE  Reader!TypeOK'
BY DEF Reader!TypeOK, Reader!IsInjective, Reader!Range, Reader!Key, Reader!KeyOf, Reader!States

\* Nothing is received and nothing settled at first.
LEMMA ReaderStart ==
  ASSUME Reader!ReaderAssumption, Reader!Init
  PROVE  ReaderInv
<1>1. inbox = <<>> /\ DOMAIN inbox = {}
  BY DEF Reader!Init
<1>2. state \in [Authored -> Reader!States] /\ \A o \in Authored : state[o] = "absent"
  BY DEF Reader!Init, Reader!States
<1>3. mirror \in [Reader!Key -> Authored \cup {NoRow}] /\ \A k \in Reader!Key : mirror[k] = NoRow
  BY DEF Reader!Init
<1>4. sweep \in [Sweeper -> Reader!Pass] /\ \A d \in Sweeper : sweep[d].phase = "idle"
  BY DEF Reader!Init, Reader!Pass, Reader!Idle
<1>5. Reader!TypeOK
  BY <1>1, <1>2, <1>3, <1>4, ReaderTypes
<1>6. Sane(mirror, state)
  BY <1>2, <1>3 DEF Sane
<1> QED
  BY <1>4, <1>5, <1>6 DEF ReaderInv, SweptInv

\* A sweep that was met is not quiet.
LEMMA DisturbedPass ==
  ASSUME sweep \in [Sweeper -> Reader!Pass]
  PROVE  /\ Reader!Disturbed \in [Sweeper -> Reader!Pass]
         /\ \A d \in Sweeper : Reader!Disturbed[d].phase = "idle" \/ ~Reader!Disturbed[d].quiet
<1>1. \A d \in Sweeper : Reader!Disturbed[d] =
        IF sweep[d] = Reader!Idle THEN Reader!Idle ELSE [sweep[d] EXCEPT !.quiet = FALSE]
  BY DEF Reader!Disturbed
<1>2. ASSUME NEW s \in Reader!Pass, s # Reader!Idle
      PROVE  [s EXCEPT !.quiet = FALSE] \in Reader!Pass /\ ~[s EXCEPT !.quiet = FALSE].quiet
  BY <1>2 DEF Reader!Pass
<1>3. Reader!Idle \in Reader!Pass /\ Reader!Idle.phase = "idle"
  BY DEF Reader!Pass, Reader!Idle
<1>4. ASSUME NEW d \in Sweeper
      PROVE  /\ Reader!Disturbed[d] \in Reader!Pass
             /\ Reader!Disturbed[d].phase = "idle" \/ ~Reader!Disturbed[d].quiet
  <2>1. CASE sweep[d] = Reader!Idle
    BY <1>1, <1>3, <2>1
  <2>2. CASE sweep[d] # Reader!Idle
    BY <1>1, <1>2, <2>2
  <2> QED
    BY <2>1, <2>2
<1>5. Reader!Disturbed \in [Sweeper -> Reader!Pass]
  BY <1>4 DEF Reader!Disturbed
<1> QED
  BY <1>4, <1>5

\* An op arrives.
LEMMA ReceiveStep ==
  ASSUME Reader!ReaderAssumption, ReaderInv, NEW o \in Authored, Reader!Receive(o)
  PROVE  ReaderInv'
<1>1. /\ state[o] = "absent" /\ inbox' = Append(inbox, o)
      /\ state' = [state EXCEPT ![o] = "pending"] /\ sweep' = Reader!Disturbed
      /\ mirror' = mirror
  BY DEF Reader!Receive
<1>2. /\ inbox \in Seq(Authored) /\ state \in [Authored -> Reader!States]
      /\ \A i, j \in DOMAIN inbox : inbox[i] = inbox[j] => i = j
      /\ {inbox[i] : i \in DOMAIN inbox} = {p \in Authored : state[p] # "absent"}
      /\ mirror \in [Reader!Key -> Authored \cup {NoRow}]
      /\ sweep \in [Sweeper -> Reader!Pass]
  BY ReaderTypes DEF ReaderInv
<1>3. PICK n \in Nat : n = Len(inbox) /\ DOMAIN inbox = 1..n
  BY <1>2
<1>4. /\ DOMAIN inbox' = 1..(n + 1) /\ inbox'[n + 1] = o
      /\ \A i \in 1..n : inbox'[i] = inbox[i]
      /\ inbox' \in Seq(Authored)
  BY <1>1, <1>2, <1>3
<1>5. \A i \in 1..n : inbox[i] # o
  BY <1>1, <1>2, <1>3
<1>6. Reader!TypeOK'
  <2>1. \A i, j \in DOMAIN inbox' : inbox'[i] = inbox'[j] => i = j
    <3>1. \A i \in 1..(n + 1) : i \in 1..n \/ i = n + 1
      OBVIOUS
    <3> QED
      BY <1>2, <1>3, <1>4, <1>5, <3>1
  <2>2. state' \in [Authored -> Reader!States]
    BY <1>1, <1>2 DEF Reader!States
  <2>3. {inbox'[i] : i \in DOMAIN inbox'} = {p \in Authored : state'[p] # "absent"}
    <3>1. {inbox'[i] : i \in 1..(n + 1)} = {inbox[i] : i \in 1..n} \cup {o}
      BY <1>4
    <3>2. {p \in Authored : state'[p] # "absent"} = {p \in Authored : state[p] # "absent"} \cup {o}
      BY <1>1, <1>2
    <3> QED
      BY <1>2, <1>3, <1>4, <3>1, <3>2
  <2>4. sweep' \in [Sweeper -> Reader!Pass']
    <3>1. Reader!Pass \subseteq Reader!Pass'
      <4>1. DOMAIN inbox \subseteq DOMAIN inbox'
        BY <1>3, <1>4
      <4> QED
        BY <4>1 DEF Reader!Pass, Reader!Place, Reader!Idle
    <3>2. sweep' \in [Sweeper -> Reader!Pass]
      BY <1>1, <1>2, DisturbedPass
    <3> QED
      BY <3>1, <3>2
  <2>5. mirror' \in [Reader!Key -> Authored \cup {NoRow}]
    BY <1>1, <1>2
  <2> QED
    BY <1>4, <2>1, <2>2, <2>3, <2>4, <2>5, TypesAfter
<1>7. Sane(mirror', state')
  <2>1. Sane(mirror, state) /\ \A p \in Authored : p # o => state'[p] = state[p]
    BY <1>1, <1>2 DEF ReaderInv
  <2>2. state'[o] = "pending" /\ state' \in [Authored -> Reader!States]
    BY <1>1, <1>2 DEF Reader!States
  <2> QED
    BY <1>1, <2>1, <2>2 DEF Sane
<1>8. SweptInv'
  <2>1. \A d \in Sweeper : sweep'[d].phase = "idle" \/ ~sweep'[d].quiet
    BY <1>1, <1>2, DisturbedPass
  <2> QED
    BY <2>1 DEF SweptInv
<1>9. Sane(mirror, state)'
  BY <1>7
<1> QED
  BY <1>6, <1>8, <1>9 DEF ReaderInv
\* A sweep moves by itself.
LEMMA SweepMoves ==
  ASSUME ReaderInv, UNCHANGED <<inbox, state, mirror>>, NEW d \in Sweeper, NEW s \in Reader!Pass,
         sweep' = [sweep EXCEPT ![d] = s],
         s.phase = "read" /\ s.quiet /\ ~s.progress =>
           \A i \in DOMAIN inbox : i <= s.after => Stuck(i),
         s.phase = "apply" /\ s.quiet /\ ~s.progress =>
           \A i \in DOMAIN inbox : Stuck(i) \/ i \in s.page \/ (s.next # 0 /\ i > s.next),
         s.phase = "done" /\ s.quiet /\ ~s.cut => \A i \in DOMAIN inbox : Stuck(i)
  PROVE  ReaderInv'
<1>1. /\ inbox \in Seq(Authored) /\ state \in [Authored -> Reader!States]
      /\ \A i, j \in DOMAIN inbox : inbox[i] = inbox[j] => i = j
      /\ {inbox[i] : i \in DOMAIN inbox} = {p \in Authored : state[p] # "absent"}
      /\ mirror \in [Reader!Key -> Authored \cup {NoRow}]
      /\ sweep \in [Sweeper -> Reader!Pass]
  BY ReaderTypes DEF ReaderInv
<1>2. sweep'[d] = s /\ \A e \in Sweeper : e # d => sweep'[e] = sweep[e]
  BY <1>1
<1>3. Reader!TypeOK'
  <2>1. Reader!Pass' = Reader!Pass
    BY DEF Reader!Pass, Reader!Place, Reader!Idle
  <2>2. sweep' \in [Sweeper -> Reader!Pass']
    BY <1>1, <2>1
  <2> QED
    BY <1>1, <2>2, TypesAfter
<1>4. Sane(mirror, state)'
  BY DEF ReaderInv
<1>5. \A i : Stuck(i)' <=> Stuck(i)
  BY DEF Stuck
<1>6. SweptInv'
  BY <1>2, <1>5 DEF SweptInv, ReaderInv
<1> QED
  BY <1>3, <1>4, <1>6 DEF ReaderInv

\* A sweep begins before the first row.
LEMMA BeginStep ==
  ASSUME ReaderInv, NEW d \in Sweeper, Reader!Begin(d)
  PROVE  ReaderInv'
<1>1. PICK s : s = [phase |-> "read", after |-> 0, pages |-> 0, progress |-> FALSE, quiet |-> TRUE]
  OBVIOUS
<1>2. sweep' = [sweep EXCEPT ![d] = s] /\ UNCHANGED <<inbox, state, mirror>>
  BY <1>1 DEF Reader!Begin
<1>3. s \in Reader!Pass
  BY <1>1 DEF Reader!Pass, Reader!Place
<1>4. \A i \in DOMAIN inbox : i \in Nat /\ i > 0
  BY ReaderTypes DEF ReaderInv
<1>5. s.phase = "read" /\ \A i \in DOMAIN inbox : ~(i <= s.after)
  BY <1>1, <1>4
<1> QED
  BY <1>2, <1>3, <1>5, SweepMoves

\* A sweep that stops has seen nothing.
LEMMA StopStep ==
  ASSUME ReaderInv, NEW d \in Sweeper, Reader!Stop(d)
  PROVE  ReaderInv'
<1>1. /\ sweep' = [sweep EXCEPT ![d] = Reader!Idle] /\ UNCHANGED <<inbox, state, mirror>>
  BY DEF Reader!Stop
<1>2. Reader!Idle \in Reader!Pass /\ Reader!Idle.phase = "idle"
  BY DEF Reader!Pass, Reader!Idle
<1> QED
  BY <1>1, <1>2, SweepMoves

\* The page: rows that wait and are not in it come after it, and then it has a last row
\* to go on from.
LEMMA WaitingPages ==
  ASSUME NEW n \in Nat, NEW m \in Nat, NEW all \in SUBSET (1..n), NEW a \in all,
         ~(Reader!Cardinality({b \in all : b < a}) < m)
  PROVE  /\ Reader!Cardinality(all) > m
         /\ \A p \in all : Reader!Cardinality({b \in all : b < p}) < m => p < a
<1> DEFINE Below(x) == {b \in all : b < x}
<1>1. \A S : Reader!Cardinality(S) = Cardinality(S)
  BY DEF Reader!Cardinality, Cardinality, Reader!IsFiniteSet, IsFiniteSet
<1>2. IsFiniteSet(all) /\ all \subseteq Nat
  <2>1. IsFiniteSet(1..n)
    BY FS_Interval
  <2>2. IsFiniteSet(all)
    BY <2>1, FS_Subset
  <2> QED
    BY <2>2
<1>3. \A x : Below(x) \subseteq all
  OBVIOUS
<1>4. \A x : IsFiniteSet(Below(x)) /\ Cardinality(Below(x)) \in Nat
             /\ Cardinality(Below(x)) <= Cardinality(all)
             /\ (Cardinality(all) = Cardinality(Below(x)) => all = Below(x))
  BY <1>2, <1>3, FS_Subset, FS_CardinalityType
<1>5. Cardinality(all) \in Nat
  BY <1>2, FS_CardinalityType
<1>6. ASSUME NEW p \in all, ~(p < a) PROVE Cardinality(Below(a)) <= Cardinality(Below(p))
  <2>1. \A b \in all : b < a => b < p
    BY <1>2, <1>6
  <2>2. Below(a) \subseteq Below(p)
    BY <2>1
  <2> QED
    BY <1>4, <2>2, FS_Subset
<1>7. Below(a) # all
  BY <1>2
<1> HIDE DEF Below
<1>8. ~(Cardinality(Below(a)) < m)
  BY <1>1 DEF Below
<1>9. Cardinality(all) > m
  BY <1>4, <1>5, <1>7, <1>8
<1>10. ASSUME NEW p \in all, Reader!Cardinality({b \in all : b < p}) < m PROVE p < a
  <2>1. Cardinality(Below(p)) < m
    BY <1>1, <1>10 DEF Below
  <2> QED
    BY <1>4, <1>6, <1>8, <2>1
<1> QED
  BY <1>1, <1>9, <1>10

\* A sweep reads its next page.
LEMMA ReadPageStep ==
  ASSUME Reader!ReaderAssumption, ReaderInv, NEW d \in Sweeper, Reader!ReadPage(d)
  PROVE  ReaderInv'
<1> DEFINE waiting == Reader!Waiting(sweep[d].after)
           page == {i \in waiting : Reader!Cardinality({j \in waiting : j < i}) < PageSize}
<1>1. PICK next \in IF Reader!Cardinality(waiting) > PageSize
                    THEN {i \in page : \A j \in page : j <= i} ELSE {0} :
        sweep' = [sweep EXCEPT ![d] =
          [phase |-> "apply", page |-> page, next |-> next,
           pages |-> sweep[d].pages, progress |-> sweep[d].progress, quiet |-> sweep[d].quiet]]
  BY DEF Reader!ReadPage
<1>2. sweep[d].phase = "read" /\ UNCHANGED <<inbox, state, mirror>>
  BY DEF Reader!ReadPage
<1>3. /\ sweep \in [Sweeper -> Reader!Pass] /\ inbox \in Seq(Authored)
  BY ReaderTypes DEF ReaderInv
<1>4. PICK n \in Nat : DOMAIN inbox = 1..n
  BY <1>3
<1>5. PICK old \in Reader!Pass : old = sweep[d]
  BY <1>3
<1>6. /\ old.after \in Reader!Place /\ old.pages \in Nat /\ old.progress \in BOOLEAN
      /\ old.quiet \in BOOLEAN
  BY <1>2, <1>5 DEF Reader!Pass, Reader!Idle
<1>7. waiting \subseteq 1..n /\ page \subseteq 1..n /\ PageSize \in Nat /\ old.after \in Nat
  BY <1>4, <1>6 DEF Reader!Waiting, Reader!ReaderAssumption, Reader!Place
<1>8. \A i \in DOMAIN inbox : i > old.after /\ ~Stuck(i) => i \in waiting
  BY <1>5 DEF Reader!Waiting, Stuck
<1>9. next \in Reader!Place /\ (Reader!Cardinality(waiting) > PageSize => next \in page)
      /\ \A j \in page : Reader!Cardinality(waiting) > PageSize => j <= next
  BY <1>1, <1>4, <1>7 DEF Reader!Place
<1>10. ASSUME NEW i \in waiting, i \notin page PROVE next # 0 /\ i > next
  <2>1. ~(Reader!Cardinality({j \in waiting : j < i}) < PageSize)
    BY <1>10
  <2>2. \A p \in page : p \in waiting /\ Reader!Cardinality({j \in waiting : j < p}) < PageSize
    OBVIOUS
  <2> HIDE DEF waiting, page
  <2>3. waiting \in SUBSET (1..n)
    BY <1>7
  <2>4. Reader!Cardinality(waiting) > PageSize
        /\ \A p \in waiting : Reader!Cardinality({j \in waiting : j < p}) < PageSize => p < i
    BY <1>7, <1>10, <2>1, <2>3, WaitingPages
  <2>5. next \in page /\ next < i
    BY <1>9, <2>2, <2>4
  <2> QED
    BY <1>7, <2>3, <2>5
<1>11. PICK s : s = [phase |-> "apply", page |-> page, next |-> next,
           pages |-> old.pages, progress |-> old.progress, quiet |-> old.quiet]
  OBVIOUS
<1> HIDE DEF waiting, page
<1>12. s \in Reader!Pass /\ s.phase = "apply" /\ s.page = page /\ s.next = next
       /\ s.quiet = old.quiet /\ s.progress = old.progress
  BY <1>4, <1>6, <1>7, <1>9, <1>11 DEF Reader!Pass
<1>13. sweep' = [sweep EXCEPT ![d] = s]
  BY <1>1, <1>5, <1>11
<1>14. s.quiet /\ ~s.progress =>
         \A i \in DOMAIN inbox : Stuck(i) \/ i \in s.page \/ (s.next # 0 /\ i > s.next)
  <2>1. SUFFICES ASSUME old.quiet, ~old.progress, NEW i \in DOMAIN inbox, ~Stuck(i)
                 PROVE  i \in page \/ (next # 0 /\ i > next)
    BY <1>12
  <2>2. ~(i <= old.after)
    BY <1>2, <1>5, <2>1 DEF ReaderInv, SweptInv
  <2>3. i \in waiting
    BY <1>4, <1>7, <1>8, <2>1, <2>2
  <2> QED
    BY <1>10, <2>3
<1> QED
  BY <1>2, <1>12, <1>13, <1>14, SweepMoves
\* A sweep settles its page, and goes on, starts again or is done.
LEMMA ApplyStep ==
  ASSUME Reader!ReaderAssumption, ReaderInv, NEW d \in Sweeper, Reader!Apply(d)
  PROVE  ReaderInv'
<1>1. PICK s \in Reader!Pass : s = sweep[d]
  BY ReaderTypes DEF ReaderInv
<1>2. PICK a : a = [mirror |-> mirror, state |-> state, progress |-> s.progress]
  OBVIOUS
<1>3. PICK done : done = Reader!Settled(s.page, a)
  OBVIOUS
<1> DEFINE pages == s.pages + 1
           local ==
             IF s.next # 0 /\ pages < MaxPages
             THEN [phase |-> "read", after |-> s.next, pages |-> pages,
                   progress |-> done.progress, quiet |-> s.quiet]
             ELSE IF done.progress /\ s.next = 0 /\ pages < MaxPages
             THEN [phase |-> "read", after |-> 0, pages |-> pages, progress |-> FALSE, quiet |-> TRUE]
             ELSE [phase |-> "done", quiet |-> s.quiet,
                   cut |-> s.next # 0 \/ (done.progress /\ pages >= MaxPages)]
<1>4. /\ sweep[d].phase = "apply" /\ mirror' = done.mirror /\ state' = done.state
      /\ sweep' = [IF done.state = state THEN sweep ELSE Reader!Disturbed EXCEPT ![d] = local]
      /\ inbox' = inbox
  BY <1>1, <1>2, <1>3 DEF Reader!Apply, Reader!Again
<1>5. /\ inbox \in Seq(Authored) /\ state \in [Authored -> Reader!States]
      /\ \A i, j \in DOMAIN inbox : inbox[i] = inbox[j] => i = j
      /\ {inbox[i] : i \in DOMAIN inbox} = {p \in Authored : state[p] # "absent"}
      /\ mirror \in [Reader!Key -> Authored \cup {NoRow}]
      /\ sweep \in [Sweeper -> Reader!Pass]
  BY ReaderTypes DEF ReaderInv
<1>6. /\ s.phase = "apply" /\ s.page \in SUBSET DOMAIN inbox /\ s.next \in Reader!Place
      /\ s.pages \in Nat /\ s.progress \in BOOLEAN /\ s.quiet \in BOOLEAN
  BY <1>1, <1>4 DEF Reader!Pass, Reader!Idle
<1>7. a \in Acc /\ Sane(a.mirror, a.state)
  BY <1>2, <1>5, <1>6 DEF Acc, ReaderInv
<1>8. Went(a, done, {inbox[i] : i \in s.page})
  BY <1>3, <1>5, <1>6, <1>7, SettledWent
<1>9. done \in Acc /\ Sane(done.mirror, done.state) /\ done.progress \in BOOLEAN
  BY <1>8 DEF Went, Acc
<1>10. MaxPages \in Nat /\ \A i \in DOMAIN inbox : i \in Nat /\ i > 0
  BY <1>5 DEF Reader!ReaderAssumption
<1>11. s.next \in Nat /\ 0 \in Reader!Place
  BY <1>6, <1>10 DEF Reader!Place
<1>12. local \in Reader!Pass
  <2>1. CASE s.next # 0 /\ pages < MaxPages
    BY <1>6, <1>9, <2>1 DEF Reader!Pass
  <2>2. CASE ~(s.next # 0 /\ pages < MaxPages) /\ done.progress /\ s.next = 0 /\ pages < MaxPages
    BY <1>6, <1>9, <1>11, <2>2 DEF Reader!Pass
  <2>3. CASE /\ ~(s.next # 0 /\ pages < MaxPages)
             /\ ~(done.progress /\ s.next = 0 /\ pages < MaxPages)
    BY <1>6, <1>9, <2>3 DEF Reader!Pass
  <2> QED
    BY <2>1, <2>2, <2>3
<1>13. \/ local.phase = "read" /\ local.after = s.next /\ local.quiet = s.quiet
          /\ (local.progress <=> done.progress)
       \/ local.phase = "read" /\ local.after = 0
       \/ local.phase = "done" /\ local.quiet = s.quiet
          /\ (~local.cut => s.next = 0 /\ ~done.progress)
  <2>1. CASE s.next # 0 /\ pages < MaxPages
    BY <1>9, <2>1
  <2>2. CASE ~(s.next # 0 /\ pages < MaxPages) /\ done.progress /\ s.next = 0 /\ pages < MaxPages
    BY <1>11, <2>2
  <2>3. CASE /\ ~(s.next # 0 /\ pages < MaxPages)
             /\ ~(done.progress /\ s.next = 0 /\ pages < MaxPages)
    <3>1. local = [phase |-> "done", quiet |-> s.quiet,
                   cut |-> s.next # 0 \/ (done.progress /\ pages >= MaxPages)]
      BY <2>3
    <3>2. local.cut = (s.next # 0 \/ (done.progress /\ pages >= MaxPages))
      BY <3>1
    <3>3. pages \in Nat
      BY <1>6
    <3>4. pages >= MaxPages \/ pages < MaxPages
      BY <1>10, <3>3
    <3> HIDE DEF local, pages
    <3>5. ~local.cut => ~(s.next # 0 \/ (done.progress /\ pages >= MaxPages))
      BY <3>2, Zenon
    <3>6. ~local.cut => s.next = 0 /\ ~done.progress
      BY <2>3, <3>4, <3>5
    <3>7. local.phase = "done" /\ local.quiet = s.quiet
      BY <3>1
    <3> QED
      BY <3>6, <3>7
  <2> QED
    BY <2>1, <2>2, <2>3
<1>14. PICK l \in Reader!Pass : l = local
  BY <1>12
<1> HIDE DEF local
<1>15. CASE done.state = state
  <2>1. done.mirror = mirror
    BY <1>2, <1>8, <1>15 DEF Went
  <2>2. UNCHANGED <<inbox, state, mirror>> /\ sweep' = [sweep EXCEPT ![d] = l]
    BY <1>4, <1>14, <1>15, <2>1
  <2>3. ASSUME ~done.progress, s.quiet, NEW i \in DOMAIN inbox, s.next = 0 \/ i <= s.next
        PROVE  Stuck(i)
    <3>1. ~s.progress
      BY <1>2, <1>8, <2>3 DEF Went
    <3>2. Stuck(i) \/ i \in s.page
      BY <1>1, <1>4, <1>10, <1>11, <2>3, <3>1 DEF ReaderInv, SweptInv
    <3>3. ASSUME i \in s.page PROVE Stuck(i)
      <4>1. inbox[i] \in {inbox[j] : j \in s.page}
        BY <3>3
      <4>2. state[inbox[i]] = "pending" => Reader!Check(inbox[i], mirror) = "pending"
        BY <1>2, <1>8, <2>3, <4>1 DEF Went
      <4> QED
        BY <4>2 DEF Stuck
    <3> QED
      BY <3>2, <3>3
  <2>4. \A i \in DOMAIN inbox : ~(i <= 0)
    BY <1>10
  <2>5. l.phase = "read" /\ l.quiet /\ ~l.progress => \A i \in DOMAIN inbox : i <= l.after => Stuck(i)
    BY <1>13, <1>14, <2>3, <2>4
  <2>6. l.phase = "done" /\ l.quiet /\ ~l.cut => \A i \in DOMAIN inbox : Stuck(i)
    BY <1>13, <1>14, <2>3
  <2>7. l.phase # "apply"
    BY <1>13, <1>14
  <2> QED
    BY <2>2, <2>5, <2>6, <2>7, SweepMoves
<1>16. CASE done.state # state
  <2>1. done.progress
    BY <1>2, <1>8, <1>16 DEF Went
  <2>2. /\ Reader!Disturbed \in [Sweeper -> Reader!Pass]
        /\ \A e \in Sweeper : Reader!Disturbed[e].phase = "idle" \/ ~Reader!Disturbed[e].quiet
    BY <1>5, DisturbedPass
  <2>3. sweep' = [Reader!Disturbed EXCEPT ![d] = l]
    BY <1>4, <1>14, <1>16
  <2>4. sweep'[d] = l /\ \A e \in Sweeper : e # d => sweep'[e] = Reader!Disturbed[e]
    BY <2>2, <2>3
  <2>5. Reader!TypeOK'
    <3>1. Reader!Pass' = Reader!Pass
      BY <1>4 DEF Reader!Pass, Reader!Place, Reader!Idle
    <3>2. sweep' \in [Sweeper -> Reader!Pass']
      BY <2>2, <2>3, <3>1
    <3>3. state' \in [Authored -> Reader!States] /\ mirror' \in [Reader!Key -> Authored \cup {NoRow}]
      BY <1>4, <1>9 DEF Acc
    <3>4. \A o \in Authored : state'[o] # "absent" <=> state[o] # "absent"
      BY <1>2, <1>4, <1>8 DEF Went
    <3>5. {o \in Authored : state'[o] # "absent"} = {o \in Authored : state[o] # "absent"}
      BY <3>4
    <3> QED
      BY <1>4, <1>5, <3>2, <3>3, <3>5, TypesAfter
  <2>6. Sane(mirror', state')
    BY <1>4, <1>9
  <2>7. SweptInv'
    <3>1. \A i \in DOMAIN inbox : ~(i <= 0)
      BY <1>10
    <3> QED
      BY <1>4, <1>13, <1>14, <2>1, <2>2, <2>4, <3>1 DEF SweptInv
  <2>8. Sane(mirror, state)'
    BY <2>6
  <2> QED
    BY <2>5, <2>7, <2>8 DEF ReaderInv
<1> QED
  BY <1>15, <1>16

\* Every step keeps the invariant.
LEMMA ReaderNext ==
  ASSUME Reader!ReaderAssumption, ReaderInv, [Reader!Next]_Reader!rvars
  PROVE  ReaderInv'
<1>1. ASSUME NEW o \in Authored, Reader!Receive(o) PROVE ReaderInv'
  BY <1>1, ReceiveStep
<1>2. ASSUME NEW d \in Sweeper, Reader!Begin(d) PROVE ReaderInv'
  BY <1>2, BeginStep
<1>3. ASSUME NEW d \in Sweeper, Reader!ReadPage(d) PROVE ReaderInv'
  BY <1>3, ReadPageStep
<1>4. ASSUME NEW d \in Sweeper, Reader!Apply(d) PROVE ReaderInv'
  BY <1>4, ApplyStep
<1>5. ASSUME NEW d \in Sweeper, Reader!Stop(d) PROVE ReaderInv'
  BY <1>5, StopStep
<1>6. CASE UNCHANGED Reader!rvars
  <2>1. inbox' = inbox /\ state' = state /\ mirror' = mirror /\ sweep' = sweep
    BY <1>6 DEF Reader!rvars
  <2>2. Reader!Pass' = Reader!Pass
    BY <2>1 DEF Reader!Pass, Reader!Place, Reader!Idle
  <2>3. Reader!TypeOK'
    BY <2>1, <2>2, ReaderTypes, TypesAfter DEF ReaderInv
  <2>4. Sane(mirror, state)' /\ SweptInv'
    BY <2>1 DEF ReaderInv, SweptInv, Stuck
  <2> QED
    BY <2>3, <2>4 DEF ReaderInv
<1> QED
  BY <1>1, <1>2, <1>3, <1>4, <1>5, <1>6 DEF Reader!Next

\* When no row can be settled, what all the ops together make is applied.
LEMMA SoundIsApplied ==
  ASSUME Reader!ReaderAssumption, ReaderInv, Reader!Range(inbox) = Authored, ~Reader!Movable,
         NEW o \in Reader!Sound
  PROVE  state[o] = "applied"
<1>1. /\ Sane(mirror, state) /\ state \in [Authored -> Reader!States]
      /\ \A p \in Authored : state[p] # "absent"
  <2>1. Reader!Range(inbox) = {inbox[i] : i \in DOMAIN inbox}
    BY DEF Reader!Range
  <2> QED
    BY <2>1, ReaderTypes DEF ReaderInv
<1>2. ASSUME NEW p \in Reader!Sound PROVE state[p] \in {"pending", "applied"}
  <2>1. p \in Authored
    BY Tables
  <2> QED
    BY <1>1, <2>1 DEF Sane, Reader!States
<1>3. ASSUME NEW p \in Authored, state[p] = "pending" PROVE Reader!Check(p, mirror) = "pending"
  BY <1>3 DEF Reader!Movable
<1>4. ASSUME NEW p \in Reader!Annotations
      PROVE  p \in Authored /\ p.table = "annotation" /\ Reader!Row(mirror, "annotation", p.id) # NoRow
  <2>1. p \in Authored /\ p.table = "annotation" /\ p \in Reader!Sound
    BY DEF Reader!Annotations, Reader!Sound
  <2>2. state[p] = "applied"
    BY <1>2, <1>3, <2>1, Decisions
  <2> QED
    BY <1>1, <2>1, <2>2, RowThere
<1>5. ASSUME NEW p \in Reader!Sessions
      PROVE  p \in Authored /\ p.table = "session" /\ state[p] = "applied"
             /\ Reader!Row(mirror, "session", p.id) # NoRow
  <2>1. p \in Authored /\ p.table = "session" /\ p \in Reader!Sound
    BY DEF Reader!Sessions, Reader!Sound
  <2>2. PICK x \in Reader!Annotations : x.id = p.annotation
    BY DEF Reader!Sessions
  <2>3. Reader!Check(p, mirror) # "pending"
    BY <1>4, <2>1, <2>2 DEF Reader!Check, Reader!CheckSession
  <2>4. state[p] = "applied"
    BY <1>2, <1>3, <2>1, <2>3
  <2> QED
    BY <1>1, <2>1, <2>4, RowThere
<1>6. ASSUME NEW p \in Reader!Strokes
      PROVE  p \in Authored /\ p.table = "stroke" /\ state[p] = "applied"
             /\ Reader!Row(mirror, "stroke", p.id) # NoRow
  <2>1. p \in Authored /\ p.table = "stroke" /\ p \in Reader!Sound
    BY DEF Reader!Strokes, Reader!Sound
  <2>2. PICK x \in Reader!Sessions : x.id = p.session
    BY DEF Reader!Strokes
  <2>3. Reader!Check(p, mirror) # "pending"
    BY <1>5, <2>1, <2>2 DEF Reader!Check, Reader!CheckContribution
  <2>4. state[p] = "applied"
    BY <1>2, <1>3, <2>1, <2>3
  <2> QED
    BY <1>1, <2>1, <2>4, RowThere
<1>7. ASSUME NEW p \in Reader!Claims PROVE state[p] = "applied"
  <2>1. p \in Authored /\ p.table = "claim" /\ p \in Reader!Sound
    BY DEF Reader!Claims, Reader!Sound
  <2>2. PICK x \in Reader!Sessions, k \in Reader!Strokes : x.id = p.session /\ k.id = p.stroke
    BY DEF Reader!Claims
  <2>3. Reader!Check(p, mirror) # "pending"
    BY <1>5, <1>6, <2>1, <2>2 DEF Reader!Check, Reader!CheckContribution
  <2> QED
    BY <1>2, <1>3, <2>1, <2>3
<1>8. o \in Reader!Annotations => state[o] = "applied"
  <2>1. ASSUME o \in Reader!Annotations PROVE state[o] = "applied"
    <3>1. o \in Authored /\ o.table = "annotation"
      BY <1>4, <2>1
    <3> QED
      BY <1>2, <1>3, <3>1, Decisions
  <2> QED
    BY <2>1
<1> QED
  BY <1>5, <1>6, <1>7, <1>8 DEF Reader!Sound

\* The invariant says what readers count on.
LEMMA ReaderShows ==
  ASSUME Reader!ReaderAssumption, ReaderInv
  PROVE  ReaderConverges
<1>1. /\ Reader!TypeOK /\ Sane(mirror, state) /\ inbox \in Seq(Authored)
      /\ {inbox[i] : i \in DOMAIN inbox} = {p \in Authored : state[p] # "absent"}
  BY ReaderTypes DEF ReaderInv
<1>2. Reader!Converged
  <2>1. SUFFICES ASSUME Reader!Range(inbox) = Authored, ~Reader!Movable
                 PROVE  /\ \A o \in Authored : state[o] = "applied" <=> o \in Reader!Sound
                        /\ \A k \in Reader!Key :
                             IF mirror[k] = NoRow THEN \A o \in Reader!Sound : Reader!KeyOf(o) # k
                             ELSE /\ mirror[k] \in Reader!Sound /\ Reader!KeyOf(mirror[k]) = k
                                  /\ \A o \in Reader!Sound :
                                       Reader!KeyOf(o) = k => o.at <= mirror[k].at
    BY DEF Reader!Converged
  <2>2. \A o \in Reader!Sound : o \in Authored /\ state[o] = "applied"
    BY <2>1, SoundIsApplied, Tables
  <2> QED
    BY <1>1, <2>2 DEF Sane
<1>3. Reader!SweepDrains
  <2>1. ASSUME NEW d \in Sweeper, sweep[d].phase = "done", sweep[d].quiet, ~sweep[d].cut,
               NEW o \in Authored, state[o] = "pending"
        PROVE  Reader!Check(o, mirror) = "pending"
    <3>1. PICK i \in DOMAIN inbox : inbox[i] = o
      BY <1>1, <2>1
    <3> QED
      BY <2>1, <3>1 DEF ReaderInv, SweptInv, Stuck
  <2> QED
    BY <2>1 DEF Reader!SweepDrains, Reader!Movable
<1> QED
  BY <1>1, <1>2, <1>3 DEF ReaderConverges

\* The mirrors depend on the ops received and not on the order they came in, the pages
\* they fell into or the sweeps that met, and a sweep that nothing met leaves no row it
\* could have settled (reader/store.go:152-328, contract/domain.go:76-170).
THEOREM ReaderStaysConverged == Reader!Spec => []ReaderConverges
<1>1. Reader!ReaderAssumption
  BY BooksAssumption
<1>2. Reader!Init => ReaderInv
  BY <1>1, ReaderStart
<1>3. ReaderInv /\ [Reader!Next]_Reader!rvars => ReaderInv'
  BY <1>1, ReaderNext
<1>4. ReaderInv => ReaderConverges
  BY <1>1, ReaderShows
<1> QED
  BY <1>2, <1>3, <1>4, PTL DEF Reader!Spec
=============================================================================
