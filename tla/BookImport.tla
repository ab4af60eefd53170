------------------------------ MODULE BookImport ------------------------------
(***************************************************************************)
(* internal/boox: the import of books into folders.  A batch reserves its   *)
(* folders, its files become upload_book operations, and one pass of the    *)
(* coordinator at a time creates what is missing on the gateway, request by *)
(* request, and records it when it commits.  Tablets edit and remove what   *)
(* they find at any moment.                                                 *)
(***************************************************************************)
EXTENDS Naturals

CONSTANTS
  Batch,    \* imports of one file in one folder each
  Folder,   \* reserved folder ids: folderToken of a parent and a name
  Book,     \* book contents: equal files share one operation
  FolderOf, BookOf,
  MaxEdits, \* bound: edits and removals by tablets
  MaxLost   \* bound: requests or answers lost on the way, and crashes

ImportAssumption ==
  /\ FolderOf \in [Batch -> Folder] /\ BookOf \in [Batch -> Book]
  /\ MaxEdits \in Nat /\ MaxLost \in Nat

VARIABLES
  folder,   \* folder records on the gateway
  seen,     \* boox_projection of those records
  book,     \* the book's record: absent, live or removed
  op,       \* the upload_book operation of a book
  member,   \* membership records, by book and folder
  seenMember,
  item,     \* boox_book_import_item: the folder and the file of each batch
  message,  \* batches whose message is on the gateway
  pass,     \* the locals of ProcessBookImport
  newer,    \* the library has a newer generation
  edits, lost

bvars == <<folder, seen, book, op, member, seenMember, item, message, pass,
           newer, edits, lost>>

Idle == [step |-> "idle"]

\* A record is removed when its status says so, gone when it answers 404.
RecordStates == {"absent", "live", "removed", "gone"}

\* moved: renamed, or put under another parent.
FolderRecord == [state : RecordStates, rev : Nat, moved : BOOLEAN]
NoFolder == [state |-> "absent", rev |-> 0, moved |-> FALSE]

NoItem == [file |-> "none", folder |-> "none", revision |-> 0]

TypeOK ==
  /\ folder \in [Folder -> FolderRecord] /\ seen \in [Folder -> FolderRecord]
  /\ book \in [Book -> {"absent", "live", "removed"}]
  /\ op \in [Book -> {"none", "queued", "published", "blocked"}]
  /\ member \in [Book \X Folder -> RecordStates]
  /\ seenMember \in [Book \X Folder -> RecordStates]
  /\ item \in [Batch -> [file : {"none", "waiting", "queued", "published", "blocked"},
                         folder : {"none", "waiting", "published"}, revision : Nat]]
  /\ message \subseteq Batch
  /\ pass \in {Idle} \cup [step : {"folder", "create", "created", "book", "member", "shelve",
                                   "message", "finish"},
                           batch : Batch]
  /\ newer \in BOOLEAN /\ edits \in 0..MaxEdits /\ lost \in 0..MaxLost

Init ==
  /\ folder = [f \in Folder |-> NoFolder] /\ seen = [f \in Folder |-> NoFolder]
  /\ book = [k \in Book |-> "absent"] /\ op = [k \in Book |-> "none"]
  /\ member = [m \in Book \X Folder |-> "absent"]
  /\ seenMember = [m \in Book \X Folder |-> "absent"]
  /\ item = [b \in Batch |-> NoItem]
  /\ message = {} /\ pass = Idle /\ newer = FALSE
  /\ edits = 0 /\ lost = 0

\* The lock boox-native-writes: passes, plans, uploads, publications and the
\* feed exclude each other.
Unlocked == pass = Idle

Gateway == UNCHANGED <<folder, book, member, message>>
Rest == UNCHANGED <<newer, edits, lost>>

-----------------------------------------------------------------------------
(* Tablets, the feed and the publisher.                                     *)

EditFolder(f) ==
  /\ edits < MaxEdits /\ folder[f].state \in {"live", "removed"}
  /\ \E s \in {"live", "removed", "gone"}, m \in BOOLEAN :
       folder' = [folder EXCEPT ![f] = [state |-> s, rev |-> @.rev + 1, moved |-> m]]
  /\ edits' = edits + 1
  /\ UNCHANGED <<seen, book, op, member, seenMember, item, message, pass, newer, lost>>

RemoveBook(k) ==
  /\ edits < MaxEdits /\ book[k] = "live"
  /\ book' = [book EXCEPT ![k] = "removed"]
  /\ edits' = edits + 1
  /\ UNCHANGED <<folder, seen, op, member, seenMember, item, message, pass, newer, lost>>

RemoveMember(m) ==
  /\ edits < MaxEdits /\ member[m] = "live"
  /\ member' = [member EXCEPT ![m] = "removed"]
  /\ edits' = edits + 1
  /\ UNCHANGED <<folder, seen, book, op, seenMember, item, message, pass, newer, lost>>

\* Observe, by which a record that is gone leaves the projection.
Observe ==
  /\ Unlocked
  /\ seen' = [f \in Folder |-> IF folder[f].state = "gone" THEN NoFolder ELSE folder[f]]
  /\ seenMember' = member
  /\ UNCHANGED <<op, item, pass>> /\ Gateway /\ Rest

\* publishOne on an upload_book operation.
PublishBook(k) ==
  /\ Unlocked /\ op[k] = "queued"
  /\ \/ op' = [op EXCEPT ![k] = "published"] /\ book' = [book EXCEPT ![k] = "live"]
     \/ op' = [op EXCEPT ![k] = "blocked"] /\ UNCHANGED book
  /\ UNCHANGED <<folder, seen, member, seenMember, item, message, pass>> /\ Rest

Replace ==
  /\ Unlocked /\ ~newer
  /\ newer' = TRUE
  /\ UNCHANGED <<seen, op, seenMember, item, pass, edits, lost>> /\ Gateway

-----------------------------------------------------------------------------
(* The owner: createBookImport, acceptImportFile, retry.                    *)

\* A folder in the observed tree is used at its revision; otherwise the batch
\* reserves the id every batch gives this name under this parent.
Create(b) ==
  /\ Unlocked /\ ~newer /\ item[b] = NoItem
  /\ LET f == seen[FolderOf[b]]
     IN item' = [item EXCEPT ![b] = [file |-> "waiting", folder |-> "waiting",
                   revision |-> IF f.state = "live" /\ ~f.moved THEN f.rev ELSE 0]]
  /\ UNCHANGED <<seen, op, seenMember, pass>> /\ Gateway /\ Rest

\* queueBookTx: an operation of these bytes is reused.  Nothing happens when the
\* projection already shows that its book was removed.
AcceptFile(b) ==
  /\ Unlocked /\ ~newer /\ item[b].file = "waiting"
  /\ op' = [op EXCEPT ![BookOf[b]] = IF @ = "none" THEN "queued" ELSE @]
  /\ item' = [item EXCEPT ![b].file = "queued"]
  /\ UNCHANGED <<seen, seenMember, pass>> /\ Gateway /\ Rest

Retry(b) ==
  /\ Unlocked /\ ~newer /\ item[b].file = "blocked"
  /\ item' = [item EXCEPT ![b].file = "queued"]
  /\ UNCHANGED <<seen, op, seenMember, pass>> /\ Gateway /\ Rest

-----------------------------------------------------------------------------
(* ProcessBookImport.                                                       *)

Go(step) == pass' = [pass EXCEPT !.step = step]

\* finish: the transaction commits and the pass is over.
Commit(row) ==
  /\ item' = [item EXCEPT ![pass.batch] = row]
  /\ pass' = Idle

Blocked == [item[pass.batch] EXCEPT !.file = "blocked"]

Start(b) ==
  /\ Unlocked
  /\ item[b].file = "queued"
  /\ newer \/ op[BookOf[b]] \in {"published", "blocked"}
  /\ IF newer \/ op[BookOf[b]] # "published"
     THEN item' = [item EXCEPT ![b].file = "blocked"] /\ UNCHANGED pass
     ELSE pass' = [step |-> "folder", batch |-> b] /\ UNCHANGED item
  /\ UNCHANGED <<seen, op, seenMember>> /\ Gateway /\ Rest

\* Fault: only this batch's own row tells that the folder was created.
CreatedByThis(f) == item[pass.batch].folder = "published"

\* previouslyPublished, whichever batch recorded it.
CreatedBefore(f) == \E b \in Batch : FolderOf[b] = f /\ item[b].folder = "published"

\* importFolder: an existing folder is used as it was previewed or reserved.
Usable(r, revision) ==
  /\ r.state = "live" /\ ~r.moved
  /\ revision # 0 => r.rev = revision

ReadFolder ==
  LET f == FolderOf[pass.batch]
      row == item[pass.batch]
  IN /\ pass.step = "folder"
     /\ IF seen[f].state = "removed" THEN Commit(Blocked)
        ELSE IF Usable(folder[f], row.revision) THEN Go("book") /\ UNCHANGED item
        ELSE IF folder[f].state \in {"absent", "gone"} /\ ~CreatedBefore(f) /\ row.revision = 0
        THEN Go("create") /\ UNCHANGED item
        ELSE Commit(Blocked)
     /\ UNCHANGED <<seen, op, seenMember>> /\ Gateway /\ Rest

\* putIdempotent.
CreateFolder ==
  LET f == FolderOf[pass.batch]
  IN /\ pass.step = "create"
     /\ folder' = [folder EXCEPT ![f] = IF @.state \in {"absent", "gone"}
                     THEN [state |-> "live", rev |-> @.rev + 1, moved |-> FALSE] ELSE @]
     /\ Go("created")
     /\ UNCHANGED <<seen, book, op, member, seenMember, item, message>> /\ Rest

\* One new folder per pass: the file stays queued.
CommitCreated ==
  /\ pass.step = "created"
  /\ Commit([item[pass.batch] EXCEPT !.folder = "published"])
  /\ UNCHANGED <<seen, op, seenMember>> /\ Gateway /\ Rest

ReadBook ==
  /\ pass.step = "book"
  /\ IF book[BookOf[pass.batch]] = "live" THEN Go("member") /\ UNCHANGED item
     ELSE Commit([Blocked EXCEPT !.folder = "published"])
  /\ UNCHANGED <<seen, op, seenMember>> /\ Gateway /\ Rest

Shelved(k, f) == seenMember[<<k, f>>] = "live"

\* The shelf is decided on the projection, the record is read.
ReadMember ==
  LET k == BookOf[pass.batch]
      f == FolderOf[pass.batch]
      elsewhere == \E g \in Folder \ {f} : Shelved(k, g)
  IN /\ pass.step = "member"
     /\ IF (~Shelved(k, f) /\ elsewhere) \/ member[<<k, f>>] = "removed"
        THEN Commit([Blocked EXCEPT !.folder = "published"])
        ELSE /\ Go(IF member[<<k, f>>] = "live" THEN "message" ELSE "shelve")
             /\ UNCHANGED item
     /\ UNCHANGED <<seen, op, seenMember>> /\ Gateway /\ Rest

Shelve ==
  /\ pass.step = "shelve"
  /\ member' = [member EXCEPT ![<<BookOf[pass.batch], FolderOf[pass.batch]>>] = "live"]
  /\ Go("message")
  /\ UNCHANGED <<folder, seen, book, op, seenMember, item, message>> /\ Rest

SendMessage ==
  /\ pass.step = "message"
  /\ message' = message \cup {pass.batch}
  /\ Go("finish")
  /\ UNCHANGED <<folder, seen, book, op, member, seenMember, item>> /\ Rest

Finish ==
  /\ pass.step = "finish"
  /\ Commit([item[pass.batch] EXCEPT !.folder = "published", !.file = "published"])
  /\ UNCHANGED <<seen, op, seenMember>> /\ Gateway /\ Rest

\* A transport error: the file stays queued, what the pass found is recorded.
GivesUp ==
  Commit(IF pass.step \in {"folder", "create", "created"} THEN item[pass.batch]
         ELSE [item[pass.batch] EXCEPT !.folder = "published"])

\* A request that never arrived; the answer to one that was carried out is
\* lost where the next step would begin.
RequestLost ==
  /\ pass # Idle /\ lost < MaxLost
  /\ lost' = lost + 1
  /\ GivesUp
  /\ UNCHANGED <<seen, op, seenMember, newer, edits>> /\ Gateway

Crash ==
  /\ pass # Idle /\ lost < MaxLost
  /\ lost' = lost + 1
  /\ pass' = Idle
  /\ UNCHANGED <<seen, op, seenMember, item, newer, edits>> /\ Gateway

-----------------------------------------------------------------------------
Coordinator ==
  \/ \E b \in Batch : Start(b)
  \/ ReadFolder \/ CreateFolder \/ CommitCreated \/ ReadBook \/ ReadMember \/ Shelve
  \/ SendMessage \/ Finish \/ RequestLost \/ Crash

Next ==
  \/ \E f \in Folder : EditFolder(f)
  \/ \E k \in Book : RemoveBook(k) \/ PublishBook(k)
  \/ \E m \in Book \X Folder : RemoveMember(m)
  \/ Observe \/ Replace
  \/ \E b \in Batch : Create(b) \/ AcceptFile(b) \/ Retry(b)
  \/ Coordinator

Spec == Init /\ [][Next]_bvars

-----------------------------------------------------------------------------
(* Properties.                                                              *)

\* A file reported as imported is: its folder, its book and its place on the
\* shelf were created, however many requests were lost, and tablets were told.
ImportedWhole ==
  \A b \in Batch : item[b].file = "published" =>
    /\ b \in message
    /\ folder[FolderOf[b]].state # "absent"
    /\ book[BookOf[b]] # "absent"
    /\ member[<<BookOf[b], FolderOf[b]>>] # "absent"

\* What a tablet removed, no import brings back, once one of them had recorded
\* that it created it; a later batch on the same folder is no exception.
RestoresNothing ==
  /\ \A f \in Folder : folder[f].state \in {"removed", "gone"} /\ pass # Idle
       /\ folder'[f].state = "live" /\ edits' = edits =>
       ~\E b \in Batch : FolderOf[b] = f /\ item[b].folder = "published"
  /\ \A m \in Book \X Folder : member[m] = "removed" => member'[m] = "removed"
=============================================================================
