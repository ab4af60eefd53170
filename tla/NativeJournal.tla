--------------------------- MODULE NativeJournal ----------------------------
(***************************************************************************)
(* Publication of the server's own changes to native BOOX records: the      *)
(* operation journal boox_operation and PublishOne, which writes a record,  *)
(* its commit and its MESSAGE through the Gateway, against devices that     *)
(* edit the same records, lost and late answers, crashes, permanent removal *)
(* and replacement of the library.                                          *)
(*                                                                          *)
(* One transaction of PublishOne spans all its Gateway calls and holds      *)
(* notebookWriteLock and the library generation FOR SHARE; every error      *)
(* rolls it back.  The advisory lock lets one such transaction run, so it   *)
(* is one variable, tx.                                                     *)
(***************************************************************************)
EXTENDS Naturals, FiniteSets

CONSTANTS
  Doc,          \* native records the operations are about
  NoDoc,        \* the document of an unused row
  MaxOps,       \* bound: operations are numbered by next_attempt_at
  MaxRev,       \* bound: devices leave a record alone from this revision on
  MaxGen,       \* bound: how often the library is replaced
  MaxLate,      \* bound: writes under way whose caller has given up
  Offered,      \* kinds of operation there are about each document
  Overtaking,   \* may a transaction commit before one that began earlier?
  KeepsMarker,  \* may a device's edit keep, or drop, the fields it does not know?
  DeviceDeletes \* may a device delete a record an operation is about?

\* rename_note, move_note and set_note_status (restore_reader_fields, which writes
\* a second record, is left out); repair_asset; upload_book and
\* create_text_note; library_create; library_update.
Kinds == {"edit", "repair", "create", "shelf", "change"}

ASSUME JournalAssumption ==
  /\ NoDoc \notin Doc
  /\ MaxOps \in Nat /\ MaxRev \in Nat /\ MaxGen \in Nat /\ MaxLate \in Nat
  /\ Offered \in [Doc -> SUBSET Kinds] /\ Overtaking \in BOOLEAN
  /\ KeepsMarker \subseteq BOOLEAN /\ DeviceDeletes \in BOOLEAN

VARIABLES
  gw,         \* the Gateway's record of each document
  proj,       \* boox_projection: the record Observe saw last
  ops,        \* boox_operation
  generation, \* sync_library_generation
  purged,     \* boox_notebook_purged
  tx,         \* PublishOne
  late,       \* writes whose caller has given up on the answer
  wrote,      \* history: the record writes the Gateway accepted
  commits, messages \* operations whose commit and MESSAGE documents exist

vars == <<gw, proj, ops, generation, purged, tx, late, wrote, commits, messages>>

Op == 1..MaxOps
NoOp == 0

\* rev 0: no such record.  marker: its alexandriaOperationId.
Record == [rev : Nat, marker : Op \cup {NoOp}, live : BOOLEAN]
Absent == [rev |-> 0, marker |-> NoOp, live |-> FALSE]
Present == [rev |-> 1, marker |-> NoOp, live |-> TRUE]

States == {"none", "preview", "queued", "assets_published", "published", "blocked", "superseded", "cancelled"}

\* The states record_published and commit_published are written inside the
\* publishing transaction only, so no other transaction sees them.
OpRow ==
  [state : States, code : {"none", "stale", "replaced"}, kind : Kinds, doc : Doc \cup {NoDoc}, started : BOOLEAN,
   made : Nat,                 \* created_at
   gen : Nat, expected : Nat, after : Op \cup {NoOp}, published : Nat,
   replaces : Op \cup {NoOp},  \* payload.replacedBy
   withdrawn : BOOLEAN]        \* history: the owner cancelled it

Publishing == {"read", "lookup", "put", "reread", "commit", "message", "finish"}

Phases == {"idle", "selected"} \cup Publishing


Write == [op : Op, what : {"record", "commit", "message"}, base : Nat]

Idle == [phase |-> "idle", op |-> NoOp, rev |-> 0]

Unused ==
  [state |-> "none", code |-> "none", kind |-> "edit", doc |-> NoDoc, started |-> FALSE,
   made |-> 0, gen |-> 0, expected |-> 0, after |-> NoOp, published |-> 0, replaces |-> NoOp, withdrawn |-> FALSE]

Init ==
  /\ gw \in [Doc -> {Absent, Present}]
  /\ proj = gw
  /\ ops = [o \in Op |-> Unused]
  /\ generation = 0 /\ purged = {}
  /\ tx = Idle /\ late = {}
  /\ wrote = {} /\ commits = {} /\ messages = {}

-----------------------------------------------------------------------------
\* Holders of notebookWriteLock run when no publishing transaction is open;
\* between its start marker and its second transaction PublishOne holds no lock.
LockFree == tx.phase \in {"idle", "selected"}

Free(o) == ops[o].state = "none"
Library(o) == ops[o].kind \in {"shelf", "change"}
Creates(o) == ops[o].kind \in {"create", "shelf"}
Due(o) == ops[o].state \in {"queued", "assets_published"}

\* Well-formed state; an open transaction's operation waits to be published.
TypeOK ==
  /\ gw \in [Doc -> Record] /\ proj \in [Doc -> Record]
  /\ ops \in [Op -> OpRow]
  /\ generation \in Nat
  /\ purged \subseteq Doc
  /\ tx \in [phase : Phases, op : Op \cup {NoOp}, rev : Nat]
  /\ \A o \in Op : ops[o].doc = NoDoc <=> Free(o)
  /\ tx.phase \in Publishing => tx.op \in Op /\ Due(tx.op) /\ ops[tx.op].started
  /\ late \subseteq Write
  /\ wrote \subseteq [op : Op, base : Nat, rev : Nat]
  /\ commits \subseteq Op /\ messages \subseteq Op

\* ORDER BY next_attempt_at, created_at.  A failed attempt touches neither.
Head(o) == Due(o) /\ \A p \in Op : Due(p) => p >= o

\* Gateway revisions: a PUT names the revision it replaces, or none.
Accepts(d, base) == IF base = 0 THEN ~gw[d].live ELSE gw[d].live /\ gw[d].rev = base

Put(o, base) ==
  LET d == ops[o].doc
  IN /\ gw' = [gw EXCEPT ![d] = [rev |-> @.rev + 1, marker |-> o, live |-> TRUE]]
     /\ wrote' = wrote \cup {[op |-> o, base |-> gw[d].rev, rev |-> gw[d].rev + 1]}

-----------------------------------------------------------------------------
(* Devices, the observer and the network.                                   *)

DeviceEdits(d, keep) ==
  /\ gw[d].live /\ gw[d].rev < MaxRev
  /\ gw' = [gw EXCEPT ![d] = [rev |-> @.rev + 1, marker |-> IF keep THEN @.marker ELSE NoOp, live |-> TRUE]]
  /\ UNCHANGED <<proj, ops, generation, purged, tx, late, wrote, commits, messages>>

DeviceDeletesRecord(d) ==
  /\ DeviceDeletes /\ gw[d].live /\ gw[d].rev < MaxRev
  /\ gw' = [gw EXCEPT ![d] = [rev |-> @.rev + 1, marker |-> @.marker, live |-> FALSE]]
  /\ UNCHANGED <<proj, ops, generation, purged, tx, late, wrote, commits, messages>>

\* Observe projects the Gateway's winner; it does not project purged identities.
Observe(d) ==
  /\ LockFree /\ d \notin purged
  /\ proj' = [proj EXCEPT ![d] = IF gw[d].live THEN gw[d] ELSE Absent]
  /\ proj' # proj
  /\ UNCHANGED <<gw, ops, generation, purged, tx, late, wrote, commits, messages>>

\* A write whose answer the server did not wait for arrives after all ...
Arrives(m) ==
  /\ late' = late \ {m}
  /\ CASE m.what = "record" /\ Accepts(ops[m.op].doc, m.base) ->
            Put(m.op, m.base) /\ UNCHANGED <<commits, messages>>
       [] m.what = "commit" -> commits' = commits \cup {m.op} /\ UNCHANGED <<gw, wrote, messages>>
       [] m.what = "message" -> messages' = messages \cup {m.op} /\ UNCHANGED <<gw, wrote, commits>>
       [] OTHER -> UNCHANGED <<gw, wrote, commits, messages>>
  /\ UNCHANGED <<proj, ops, generation, purged, tx>>

\* ... or never.
Lost(m) ==
  /\ late' = late \ {m}
  /\ UNCHANGED <<gw, proj, ops, generation, purged, tx, wrote, commits, messages>>

-----------------------------------------------------------------------------
(* The owner's side.                                                        *)

\* next_attempt_at is the time a transaction began, and it may have waited for
\* the lock behind one that began later: then its number is lower than theirs.
NextFree(o) == Free(o) /\ (Overtaking \/ \A p \in Op : p < o => ~Free(p))

New(k, d, state) ==
  [Unused EXCEPT !.state = state, !.kind = k, !.doc = d, !.gen = generation,
                 !.made = Cardinality({p \in Op : ~Free(p)}) + 1]

OwnerOnly == UNCHANGED <<gw, proj, generation, purged, tx, late, wrote, commits, messages>>

\* A change of a known record expects the revision the owner was shown.
QueueEdit(o, d) ==
  /\ NextFree(o) /\ LockFree
  /\ proj[d].live /\ d \notin purged
  /\ ops' = [ops EXCEPT ![o] = [New("edit", d, "queued") EXCEPT !.expected = proj[d].rev]]
  /\ OwnerOnly

\* The recovery tools take no lock; Execute queues what was previewed.
Preview(o, k, d) ==
  /\ NextFree(o) /\ proj[d].live
  /\ ops' = [ops EXCEPT ![o] = [New(k, d, "preview") EXCEPT !.expected = proj[d].rev]]
  /\ OwnerOnly

Execute(o) ==
  /\ ops[o].state = "preview"
  /\ ops' = [ops EXCEPT ![o].state = "queued"]
  /\ OwnerOnly

\* New records get an identity nobody has used.
Fresh(d) == gw[d].rev = 0 /\ \A p \in Op : ops[p].state # "none" => ops[p].doc # d

QueueCreate(o, k, d) ==
  /\ NextFree(o) /\ LockFree /\ Fresh(d)
  /\ ops' = [ops EXCEPT ![o] = New(k, d, "queued")]
  /\ OwnerOnly

\* Fault: the old note is retired first.
RetireFirst(o, d, old) ==
  [ops EXCEPT ![o] = [New("edit", old, "queued") EXCEPT !.expected = proj[old].rev, !.replaces = o + 1],
              ![o + 1] = New("create", d, "queued")]

RetireLast(o, d, old) ==
  [ops EXCEPT ![o] = New("create", d, "queued"),
              ![o + 1] = [New("edit", old, "queued") EXCEPT !.expected = proj[old].rev, !.replaces = o]]

\* QueueTextNote with Replace: the new note, then the retirement of the old one.
QueueReplacement(o, d, old) ==
  /\ o + 1 \in Op /\ NextFree(o) /\ Free(o + 1) /\ LockFree /\ Fresh(d)
  /\ proj[old].live
  /\ ops' = RetireLast(o, d, old)
  /\ OwnerOnly

\* librarySnapshot: a library operation counts until the projection shows it.
Pending(p, d) ==
  /\ ops[p].doc = d /\ ops[p].kind \in {"create", "shelf", "change"}
  /\ \/ Due(p)
     \/ /\ ops[p].state = "published"
        /\ proj[d].marker # p /\ proj[d].rev < ops[p].published

\* A change of a record with pending changes is chained behind the last one.
QueueChange(o, d) ==
  LET behind == {p \in Op : Pending(p, d)}
  IN /\ NextFree(o) /\ LockFree /\ d \notin purged
     /\ proj[d].live \/ \E p \in behind : Creates(p)
     /\ \/ /\ behind = {}
           /\ ops' = [ops EXCEPT ![o] = [New("change", d, "queued") EXCEPT !.expected = proj[d].rev]]
        \/ \E last \in behind :
             /\ \A q \in behind : ops[last].made >= ops[q].made
             /\ ops' = [ops EXCEPT ![o] = [New("change", d, "queued") EXCEPT !.after = last]]
     /\ OwnerOnly

\* Fault: a started operation can still be cancelled.
CancellableQueued(o) == ops[o].state = "queued"

\* Only an operation of a batch, that has not started.
Cancellable(o) == ops[o].state = "queued" /\ ~ops[o].started

Cancel(o) ==
  /\ ops[o].kind = "edit" /\ ops[o].replaces = NoOp
  /\ Cancellable(o)
  /\ ops' = [ops EXCEPT ![o].state = "cancelled", ![o].withdrawn = TRUE]
  /\ OwnerOnly

\* The admission of a permanent removal (purgeStep, state queued).
AdmitPurge(d) ==
  /\ LockFree /\ d \notin purged
  /\ gw[d].live /\ proj[d] = gw[d]
  /\ "change" \notin Offered[d]
  /\ purged' = purged \cup {d}
  /\ ops' = [o \in Op |-> IF ops[o].doc = d /\ ops[o].state \notin {"none", "cancelled"}
                          THEN [ops[o] EXCEPT !.state = "cancelled"] ELSE ops[o]]
  /\ UNCHANGED <<gw, proj, generation, tx, late, wrote, commits, messages>>

\* A restore publishes a new library generation; it waits for the row lock.
ReplaceLibrary ==
  /\ LockFree /\ generation < MaxGen
  /\ generation' = generation + 1
  /\ UNCHANGED <<gw, proj, ops, purged, tx, late, wrote, commits, messages>>

-----------------------------------------------------------------------------
(* PublishOne.                                                              *)

To(phase) == tx' = [tx EXCEPT !.phase = phase]

Holding(rev, phase) == tx' = [tx EXCEPT !.rev = rev, !.phase = phase]

Local == UNCHANGED <<gw, proj, generation, purged, late, wrote, commits, messages>>

\* The transaction changes nothing but the operation and commits.
End(o, row) == tx' = Idle /\ ops' = [ops EXCEPT ![o] = row] /\ Local

Block(o, code) == End(o, [ops[o] EXCEPT !.state = "blocked", !.code = code])

Rollback == tx' = Idle /\ UNCHANGED ops /\ Local

\* Fault: the generation is checked when an operation starts, not when it resumes.
CurrentAtStart(o) == ops[o].gen = generation \/ ops[o].started

Current(o) == ops[o].gen = generation

\* The first transaction marks the operation started, before any external write.
Start(o) ==
  /\ tx = Idle /\ Head(o) /\ ~ops[o].started
  /\ IF Current(o)
     THEN /\ ops' = [ops EXCEPT ![o].started = TRUE]
          /\ tx' = [Idle EXCEPT !.phase = "selected", !.op = o]
          /\ Local
     ELSE Block(o, "replaced")

\* The second one takes that operation, or the head if it was started before.
Open(o) ==
  /\ \/ tx = Idle /\ Head(o) /\ ops[o].started
     \/ tx.phase = "selected" /\ tx.op = o
  /\ IF ~Due(o) THEN Rollback
     ELSE IF ~Current(o) THEN Block(o, "replaced")
     ELSE IF ops[o].doc \in purged THEN End(o, [ops[o] EXCEPT !.state = "cancelled"])
     ELSE /\ tx' = [op |-> o, rev |-> 0, phase |-> IF Creates(o) THEN "lookup" ELSE "read"]
          /\ UNCHANGED ops /\ Local

\* Fault: the operation's own earlier write is not recognized.
OwnForgotten(o) == FALSE

\* Fault: a started operation is taken for a written one.
OwnAssumed(o) == ops[o].started

\* The record carries this operation's marker: an earlier attempt wrote it.
Own(o) == gw[ops[o].doc].marker = o

\* The revision an operation may replace.
Fence(o) == IF ops[o].after = NoOp THEN ops[o].expected ELSE ops[ops[o].after].published

\* Fault: whatever revision is live is taken for the expected one.
StaleIfGone(o) == Fence(o) = 0

Stale(o) == Fence(o) = 0 \/ gw[ops[o].doc].rev # Fence(o)

\* Fault: a blocked predecessor is waited for.
AheadUnpublished(o) == LET p == ops[o].after IN p # NoOp /\ ops[p].state # "published"

\* The predecessor of a chained change has not been published yet.
AheadPending(o) ==
  LET p == ops[o].after IN p # NoOp /\ ops[p].state = "queued" /\ ops[p].published = 0

\* GET the record to be changed; a missing one is an error, except for a library
\* change.  The destination, shelf or asset the operation refers to is read as
\* well and may have changed.
Read(o) ==
  LET d == ops[o].doc
      first == ops[o].kind = "repair" /\ ops[o].state = "queued"
      resume == IF Library(o) THEN To("reread") ELSE Holding(gw[d].rev, "commit")
      replace == Holding(gw[d].rev, "put")
  IN /\ tx.phase = "read" /\ tx.op = o
     /\ IF ~gw[d].live THEN IF Library(o) THEN Block(o, "stale") ELSE Rollback
        ELSE IF first
        THEN \/ Stale(o) /\ Block(o, "stale")
             \/ ~Stale(o) /\ Block(o, "none")
             \/ ~Stale(o) /\ End(o, [ops[o] EXCEPT !.state = "assets_published"])
        ELSE IF Own(o) THEN resume /\ UNCHANGED ops /\ Local
        ELSE IF Library(o) /\ AheadPending(o) THEN Rollback
        ELSE \/ Stale(o) /\ Block(o, "stale")
             \/ ~Stale(o) /\ Block(o, "none")
             \/ ~Stale(o) /\ replace /\ UNCHANGED ops /\ Local

\* putIdempotent of a new record; a library record with a collision, or without
\* its shelf, blocks.
Lookup(o) ==
  LET d == ops[o].doc
  IN /\ tx.phase = "lookup" /\ tx.op = o
     /\ \/ Library(o) /\ Block(o, "none")
        \/ ~gw[d].live /\ Holding(0, "put") /\ UNCHANGED ops /\ Local
        \/ gw[d].live /\ Own(o) /\ To("reread") /\ UNCHANGED ops /\ Local
        \/ gw[d].live /\ ~Own(o) /\ ~Library(o) /\ Rollback

\* The record is written if nobody was faster; an edit knows its revision.
PutRecord(o) ==
  LET d == ops[o].doc
  IN /\ tx.phase = "put" /\ tx.op = o
     /\ IF Accepts(d, tx.rev)
        THEN /\ Put(o, tx.rev)
             /\ IF ops[o].kind \in {"edit", "repair"} THEN Holding(gw[d].rev + 1, "commit") ELSE To("reread")
             /\ UNCHANGED <<proj, ops, generation, purged, late, commits, messages>>
        ELSE Rollback

\* The others read the record again.  A library record other than a highlight or
\* a bookmark has no commit.
Reread(o) ==
  LET d == ops[o].doc
  IN /\ tx.phase = "reread" /\ tx.op = o
     /\ IF ~gw[d].live THEN Rollback
        ELSE IF Own(o)
        THEN \E phase \in IF Library(o) THEN {"commit", "message"} ELSE {"commit"} :
               Holding(gw[d].rev, phase) /\ UNCHANGED ops /\ Local
        ELSE End(o, [ops[o] EXCEPT !.state = "superseded", !.published = gw[d].rev])

PutCommit(o) ==
  /\ tx.phase = "commit" /\ tx.op = o
  /\ commits' = commits \cup {o} /\ To("message")
  /\ UNCHANGED <<gw, proj, ops, generation, purged, late, wrote, messages>>

PutMessage(o) ==
  /\ tx.phase = "message" /\ tx.op = o
  /\ messages' = messages \cup {o} /\ To("finish")
  /\ UNCHANGED <<gw, proj, ops, generation, purged, late, wrote, commits>>

Finish(o) ==
  /\ tx.phase = "finish" /\ tx.op = o
  /\ End(o, [ops[o] EXCEPT !.state = "published", !.published = tx.rev])

\* The answer to a PUT does not come; the request may still arrive.
Unanswered(o) ==
  /\ tx.op = o /\ Cardinality(late) < MaxLate
  /\ \/ tx.phase = "put" /\ late' = late \cup {[op |-> o, what |-> "record", base |-> tx.rev]}
     \/ tx.phase = "commit" /\ late' = late \cup {[op |-> o, what |-> "commit", base |-> 0]}
     \/ tx.phase = "message" /\ late' = late \cup {[op |-> o, what |-> "message", base |-> 0]}
  /\ tx' = Idle
  /\ UNCHANGED <<gw, proj, ops, generation, purged, wrote, commits, messages>>

\* An error of the Gateway or the database, or a crash, anywhere.
Fails == tx # Idle /\ Rollback

-----------------------------------------------------------------------------
Device ==
  \/ \E d \in Doc, keep \in KeepsMarker : DeviceEdits(d, keep)
  \/ \E d \in Doc : DeviceDeletesRecord(d)

Owner ==
  \/ \E o \in Op, d \in Doc :
       \/ "edit" \in Offered[d] /\ QueueEdit(o, d)
       \/ "change" \in Offered[d] /\ QueueChange(o, d)
       \/ \E k \in Offered[d] \cap {"edit", "repair"} : Preview(o, k, d)
       \/ \E k \in Offered[d] \cap {"create", "shelf"} : QueueCreate(o, k, d)
       \/ "create" \in Offered[d] /\ \E old \in Doc : "repair" \in Offered[old] /\ QueueReplacement(o, d, old)
  \/ \E o \in Op : Execute(o) \/ Cancel(o)
  \/ \E d \in Doc : AdmitPurge(d)
  \/ ReplaceLibrary

Publish ==
  \E o \in Op : \/ Start(o) \/ Open(o) \/ Read(o) \/ Lookup(o) \/ PutRecord(o)
               \/ Reread(o) \/ PutCommit(o) \/ PutMessage(o) \/ Finish(o)

Trouble == (\E o \in Op : Unanswered(o)) \/ Fails \/ (\E m \in late : Arrives(m) \/ Lost(m))

Next == Device \/ Owner \/ (\E d \in Doc : Observe(d)) \/ Publish \/ Trouble

Spec == Init /\ [][Next]_vars

(* The background loop of every process calls PublishOne again and again     *)
(* (main.go, Runtime.ProcessNativeBOOX).  Nothing else is assumed.           *)
FairSpec == Spec /\ WF_vars(Publish)

-----------------------------------------------------------------------------
(* What the journal promises.                                               *)

Written(o) == \E w \in wrote : w.op = o

\* Native wins: every record an operation replaced is the revision its owner was
\* shown, whatever devices, late answers and crashes did meanwhile (the fence
\* check of publishOne and publishLibrary; chained changes aside).
EditsFenced ==
  \A w \in wrote : ops[w.op].after = NoOp /\ ~Creates(w.op) => w.base = ops[w.op].expected

\* In well-formed states (boox/journal.go:163-343).
NativeWins == TypeOK /\ EditsFenced

\* An operation reported as blocked by a native edit has not changed the record,
\* even if the answer to its write was lost (the marker check of publishOne), as
\* long as devices keep unknown fields and nobody deleted the record since.
Deleted(d) == ~gw[d].live \/ \E w \in wrote : ops[w.op].doc = d /\ Creates(w.op) /\ w.base # 0

BlockedUntouched ==
  KeepsMarker = {TRUE} =>
    \A o \in Op : ops[o].code = "stale" /\ ~Deleted(ops[o].doc) => ~Written(o)

\* A cancelled operation never reaches the tablets, not even late: the start
\* marker is committed before the first external write.
CancelKept ==
  \A o \in Op : ops[o].withdrawn => ~Written(o) /\ \A m \in late : m.op # o

\* Tablets hear of an operation only after its record, and its commit, can be
\* read, and an operation is published only after they have heard.
NotificationChain ==
  \A o \in Op : /\ o \in messages => Written(o) /\ (Library(o) \/ o \in commits)
                /\ ops[o].state = "published" => o \in messages

\* The note that was replaced is retired only after its replacement exists: the
\* queue order of QueueTextNote survives failures, restarts and replacements.
RetiredAfterReplacement ==
  \A o \in Op : ops[o].replaces # NoOp /\ Written(o) => Written(ops[o].replaces)

\* Nothing is sent for an operation of another generation of the library or for
\* a removed notebook, however long ago it was started or previewed.
SentUnderFence ==
  [][wrote' # wrote \/ commits' # commits \/ messages' # messages \/ ~(late' \subseteq late) =>
       \/ \E m \in late : late' = late \ {m}
       \/ ops[tx.op].gen = generation /\ ops[tx.op].doc \notin purged]_vars

\* Once devices, owner and network rest, every operation settles unless it, or
\* one before it, is stuck: its record cannot be read, or was taken by another
\* (both only roll back), or it waits for an operation behind it.
Stuck(o) ==
  LET d == ops[o].doc
  IN /\ Due(o) /\ Current(o) /\ d \notin purged
     /\ IF ops[o].after > o THEN AheadPending(o)
        ELSE IF ops[o].kind = "create" THEN gw[d].live /\ ~Own(o)
        ELSE ~Library(o) /\ ~gw[d].live

HeldUp(o) == \E p \in 1..o : Stuck(p)

OperationsSettle == <>[][Publish]_vars => \A o \in Op : <>[](Due(o) => HeldUp(o))

\* A chained change is published after the change it is chained to
\* (book_management.go:340), so it does not hold up the queue for ever.
Unreadable(o) == \E p \in 1..o : Stuck(p) /\ ~(ops[p].after > p)

ChainsSettle == <>[][Publish]_vars => \A o \in Op : <>[](Due(o) => Unreadable(o))

\* book_management.go:848: a chained change fences on the exact revision its
\* predecessor published.
ChainFenced ==
  \A w \in wrote : ops[w.op].after # NoOp =>
    \E v \in wrote : v.op = ops[w.op].after /\ v.rev = w.base
=============================================================================
