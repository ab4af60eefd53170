------------------------------- MODULE Relay --------------------------------
(***************************************************************************)
(* The shared-library relay: the op log, the last-writer-wins mirror, the   *)
(* contiguous accepted_through of each device and its pull cursor, with     *)
(* server-authored changes, lost and late requests, cleared sync positions  *)
(* and a database restored from a backup.                                   *)
(*                                                                          *)
(* Every mutating transaction holds the sync_seq row from its first read to *)
(* its commit, so one exchange runs at a time: it is the variable tx, which *)
(* applies a request op by op to a copy of the tables.  Clearing a sync     *)
(* position takes no lock.                                                  *)
(***************************************************************************)
EXTENDS Naturals, Sequences, FiniteSets

CONSTANTS
  Device, Server, \* site ids; their order breaks ties
  Key,            \* rows of the writer mirror
  Offered,        \* kinds of op the devices write
  MaxOps,         \* bound: ops each device writes
  MaxAuthored,    \* bound: ops the server writes
  MaxTs,          \* bound: values of the hybrid logical clocks
  MaxPush,        \* ops of one request
  MaxPull,        \* ops of one answer
  MaxLate,        \* bound: requests in flight whose device has given up
  MaxEpoch,       \* bound: one more than the restores
  MaxPrunes       \* bound: cleared sync positions

\* row: a writer row that materializes.  badrow: validateOp refuses it.
\* badvalue: refused only where it would win.  reader: a reading-library row,
\* kept in the inbox and the log.  badreader: kept in the inbox only.
Kinds == {"row", "badrow", "badvalue", "reader", "badreader"}

ASSUME RelayAssumption ==
  /\ Device \subseteq Nat /\ Server \in Nat \ Device /\ Offered \subseteq Kinds
  /\ MaxOps \in Nat /\ MaxAuthored \in Nat /\ MaxTs \in Nat /\ MaxPush \in Nat \ {0} /\ MaxPull \in Nat \ {0}
  /\ MaxLate \in Nat /\ MaxEpoch \in Nat \ {0} /\ MaxPrunes \in Nat

VARIABLES
  db,     \* sync_ops, fn_*, reader_store_incoming, sync_cursors, sync_site
  epoch,  \* sync_epoch
  backup, \* the newest database backup
  tx,     \* the exchange that holds sync_seq, or NoTx
  dev,    \* the devices
  sent,   \* requests in flight
  answer, \* answers on their way, or NoAnswer
  prunes  \* history: how often a sync position was cleared

vars == <<db, epoch, backup, tx, dev, sent, answer, prunes>>

Site == Device \cup {Server}

Ops == [site : Site, seq : Nat \ {0}, ts : Nat, key : Key, kind : Kinds]

NoOp == [seq |-> 0]
NoTx == [todo |-> "none"]
NoAnswer == [ops |-> "none"]

Mirrors == [Key -> Ops \cup {NoOp}]

Receipts == SUBSET (Device \X Nat)

\* cursors: the devices with a row in sync_cursors; acked: its acked_op_seq.
\* authored, hlc: last_op_seq and last_hlc of sync_site.
Database ==
  [log : Seq(Ops), mirror : Mirrors, inbox : Receipts,
   cursors : SUBSET Device, acked : [Device -> Nat], authored : Nat, hlc : Nat]

\* hist: its ops in op_seq order.  from: accepted_through as it knows it.
Tablet ==
  [hist : Seq(Ops), from : Nat, cursor : Nat, epoch : Nat, seen : SUBSET Ops, waiting : BOOLEAN]

\* live: its device still waits for the answer.
Request == [dev : Device, ops : Seq(Ops), cursor : Nat, epoch : Nat, live : BOOLEAN]

\* The locals of an exchange; todo: positions in the request; log, mirror and inbox are the tables as it sees them.
\* accepted: how far accepted_through has been walked.  newest: the latest op_ts met.
Transaction ==
  [req : Request, todo : SUBSET Nat, rejected : SUBSET Nat, accepted : Nat, newest : Nat,
   log : Seq(Ops), mirror : Mirrors, inbox : Receipts]

Answer == [ops : SUBSET Ops, cursor : Nat, epoch : Nat, accepted : Nat]

\* The order of conflicting ops: the greater wins.
Less(a, b) ==
  \/ a.ts < b.ts
  \/ a.ts = b.ts /\ a.seq < b.seq
  \/ a.ts = b.ts /\ a.seq = b.seq /\ a.site < b.site

Entries(log) == {log[i] : i \in DOMAIN log}

Logged(log, site, seq) == \E o \in Entries(log) : o.site = site /\ o.seq = seq

\* The greatest of a set of numbers, as a set.
Top(S) == {m \in S : \A n \in S : n <= m}

Empty ==
  [log |-> <<>>, mirror |-> [k \in Key |-> NoOp], inbox |-> {},
   cursors |-> {}, acked |-> [d \in Device |-> 0], authored |-> 0, hlc |-> 0]

NewDevice == [hist |-> <<>>, from |-> 0, cursor |-> 0, epoch |-> 0, seen |-> {}, waiting |-> FALSE]

Init ==
  /\ db = Empty /\ backup = Empty /\ epoch = 1
  /\ tx = NoTx
  /\ dev = [d \in Device |-> NewDevice]
  /\ sent = {}
  /\ answer = [d \in Device |-> NoAnswer]
  /\ prunes = 0

-----------------------------------------------------------------------------
(* The device: its outbox is the ops after from, its stamps come from a     *)
(* hybrid logical clock that is past everything it wrote or pulled.         *)

Met(d) == Entries(dev[d].hist) \cup dev[d].seen

Author(d) ==
  /\ Len(dev[d].hist) < MaxOps
  /\ \E k \in Key, kind \in Offered, t \in 1..MaxTs :
       /\ \A o \in Met(d) : o.ts < t
       /\ dev' = [dev EXCEPT ![d].hist =
            Append(@, [site |-> d, seq |-> Len(@) + 1, ts |-> t, key |-> k, kind |-> kind])]
  /\ UNCHANGED <<db, epoch, backup, tx, sent, answer, prunes>>

Least(m, n) == IF m < n THEN m ELSE n

Outbox(d) == SubSeq(dev[d].hist, dev[d].from + 1, Least(dev[d].from + MaxPush, Len(dev[d].hist)))

Send(d) ==
  /\ ~dev[d].waiting
  /\ dev' = [dev EXCEPT ![d].waiting = TRUE]
  /\ sent' = sent \cup {[dev |-> d, ops |-> Outbox(d), cursor |-> dev[d].cursor,
                         epoch |-> dev[d].epoch, live |-> TRUE]}
  /\ UNCHANGED <<db, epoch, backup, tx, answer, prunes>>

Late(r) == [r EXCEPT !.live = FALSE]

Mine(d) == {r \in sent : r.dev = d /\ r.live}

\* The device stops waiting: its request is lost or still arrives, and an
\* answer to it, there already or not, is dropped.
GiveUp(d) ==
  /\ dev[d].waiting
  /\ dev' = [dev EXCEPT ![d].waiting = FALSE]
  /\ \/ sent' = sent \ Mine(d)
     \/ /\ Cardinality({r \in sent : ~r.live}) < MaxLate
        /\ \E r \in Mine(d) : r.ops # <<>>
        /\ sent' = (sent \ Mine(d)) \cup {Late(r) : r \in Mine(d)}
  /\ tx' = IF tx # NoTx /\ tx.req.dev = d THEN [tx EXCEPT !.req.live = FALSE] ELSE tx
  /\ answer' = [answer EXCEPT ![d] = NoAnswer]
  /\ UNCHANGED <<db, epoch, backup, prunes>>

\* A device in a new epoch re-sends what it wrote after accepted_through, with
\* the original stamps, and pulls from the start.
Receive(d) ==
  LET a == answer[d]
      t == dev[d]
      rewound == t.epoch \notin {0, a.epoch}
  IN
  /\ a # NoAnswer
  /\ dev' = [dev EXCEPT ![d] =
       [t EXCEPT !.waiting = FALSE, !.epoch = a.epoch, !.cursor = a.cursor, !.seen = t.seen \cup a.ops,
                 !.from = IF rewound \/ a.accepted > t.from THEN a.accepted ELSE t.from]]
  /\ answer' = [answer EXCEPT ![d] = NoAnswer]
  /\ UNCHANGED <<db, epoch, backup, tx, sent, prunes>>

-----------------------------------------------------------------------------
(* The exchange.                                                            *)

Reply(r, a) == answer' = IF r.live THEN [answer EXCEPT ![r.dev] = a] ELSE answer

\* Fault: a rewound device goes on from its old cursor.
RewoundInPlace(r) ==
  Reply(r, [ops |-> {}, cursor |-> r.cursor, epoch |-> epoch, accepted |-> db.acked[r.dev]])

\* A device that has not seen the epoch is told what this database has
\* acknowledged; nothing is written.
Rewound(r) ==
  Reply(r, [ops |-> {}, cursor |-> 0, epoch |-> epoch,
            accepted |-> db.acked[r.dev]])

Known(r) == r.epoch \in {0, epoch}

IsReader(o) == o.kind \in {"reader", "badreader"}

IsWriter(o) == ~IsReader(o)

\* A device without a cursor row starts at the greatest op_seq in the log.
Start(d) ==
  IF d \in db.cursors
    THEN {db.acked[d]}
    ELSE Top({0} \cup {o.seq : o \in {e \in Entries(db.log) : e.site = d}})

Begin(r) ==
  /\ r \in sent /\ tx = NoTx
  /\ sent' = sent \ {r}
  /\ \/ /\ ~Known(r) /\ Rewound(r)
        /\ UNCHANGED tx
     \/ /\ Known(r)
        /\ \E n \in Start(r.dev) :
             tx' = [req |-> r, todo |-> DOMAIN r.ops,
                    rejected |-> {}, accepted |-> n, newest |-> 0,
                    log |-> db.log, mirror |-> db.mirror, inbox |-> db.inbox]
        /\ UNCHANGED answer
  /\ UNCHANGED <<db, epoch, backup, dev, prunes>>

\* The reader rows of a request are taken first, each half in its order.
Before(i, j) ==
  LET reader(n) == IsReader(tx.req.ops[n])
  IN IF reader(i) = reader(j) THEN i <= j ELSE reader(i)

Turn(i) ==
  /\ tx # NoTx /\ i \in tx.todo
  /\ \A j \in tx.todo : Before(i, j)

\* Fault: the server's clock ignores what devices send.
Unobserved(m, n) == m

Later(m, n) == IF m < n THEN n ELSE m

\* The exchange past its op i, whose stamp counts whatever becomes of it.
Past(i) == [tx EXCEPT !.todo = @ \ {i}, !.newest = Later(@, tx.req.ops[i].ts)]

\* Fault: a repeated op is applied again.
NeverDuplicate(o) == FALSE

Duplicate(o) == Logged(tx.log, o.site, o.seq)

StageReader(i) ==
  LET o == tx.req.ops[i]
      kept == [Past(i) EXCEPT !.inbox = @ \cup {<<o.site, o.seq>>}]
  IN
  /\ Turn(i) /\ IsReader(o)
  /\ tx' = IF o.kind = "badreader" THEN [kept EXCEPT !.rejected = @ \cup {o.seq}]
           ELSE IF Duplicate(o) THEN kept
           ELSE [kept EXCEPT !.log = Append(@, o)]
  /\ UNCHANGED <<db, epoch, backup, dev, sent, answer, prunes>>

\* Fault: ties of the clock go to the op that arrived first.
WinsByClock(o, stored) == stored = NoOp \/ stored.ts < o.ts

Wins(o, stored) == stored = NoOp \/ Less(stored, o)

\* Values are checked for a winner only: a losing badvalue is logged.
Refused(o) ==
  \/ o.kind = "badrow"
  \/ o.kind = "badvalue" /\ ~Duplicate(o) /\ Wins(o, tx.mirror[o.key])

ApplyWriter(i) ==
  LET o == tx.req.ops[i]
  IN
  /\ Turn(i) /\ IsWriter(o)
  /\ tx' = IF Refused(o) THEN [Past(i) EXCEPT !.rejected = @ \cup {o.seq}]
           ELSE IF Duplicate(o) THEN Past(i)
           ELSE [Past(i) EXCEPT !.log = Append(@, o),
                             !.mirror[o.key] = IF Wins(o, @) THEN o ELSE @]
  /\ UNCHANGED <<db, epoch, backup, dev, sent, answer, prunes>>

\* The ops the answer carries: the first MaxPull of other sites past the cursor.
Beyond(log, d, cursor) == {i \in DOMAIN log : i > cursor /\ log[i].site # d}

Page(log, d, cursor) ==
  {i \in Beyond(log, d, cursor) : Cardinality({j \in Beyond(log, d, cursor) : j <= i}) <= MaxPull}

\* Fault: a refused op stays unsettled.
SettledIfKept(d, n) == Logged(tx.log, d, n) \/ <<d, n>> \in tx.inbox

Settled(d, n) == n \in tx.rejected \/ Logged(tx.log, d, n) \/ <<d, n>> \in tx.inbox

Walk ==
  /\ tx # NoTx /\ tx.todo = {}
  /\ Settled(tx.req.dev, tx.accepted + 1)
  /\ tx' = [tx EXCEPT !.accepted = @ + 1]
  /\ UNCHANGED <<db, epoch, backup, dev, sent, answer, prunes>>

Commit ==
  LET r == tx.req
      page == Page(tx.log, r.dev, r.cursor)
  IN
  /\ tx # NoTx /\ tx.todo = {}
  /\ ~Settled(r.dev, tx.accepted + 1)
  /\ db' = [db EXCEPT !.log = tx.log, !.mirror = tx.mirror, !.inbox = tx.inbox,
                      !.cursors = @ \cup {r.dev}, !.acked[r.dev] = tx.accepted,
                      !.hlc = Later(@, tx.newest)]
  /\ \E c \in Top({r.cursor} \cup page) :
       Reply(r, [ops |-> {tx.log[i] : i \in page}, cursor |-> c, epoch |-> epoch, accepted |-> tx.accepted])
  /\ tx' = NoTx
  /\ UNCHANGED <<epoch, backup, dev, sent, prunes>>

\* Any error rolls the exchange back; a device that waits gets an error.
Fail ==
  /\ tx # NoTx
  /\ tx' = NoTx
  /\ dev' = IF tx.req.live THEN [dev EXCEPT ![tx.req.dev].waiting = FALSE] ELSE dev
  /\ UNCHANGED <<db, epoch, backup, sent, answer, prunes>>

-----------------------------------------------------------------------------
(* The server's own changes, its operator and its backups.                  *)

AuthorOps ==
  /\ tx = NoTx /\ db.authored < MaxAuthored
  /\ \E k \in Key, t \in (db.hlc + 1)..MaxTs :
       LET o == [site |-> Server, seq |-> db.authored + 1, ts |-> t, key |-> k, kind |-> "row"]
       IN db' = [db EXCEPT !.log = Append(@, o), !.authored = o.seq, !.hlc = t,
                           !.mirror[k] = IF Wins(o, @) THEN o ELSE @]
  /\ UNCHANGED <<epoch, backup, tx, dev, sent, answer, prunes>>

PruneDevice(d) ==
  /\ d \in db.cursors /\ prunes < MaxPrunes
  /\ db' = [db EXCEPT !.cursors = @ \ {d}, !.acked[d] = 0]
  /\ prunes' = prunes + 1
  /\ UNCHANGED <<epoch, backup, tx, dev, sent, answer>>

Backup ==
  /\ backup # db /\ epoch < MaxEpoch
  /\ backup' = db
  /\ UNCHANGED <<db, epoch, tx, dev, sent, answer, prunes>>

\* Fault: the restored database keeps its epoch.
SameEpoch == epoch

NewEpoch == epoch + 1

\* The server is stopped for it; whoever waited for the exchange gives up.
Restore ==
  /\ tx = NoTx /\ epoch < MaxEpoch
  /\ db' = backup
  /\ epoch' = NewEpoch
  /\ UNCHANGED <<backup, tx, dev, sent, answer, prunes>>

Exchange(d) ==
  \/ \E r \in sent : r.dev = d /\ Begin(r)
  \/ tx # NoTx /\ tx.req.dev = d /\ (Walk \/ Commit \/ \E i \in tx.todo : StageReader(i) \/ ApplyWriter(i))

Steady ==
  \/ \E d \in Device : Author(d) \/ Send(d) \/ Receive(d) \/ PruneDevice(d) \/ Exchange(d)
  \/ AuthorOps \/ Backup \/ Restore

Trouble == Fail \/ \E d \in Device : GiveUp(d)

Next == Steady \/ Trouble

Spec == Init /\ [][Next]_vars

(* Devices sync again and again.  PostgreSQL queues those who wait for a row  *)
(* lock, so an exchange that is offered the lock again and again gets it.    *)
Fairness ==
  \A d \in Device : WF_vars(Send(d)) /\ WF_vars(Receive(d)) /\ SF_vars(Exchange(d))

FairSpec == Spec /\ Fairness

-----------------------------------------------------------------------------
(* Properties.                                                              *)

\* UNIQUE(site_id, op_seq): an op is logged once, however often it is sent.
Unique(log) ==
  \A i, j \in DOMAIN log : log[i].site = log[j].site /\ log[i].seq = log[j].seq => i = j

TypeOK ==
  /\ db \in Database /\ backup \in Database /\ epoch \in Nat /\ prunes \in Nat
  /\ tx \in Transaction \cup {NoTx}
  /\ dev \in [Device -> Tablet]
  /\ sent \subseteq Request
  /\ answer \in [Device -> Answer \cup {NoAnswer}]
  /\ Unique(db.log)

\* Every mirror row is its latest logged op, whatever order ops arrived in, were
\* repeated, refused, or written by the server: no accepted change is undone by an
\* older one and none is missed (mergeRow, AuthorOps).
Rivals(log, k) == {o \in Entries(log) : o.key = k /\ IsWriter(o)}

Latest(log, mirror) ==
  \A k \in Key :
    IF Rivals(log, k) = {} THEN mirror[k] = NoOp
    ELSE /\ mirror[k] \in Rivals(log, k) /\ mirror[k].kind = "row"
         /\ \A o \in Rivals(log, k) \ {mirror[k]} : Less(o, mirror[k])

MirrorLatest == Latest(db.log, db.mirror)

\* What a device in the current epoch was told is accepted, and so dropped from its
\* outbox, is in the log or the inbox or is an op the server refuses for good: also
\* after lost answers, a cleared sync position and a restored backup.
Held(o) ==
  \/ Logged(db.log, o.site, o.seq) \/ <<o.site, o.seq>> \in db.inbox
  \/ o.kind \in {"badrow", "badvalue"}

AcceptedHeld ==
  \A d \in Device : dev[d].epoch = epoch => \A n \in 1..dev[d].from : Held(dev[d].hist[n])

\* A device's cursor never passes an op of another site it has not pulled, although
\* exchanges and the server append concurrently and a restore renumbers the log.
PulledComplete ==
  \A d \in Device : dev[d].epoch = epoch =>
    \A i \in DOMAIN db.log : i <= dev[d].cursor /\ db.log[i].site # d => db.log[i] \in dev[d].seen

\* The server's change of a row sorts after every op it had logged by then, with
\* device clocks ahead of its own: it is never lost to what it was made on.
ServerSortsLast ==
  \A i, j \in DOMAIN db.log : i < j /\ db.log[j].site = Server => Less(db.log[i], db.log[j])

\* Once requests and answers get through, every device has all its ops acknowledged
\* and has pulled all others: a refused op wedges nobody.  Where a sync position was
\* cleared this can fail: see PositionKept.
CaughtUp(d) ==
  /\ dev[d].epoch = epoch /\ dev[d].from = Len(dev[d].hist)
  /\ Beyond(db.log, d, dev[d].cursor) = {}

EveryoneCatchesUp ==
  <>[][Steady]_vars => <>[](prunes > 0 \/ \A d \in Device : CaughtUp(d))

\* settings-operator.html: clearing the sync position is "Safe for a device still in
\* use; it picks up where it left off": no answer acknowledges less than an earlier
\* one of the same epoch did.
PositionKept ==
  \A d \in Device :
    answer[d] # NoAnswer /\ answer[d].epoch = dev[d].epoch => answer[d].accepted >= dev[d].from
=============================================================================
