---------------------------- MODULE RelayProofs -----------------------------
(***************************************************************************)
(* Theorems of Relay for any devices, ops, restores and late requests.      *)
(*                                                                          *)
(* What relates a log to its mirror and its clock is one predicate,         *)
(* Consistent, that appending one op preserves; it holds of the database,   *)
(* of its backup and of what an open exchange sees.                         *)
(* What a cursor has passed was pulled, since a device waits for one request, *)
(* exchange or answer at a time.                                            *)
(***************************************************************************)
EXTENDS Relay, FiniteSetTheorems, SequenceTheorems, TLAPS

\* The server's ops sort after everything logged before them.
Sorted(log) ==
  \A i, j \in DOMAIN log : i < j /\ log[j].site = Server => Less(log[i], log[j])

Consistent(log, mirror, authored, hlc) ==
  /\ Unique(log) /\ Latest(log, mirror) /\ Sorted(log)
  /\ \A o \in Entries(log) : o.ts <= hlc /\ (o.site = Server => o.seq <= authored)

\* Devices log, send and have applied their own ops only.
FromDevices ==
  /\ \A d \in Device : \A o \in Entries(dev[d].hist) : o.site = d
  /\ \A r \in sent : \A o \in Entries(r.ops) : o.site = r.dev
  /\ tx # NoTx => /\ tx.todo \subseteq DOMAIN tx.req.ops
                  /\ \A o \in Entries(tx.req.ops) : o.site = tx.req.dev

Stores ==
  /\ Consistent(db.log, db.mirror, db.authored, db.hlc)
  /\ Consistent(backup.log, backup.mirror, backup.authored, backup.hlc)
  /\ tx # NoTx => Consistent(tx.log, tx.mirror, db.authored, Later(db.hlc, tx.newest))

IInv == TypeOK /\ FromDevices /\ Stores

-----------------------------------------------------------------------------
(* Logs.                                                                    *)

LEMMA AppendFacts ==
  ASSUME NEW log \in Seq(Ops), NEW o \in Ops
  PROVE  /\ Append(log, o) \in Seq(Ops)
         /\ DOMAIN Append(log, o) = 1..(Len(log) + 1) /\ DOMAIN log = 1..Len(log)
         /\ Append(log, o)[Len(log) + 1] = o
         /\ \A i \in DOMAIN log : Append(log, o)[i] = log[i] /\ log[i] \in Ops
         /\ Entries(Append(log, o)) = Entries(log) \cup {o}
         /\ Entries(log) \subseteq Ops
<1>1. /\ Append(log, o) \in Seq(Ops) /\ Len(Append(log, o)) = Len(log) + 1
      /\ Append(log, o)[Len(log) + 1] = o
      /\ \A i \in 1..Len(log) : Append(log, o)[i] = log[i]
  BY AppendProperties
<1>2. DOMAIN Append(log, o) = 1..(Len(log) + 1) /\ DOMAIN log = 1..Len(log)
  BY <1>1, LenProperties
<1>3. \A i \in DOMAIN log : log[i] \in Ops
  BY <1>2, ElementOfSeq
<1>4. Len(log) \in Nat
  BY LenProperties
<1>5. Entries(Append(log, o)) = Entries(log) \cup {o}
  BY <1>1, <1>2, <1>4 DEF Entries
<1> QED
  BY <1>1, <1>2, <1>3, <1>5 DEF Entries

LEMMA OpFacts ==
  ASSUME NEW o \in Ops
  PROVE  o.ts \in Nat /\ o.seq \in Nat \ {0} /\ o.site \in Nat /\ o.key \in Key /\ o # NoOp
<1>1. Site \subseteq Nat
  BY RelayAssumption DEF Site, RelayAssumption
<1>2. o.ts \in Nat /\ o.seq \in Nat \ {0} /\ o.site \in Site /\ o.key \in Key
  BY DEF Ops
<1>3. NoOp.seq = 0
  BY DEF NoOp
<1>4. o # NoOp
  BY <1>2, <1>3
<1> QED
  BY <1>1, <1>2, <1>4

\* Ops of different identities are ordered one way or the other.
LEMMA LessTotal ==
  ASSUME NEW a \in Ops, NEW b \in Ops, a.site # b.site \/ a.seq # b.seq
  PROVE  Less(a, b) \/ Less(b, a)
BY OpFacts DEF Less

LEMMA LessTransitive ==
  ASSUME NEW a \in Ops, NEW b \in Ops, NEW c \in Ops, Less(a, b), Less(b, c)
  PROVE  Less(a, c)
BY OpFacts DEF Less

\* What a writer op makes of a mirror that is up to date with the log it is appended to.
LEMMA MergeLatest ==
  ASSUME NEW log \in Seq(Ops), NEW mirror \in Mirrors, NEW o \in Ops,
         Latest(log, mirror), ~Logged(log, o.site, o.seq), IsWriter(o),
         o.kind = "row" \/ ~Wins(o, mirror[o.key])
  PROVE  LET merged == [mirror EXCEPT ![o.key] = IF Wins(o, @) THEN o ELSE @]
         IN merged \in Mirrors /\ Latest(Append(log, o), merged)
<1> DEFINE merged == [mirror EXCEPT ![o.key] = IF Wins(o, @) THEN o ELSE @]
           m == mirror[o.key]
<1>1. o.key \in Key /\ o.seq # 0 /\ m \in Ops \cup {NoOp}
  BY DEF Ops, Mirrors
<1>2. merged \in Mirrors
  BY <1>1 DEF Mirrors
<1>3. Entries(Append(log, o)) = Entries(log) \cup {o} /\ Entries(log) \subseteq Ops
  BY AppendFacts
<1>4. \A k \in Key : k # o.key => Rivals(Append(log, o), k) = Rivals(log, k) /\ merged[k] = mirror[k]
  BY <1>3 DEF Rivals, Mirrors
<1>5. Rivals(Append(log, o), o.key) = Rivals(log, o.key) \cup {o}
  BY <1>3 DEF Rivals
<1>6. merged[o.key] = IF Wins(o, m) THEN o ELSE m
  BY <1>1 DEF Mirrors
<1>7. \A e \in Rivals(log, o.key) : e \in Ops /\ (e.site # o.site \/ e.seq # o.seq) /\ e # NoOp
  BY <1>3 DEF Rivals, Logged, Entries, Ops, NoOp
<1> HIDE DEF merged
<1>8. CASE Rivals(log, o.key) = {}
  <2>1. m = NoOp /\ Wins(o, m)
    BY <1>1, <1>8 DEF Latest, Wins
  <2> QED
    BY <1>2, <1>4, <1>5, <1>6, <1>8, <2>1 DEF Latest, merged
<1>9. CASE Rivals(log, o.key) # {}
  <2>1. /\ m \in Rivals(log, o.key) /\ m.kind = "row"
        /\ \A e \in Rivals(log, o.key) \ {m} : Less(e, m)
    BY <1>1, <1>9 DEF Latest
  <2>2. m \in Ops /\ m # NoOp
    BY <2>1, <1>7
  <2>3. CASE Wins(o, m)
    <3>1. Less(m, o) /\ o.kind = "row"
      BY <2>2, <2>3 DEF Wins
    <3>2. \A e \in Rivals(log, o.key) : Less(e, o)
      BY <1>7, <2>1, <2>2, <3>1, LessTransitive
    <3> QED
      BY <1>2, <1>4, <1>5, <1>6, <2>3, <3>1, <3>2 DEF Latest, merged
  <2>4. CASE ~Wins(o, m)
    <3>1. Less(o, m)
      BY <1>7, <2>1, <2>2, <2>4, LessTotal DEF Wins
    <3> QED
      BY <1>2, <1>4, <1>5, <1>6, <2>1, <2>4, <3>1 DEF Latest, merged
  <2> QED
    BY <2>3, <2>4
<1> QED
  BY <1>8, <1>9 DEF merged

\* A reader row has no mirror here.
LEMMA ReaderLatest ==
  ASSUME NEW log \in Seq(Ops), NEW mirror, NEW o \in Ops, Latest(log, mirror), IsReader(o)
  PROVE  Latest(Append(log, o), mirror)
<1>1. Entries(Append(log, o)) = Entries(log) \cup {o}
  BY AppendFacts
<1>2. \A k \in Key : Rivals(Append(log, o), k) = Rivals(log, k)
  BY <1>1 DEF Rivals, IsWriter
<1> QED
  BY <1>2 DEF Latest

\* One more op keeps a consistent log consistent.
LEMMA AppendConsistent ==
  ASSUME NEW log \in Seq(Ops), NEW mirror, NEW authored \in Nat, NEW hlc \in Nat,
         NEW o \in Ops, NEW after, NEW count \in Nat, NEW clock \in Nat,
         Consistent(log, mirror, authored, hlc), ~Logged(log, o.site, o.seq),
         Latest(Append(log, o), after),
         hlc <= clock, o.ts <= clock, authored <= count,
         o.site = Server => hlc < o.ts /\ o.seq <= count
  PROVE  Consistent(Append(log, o), after, count, clock)
<1> DEFINE longer == Append(log, o)
           n == Len(log)
<1>1. /\ DOMAIN longer = 1..(n + 1) /\ DOMAIN log = 1..n
      /\ longer[n + 1] = o /\ \A i \in DOMAIN log : longer[i] = log[i] /\ log[i] \in Ops
      /\ Entries(longer) = Entries(log) \cup {o} /\ Entries(log) \subseteq Ops
  BY AppendFacts
<1>2. n \in Nat
  BY LenProperties
<1>3. \A i \in DOMAIN log : log[i] \in Entries(log)
  BY DEF Entries
<1> HIDE DEF longer, n
<1>4. Unique(longer)
  <2> SUFFICES ASSUME NEW i \in DOMAIN longer, NEW j \in DOMAIN longer,
                      longer[i].site = longer[j].site, longer[i].seq = longer[j].seq
               PROVE  i = j
    BY DEF Unique
  <2>1. \A k \in DOMAIN log : log[k].site # o.site \/ log[k].seq # o.seq
    BY <1>3 DEF Logged
  <2> QED
    BY <1>1, <1>2, <2>1 DEF Consistent, Unique
<1>5. Sorted(longer)
  <2> SUFFICES ASSUME NEW i \in DOMAIN longer, NEW j \in DOMAIN longer,
                      i < j, longer[j].site = Server
               PROVE  Less(longer[i], longer[j])
    BY DEF Sorted
  <2>1. i \in DOMAIN log
    BY <1>1, <1>2
  <2>2. CASE j \in DOMAIN log
    BY <1>1, <2>1, <2>2 DEF Consistent, Sorted
  <2>3. CASE j = n + 1
    <3>1. log[i].ts <= hlc /\ hlc < o.ts /\ log[i].ts \in Nat /\ o.ts \in Nat
      BY <1>1, <1>3, <2>1, <2>3 DEF Consistent, Ops
    <3> QED
      BY <1>1, <2>1, <2>3, <3>1 DEF Less
  <2> QED
    BY <1>1, <1>2, <2>2, <2>3
<1>6. \A e \in Entries(longer) : e.ts <= clock /\ (e.site = Server => e.seq <= count)
  <2>1. \A e \in Entries(log) : e.ts \in Nat /\ e.seq \in Nat /\ e.ts <= hlc /\ (e.site = Server => e.seq <= authored)
    BY <1>1 DEF Consistent, Ops
  <2> QED
    BY <1>1, <2>1
<1> QED
  BY <1>4, <1>5, <1>6 DEF Consistent, longer

\* A later clock and a higher count do no harm.
LEMMA LaterConsistent ==
  ASSUME NEW log \in Seq(Ops), NEW mirror, NEW authored, NEW hlc \in Nat, NEW clock \in Nat,
         Consistent(log, mirror, authored, hlc), hlc <= clock
  PROVE  Consistent(log, mirror, authored, clock)
<1>1. \A o \in Entries(log) : o.ts \in Nat
  <2> SUFFICES ASSUME NEW i \in DOMAIN log PROVE log[i].ts \in Nat
    BY DEF Entries
  <2>1. log[i] \in Ops
    BY LenProperties, ElementOfSeq
  <2> QED
    BY <2>1, OpFacts
<1> QED
  BY <1>1 DEF Consistent

LEMMA PrefixFacts ==
  ASSUME NEW hist \in Seq(Ops), NEW from \in Nat, NEW to \in Nat, to <= Len(hist)
  PROVE  /\ SubSeq(hist, from + 1, to) \in Seq(Ops)
         /\ Entries(SubSeq(hist, from + 1, to)) \subseteq Entries(hist)
<1> DEFINE part == SubSeq(hist, from + 1, to)
<1>1. Len(hist) \in Nat /\ DOMAIN hist = 1..Len(hist) /\ \A i \in 1..Len(hist) : hist[i] \in Ops
  BY LenProperties, ElementOfSeq
<1>2. \A i \in (from + 1)..to : i \in 1..Len(hist) /\ hist[i] \in Ops
  BY <1>1
<1>3. /\ part \in Seq(Ops)
      /\ Len(part) = IF from + 1 <= to THEN to - (from + 1) + 1 ELSE 0
      /\ \A i \in 1..(to - (from + 1) + 1) : part[i] = hist[(from + 1) + i - 1]
  BY <1>2, SubSeqProperties
<1>4. DOMAIN part = 1..Len(part)
  BY <1>3, LenProperties
<1> HIDE DEF part
<1>5. \A i \in DOMAIN part : part[i] = hist[from + i] /\ from + i \in DOMAIN hist
  BY <1>1, <1>2, <1>3, <1>4
<1> QED
  BY <1>3, <1>5 DEF Entries, part

-----------------------------------------------------------------------------
(* Every action keeps the invariant.                                        *)

LEMMA InitInv == Init => IInv
<1> SUFFICES ASSUME Init PROVE IInv
  OBVIOUS
<1>1. <<>> \in Seq(Ops) /\ DOMAIN <<>> = {} /\ Entries(<<>>) = {}
  BY EmptySeq DEF Entries
<1>2. Empty \in Database /\ NewDevice \in Tablet
  BY <1>1 DEF Empty, NewDevice, Database, Tablet, Mirrors, Receipts
<1>3. Consistent(Empty.log, Empty.mirror, Empty.authored, Empty.hlc)
  BY <1>1 DEF Consistent, Unique, Latest, Rivals, Sorted, Empty
<1>4. TypeOK
  BY <1>2, <1>3 DEF Init, TypeOK, Consistent
<1>5. FromDevices
  BY <1>1 DEF Init, FromDevices, NewDevice
<1>6. Stores
  BY <1>3 DEF Init, Stores
<1> QED
  BY <1>4, <1>5, <1>6 DEF IInv

LEMMA AuthorStep ==
  ASSUME IInv, NEW d \in Device, Author(d)
  PROVE  IInv'
<1> USE DEF IInv
<1>1. PICK k \in Key, kind \in Offered, t \in 1..MaxTs :
        dev' = [dev EXCEPT ![d].hist =
          Append(@, [site |-> d, seq |-> Len(@) + 1, ts |-> t, key |-> k, kind |-> kind])]
  BY DEF Author
<1> DEFINE o == [site |-> d, seq |-> Len(dev[d].hist) + 1, ts |-> t, key |-> k, kind |-> kind]
           hist == Append(dev[d].hist, o)
<1>2. dev \in [Device -> Tablet] /\ dev[d].hist \in Seq(Ops) /\ Len(dev[d].hist) \in Nat
  BY LenProperties DEF TypeOK, Tablet
<1>3. o \in Ops
  BY <1>2, RelayAssumption DEF RelayAssumption, Ops, Site
<1>4. hist \in Seq(Ops) /\ Entries(hist) = Entries(dev[d].hist) \cup {o}
  BY <1>2, <1>3, AppendFacts
<1>5. o.site = d
  OBVIOUS
<1>6. dev' = [dev EXCEPT ![d].hist = hist]
  BY <1>1
<1> HIDE DEF o, hist
<1>7. dev' \in [Device -> Tablet]
  BY <1>2, <1>4, <1>6 DEF Tablet
<1>8. \A e \in Device : \A x \in Entries(dev'[e].hist) : x.site = e
  BY <1>2, <1>4, <1>5, <1>6 DEF FromDevices, Tablet
<1>9. UNCHANGED <<db, epoch, backup, tx, sent, answer, prunes>>
  BY DEF Author
<1>10. TypeOK'
  BY <1>7, <1>9 DEF TypeOK
<1>11. FromDevices'
  BY <1>8, <1>9 DEF FromDevices
<1>12. Stores'
  BY <1>9 DEF Stores
<1> QED
  BY <1>10, <1>11, <1>12

LEMMA SendStep ==
  ASSUME IInv, NEW d \in Device, Send(d)
  PROVE  IInv'
<1> USE DEF IInv
<1> DEFINE r == [dev |-> d, ops |-> Outbox(d), cursor |-> dev[d].cursor,
                 epoch |-> dev[d].epoch, live |-> TRUE]
<1>1. /\ dev \in [Device -> Tablet] /\ dev[d].hist \in Seq(Ops) /\ dev[d].from \in Nat
      /\ dev[d].cursor \in Nat /\ dev[d].epoch \in Nat /\ Len(dev[d].hist) \in Nat
  BY LenProperties DEF TypeOK, Tablet
<1>2. Least(dev[d].from + MaxPush, Len(dev[d].hist)) \in Nat
      /\ Least(dev[d].from + MaxPush, Len(dev[d].hist)) <= Len(dev[d].hist)
  BY <1>1, RelayAssumption DEF RelayAssumption, Least
<1>3. Outbox(d) \in Seq(Ops) /\ Entries(Outbox(d)) \subseteq Entries(dev[d].hist)
  BY <1>1, <1>2, PrefixFacts DEF Outbox
<1>4. r \in Request /\ r.dev = d /\ r.ops = Outbox(d)
  BY <1>1, <1>3 DEF Request
<1>5. /\ dev' = [dev EXCEPT ![d].waiting = TRUE] /\ sent' = sent \cup {r}
      /\ UNCHANGED <<db, epoch, backup, tx, answer, prunes>>
  BY DEF Send
<1> HIDE DEF r
<1>6. dev' \in [Device -> Tablet] /\ \A e \in Device : dev'[e].hist = dev[e].hist
  BY <1>1, <1>5 DEF Tablet
<1>7. TypeOK'
  BY <1>4, <1>5, <1>6 DEF TypeOK
<1>8. FromDevices'
  BY <1>3, <1>4, <1>5, <1>6 DEF FromDevices
<1>9. Stores'
  BY <1>5 DEF Stores
<1> QED
  BY <1>7, <1>8, <1>9

LEMMA GiveUpStep ==
  ASSUME IInv, NEW d \in Device, GiveUp(d)
  PROVE  IInv'
<1> USE DEF IInv
<1>1. /\ dev' = [dev EXCEPT ![d].waiting = FALSE]
      /\ answer' = [answer EXCEPT ![d] = NoAnswer]
      /\ UNCHANGED <<db, epoch, backup, prunes>>
  BY DEF GiveUp
<1>2. dev' \in [Device -> Tablet] /\ \A e \in Device : dev'[e].hist = dev[e].hist
  BY <1>1 DEF TypeOK, Tablet
<1>3. \A r \in sent : Late(r) \in Request /\ Late(r).dev = r.dev /\ Late(r).ops = r.ops
  BY DEF TypeOK, Late, Request
<1>4. \A r \in sent' : r \in sent \/ \E e \in sent : r = Late(e)
  BY DEF GiveUp, Mine
<1>5. sent' \subseteq Request /\ \A r \in sent' : \A o \in Entries(r.ops) : o.site = r.dev
  <2> SUFFICES ASSUME NEW r \in sent'
               PROVE  r \in Request /\ \A o \in Entries(r.ops) : o.site = r.dev
    OBVIOUS
  <2>1. CASE r \in sent
    BY <2>1 DEF TypeOK, FromDevices
  <2>2. CASE \E e \in sent : r = Late(e)
    BY <1>3, <2>2 DEF FromDevices
  <2> QED
    BY <1>4, <2>1, <2>2
<1>6. tx' = tx \/ (tx # NoTx /\ tx' = [tx EXCEPT !.req.live = FALSE])
  BY DEF GiveUp
<1>7. tx # NoTx => tx \in Transaction /\ tx.req \in Request
  BY DEF TypeOK, Transaction
<1>8. tx' \in Transaction \cup {NoTx}
  <2>1. CASE tx' = tx
    BY <2>1 DEF TypeOK
  <2>2. CASE tx # NoTx /\ tx' = [tx EXCEPT !.req.live = FALSE]
    <3>1. [tx.req EXCEPT !.live = FALSE] \in Request
      BY <1>7, <2>2 DEF Request
    <3>2. tx' = [tx EXCEPT !.req = [tx.req EXCEPT !.live = FALSE]]
      BY <2>2
    <3> QED
      BY <1>7, <2>2, <3>1, <3>2 DEF Transaction
  <2> QED
    BY <1>6, <2>1, <2>2
<1>9. tx' # NoTx => /\ tx # NoTx /\ tx'.todo = tx.todo /\ tx'.log = tx.log /\ tx'.mirror = tx.mirror
                    /\ tx'.newest = tx.newest /\ tx'.req.ops = tx.req.ops /\ tx'.req.dev = tx.req.dev
  BY <1>6, <1>7 DEF Transaction, Request
<1>10. TypeOK'
  BY <1>1, <1>2, <1>5, <1>8 DEF TypeOK
<1>11. FromDevices'
  BY <1>2, <1>5, <1>9 DEF FromDevices
<1>12. Stores'
  BY <1>1, <1>9 DEF Stores
<1> QED
  BY <1>10, <1>11, <1>12

LEMMA ReceiveStep ==
  ASSUME IInv, NEW d \in Device, Receive(d)
  PROVE  IInv'
<1> USE DEF IInv
<1>1. UNCHANGED <<db, epoch, backup, tx, sent, prunes>> /\ answer' = [answer EXCEPT ![d] = NoAnswer]
  BY DEF Receive
<1>2. answer[d] \in Answer /\ dev \in [Device -> Tablet]
  BY DEF Receive, TypeOK
<1>3. dev' \in [Device -> Tablet] /\ \A e \in Device : dev'[e].hist = dev[e].hist
  <2> DEFINE a == answer[d]
             from == IF dev[d].epoch \notin {0, a.epoch} \/ a.accepted > dev[d].from
                       THEN a.accepted ELSE dev[d].from
             w == [dev[d] EXCEPT !.waiting = FALSE, !.epoch = a.epoch, !.cursor = a.cursor,
                                 !.seen = dev[d].seen \cup a.ops, !.from = from]
  <2>1. /\ a.ops \subseteq Ops /\ a.cursor \in Nat /\ a.epoch \in Nat /\ a.accepted \in Nat
        /\ dev[d] \in Tablet
    BY <1>2 DEF Answer
  <2>2. from \in Nat
    BY <2>1 DEF Tablet
  <2>3. dev' = [dev EXCEPT ![d] = w]
    BY DEF Receive
  <2> HIDE DEF a, from
  <2>4. w \in Tablet /\ w.hist = dev[d].hist
    BY <2>1, <2>2 DEF Tablet
  <2> HIDE DEF w
  <2> QED
    BY <1>2, <2>3, <2>4
<1>4. TypeOK'
  BY <1>1, <1>3 DEF TypeOK
<1>5. FromDevices'
  BY <1>1, <1>3 DEF FromDevices
<1>6. Stores'
  BY <1>1 DEF Stores
<1> QED
  BY <1>4, <1>5, <1>6

LEMMA BeginStep ==
  ASSUME IInv, NEW r \in sent, Begin(r)
  PROVE  IInv'
<1> USE DEF IInv
<1>1. /\ sent' = sent \ {r} /\ tx = NoTx /\ UNCHANGED <<db, epoch, backup, dev, prunes>>
  BY DEF Begin
<1>2. r \in Request /\ r.dev \in Device /\ r.ops \in Seq(Ops)
      /\ \A o \in Entries(r.ops) : o.site = r.dev
  BY DEF TypeOK, FromDevices, Request
<1>3. /\ db \in Database /\ db.log \in Seq(Ops) /\ db.mirror \in Mirrors /\ db.inbox \in Receipts
      /\ db.acked \in [Device -> Nat] /\ db.hlc \in Nat /\ DOMAIN r.ops \subseteq Nat
  BY <1>2, LenProperties DEF TypeOK, Database
<1>4. CASE ~Known(r) /\ Rewound(r) /\ UNCHANGED tx
  <2>1. answer' \in [Device -> Answer \cup {NoAnswer}]
    BY <1>2, <1>3, <1>4 DEF Rewound, Reply, Answer, TypeOK
  <2>2. TypeOK'
    BY <1>1, <1>4, <2>1 DEF TypeOK
  <2>3. FromDevices'
    BY <1>1, <1>4 DEF FromDevices
  <2>4. Stores'
    BY <1>1, <1>4 DEF Stores
  <2> QED
    BY <2>2, <2>3, <2>4
<1>5. CASE /\ UNCHANGED answer
           /\ \E n \in Start(r.dev) :
                tx' = [req |-> r, todo |-> DOMAIN r.ops,
                       rejected |-> {}, accepted |-> n, newest |-> 0,
                       log |-> db.log, mirror |-> db.mirror, inbox |-> db.inbox]
  <2>1. PICK n \in Start(r.dev) :
          tx' = [req |-> r, todo |-> DOMAIN r.ops,
                 rejected |-> {}, accepted |-> n, newest |-> 0,
                 log |-> db.log, mirror |-> db.mirror, inbox |-> db.inbox]
    BY <1>5
  <2>2. n \in Nat
    <3>1. \A o \in Entries(db.log) : o.seq \in Nat
      BY <1>3, AppendFacts, OpFacts, LenProperties, ElementOfSeq DEF Entries
    <3> QED
      BY <1>2, <1>3, <3>1 DEF Start, Top
  <2>3. tx' \in Transaction
    BY <1>2, <1>3, <2>1, <2>2 DEF Transaction
  <2>4. TypeOK'
    BY <1>1, <1>5, <2>3 DEF TypeOK
  <2>5. FromDevices'
    BY <1>1, <1>2, <2>1 DEF FromDevices
  <2>6. tx'.log = db.log /\ tx'.mirror = db.mirror /\ tx'.newest = 0 /\ Later(db.hlc, 0) = db.hlc
    BY <1>3, <2>1 DEF Later
  <2>7. Stores'
    BY <1>1, <2>6 DEF Stores
  <2> QED
    BY <2>4, <2>5, <2>7
<1> QED
  BY <1>4, <1>5 DEF Begin

\* What both kinds of op have in common: the exchange goes past op i.
LEMMA PastFacts ==
  ASSUME IInv, NEW i \in tx.todo, tx # NoTx
  PROVE  LET o == tx.req.ops[i] IN
         /\ o \in Ops /\ o.site = tx.req.dev /\ o.site \in Device /\ o.site # Server
         /\ Past(i) \in Transaction /\ Past(i).req = tx.req /\ Past(i).todo \subseteq tx.todo
         /\ Past(i).log = tx.log /\ Past(i).mirror = tx.mirror
         /\ Past(i).newest \in Nat
         /\ Later(db.hlc, tx.newest) <= Later(db.hlc, Past(i).newest)
         /\ o.ts <= Later(db.hlc, Past(i).newest)
         /\ Later(db.hlc, tx.newest) \in Nat /\ Later(db.hlc, Past(i).newest) \in Nat
<1> DEFINE o == tx.req.ops[i]
<1>1. tx \in Transaction /\ tx.req \in Request /\ tx.req.ops \in Seq(Ops) /\ tx.req.dev \in Device
  BY DEF IInv, TypeOK, Transaction, Request
<1>2. i \in DOMAIN tx.req.ops /\ o \in Entries(tx.req.ops)
  BY DEF IInv, FromDevices, Entries
<1>3. o \in Ops
  BY <1>1, <1>2, LenProperties, ElementOfSeq
<1>4. o.site = tx.req.dev /\ o.site # Server
  BY <1>1, <1>2, RelayAssumption DEF IInv, FromDevices, RelayAssumption
<1>5. o.ts \in Nat /\ tx.newest \in Nat /\ db.hlc \in Nat
  BY <1>1, <1>3, OpFacts DEF IInv, TypeOK, Transaction, Database
<1> HIDE DEF o
<1>6. Later(tx.newest, o.ts) \in Nat
  BY <1>5 DEF Later
<1>7. Past(i) = [tx EXCEPT !.todo = tx.todo \ {i}, !.newest = Later(tx.newest, o.ts)]
  BY DEF Past, o
<1>8. /\ Past(i) \in Transaction /\ Past(i).req = tx.req /\ Past(i).todo \subseteq tx.todo
      /\ Past(i).log = tx.log /\ Past(i).mirror = tx.mirror
      /\ Past(i).newest = Later(tx.newest, o.ts)
  BY <1>1, <1>6, <1>7 DEF Transaction
<1>9. /\ Later(db.hlc, tx.newest) <= Later(db.hlc, Later(tx.newest, o.ts))
      /\ o.ts <= Later(db.hlc, Later(tx.newest, o.ts))
      /\ Later(db.hlc, tx.newest) \in Nat /\ Later(db.hlc, Later(tx.newest, o.ts)) \in Nat
  BY <1>5 DEF Later
<1> QED
  BY <1>1, <1>3, <1>4, <1>6, <1>8, <1>9 DEF o

\* A step of the exchange keeps the invariant when what it made of the log is consistent.
LEMMA ExchangeStep ==
  ASSUME IInv, tx # NoTx, tx' \in Transaction, tx'.req = tx.req, tx'.todo \subseteq tx.todo,
         Consistent(tx'.log, tx'.mirror, db.authored, Later(db.hlc, tx'.newest)),
         UNCHANGED <<db, epoch, backup, dev, sent, answer, prunes>>
  PROVE  IInv'
<1>1. TypeOK'
  BY DEF IInv, TypeOK
<1>2. FromDevices'
  BY DEF IInv, FromDevices
<1>3. Stores'
  BY DEF IInv, Stores
<1> QED
  BY <1>1, <1>2, <1>3 DEF IInv

LEMMA StageReaderStep ==
  ASSUME IInv, NEW i \in tx.todo, StageReader(i)
  PROVE  IInv'
<1> DEFINE o == tx.req.ops[i]
           kept == [Past(i) EXCEPT !.inbox = @ \cup {<<o.site, o.seq>>}]
           clock == Later(db.hlc, Past(i).newest)
<1>1. tx # NoTx /\ IsReader(o) /\ UNCHANGED <<db, epoch, backup, dev, sent, answer, prunes>>
  BY DEF StageReader, Turn
<1>2. /\ o \in Ops /\ o.site \in Device /\ o.site # Server
      /\ Past(i) \in Transaction /\ Past(i).req = tx.req /\ Past(i).todo \subseteq tx.todo
      /\ Past(i).log = tx.log /\ Past(i).mirror = tx.mirror /\ Past(i).newest \in Nat
      /\ Later(db.hlc, tx.newest) <= clock /\ o.ts <= clock
      /\ Later(db.hlc, tx.newest) \in Nat /\ clock \in Nat
  BY <1>1, PastFacts
<1>3. Consistent(tx.log, tx.mirror, db.authored, Later(db.hlc, tx.newest))
      /\ tx.log \in Seq(Ops) /\ db.authored \in Nat
  BY <1>1 DEF IInv, Stores, TypeOK, Transaction, Database
<1>4. Consistent(tx.log, tx.mirror, db.authored, clock)
  BY <1>2, <1>3, LaterConsistent
<1>5. o.seq \in Nat
  BY <1>2, OpFacts
<1>6. tx' \in {kept, [kept EXCEPT !.rejected = @ \cup {o.seq}]}
      \/ (~Duplicate(o) /\ tx' = [kept EXCEPT !.log = Append(@, o)])
  BY DEF StageReader
<1> HIDE DEF o, clock
<1>7. /\ kept \in Transaction /\ kept.req = tx.req /\ kept.todo \subseteq tx.todo
      /\ kept.log = tx.log /\ kept.mirror = tx.mirror /\ kept.newest = Past(i).newest
  <2>1. <<o.site, o.seq>> \in Device \X Nat
    BY <1>2, <1>5
  <2>2. Past(i).inbox \cup {<<o.site, o.seq>>} \in Receipts
    BY <1>2, <2>1 DEF Transaction, Receipts
  <2> QED
    BY <1>2, <2>2 DEF Transaction
<1> HIDE DEF kept
<1>8. CASE tx' \in {kept, [kept EXCEPT !.rejected = @ \cup {o.seq}]}
  <2>1. /\ tx' \in Transaction /\ tx'.req = tx.req /\ tx'.todo \subseteq tx.todo
        /\ tx'.log = tx.log /\ tx'.mirror = tx.mirror /\ tx'.newest = Past(i).newest
    BY <1>5, <1>7, <1>8 DEF Transaction
  <2> QED
    BY <1>1, <1>4, <2>1, ExchangeStep DEF clock
<1>9. CASE ~Duplicate(o) /\ tx' = [kept EXCEPT !.log = Append(@, o)]
  <2>1. Append(tx.log, o) \in Seq(Ops)
    BY <1>2, <1>3, AppendFacts
  <2>2. /\ tx' \in Transaction /\ tx'.req = tx.req /\ tx'.todo \subseteq tx.todo
        /\ tx'.log = Append(tx.log, o) /\ tx'.mirror = tx.mirror /\ tx'.newest = Past(i).newest
    BY <1>7, <1>9, <2>1 DEF Transaction
  <2>3. Latest(Append(tx.log, o), tx.mirror)
    BY <1>1, <1>2, <1>3, ReaderLatest DEF Consistent
  <2>4. ~Logged(tx.log, o.site, o.seq)
    BY <1>9 DEF Duplicate
  <2>5. Consistent(Append(tx.log, o), tx.mirror, db.authored, clock)
    BY <1>2, <1>3, <2>3, <2>4, AppendConsistent
  <2> QED
    BY <1>1, <2>2, <2>5, ExchangeStep DEF clock
<1> QED
  BY <1>6, <1>8, <1>9

LEMMA ApplyWriterStep ==
  ASSUME IInv, NEW i \in tx.todo, ApplyWriter(i)
  PROVE  IInv'
<1> DEFINE o == tx.req.ops[i]
           clock == Later(db.hlc, Past(i).newest)
           merged == [tx.mirror EXCEPT ![o.key] = IF Wins(o, @) THEN o ELSE @]
<1>1. tx # NoTx /\ IsWriter(o) /\ UNCHANGED <<db, epoch, backup, dev, sent, answer, prunes>>
  BY DEF ApplyWriter, Turn
<1>2. /\ o \in Ops /\ o.site \in Device /\ o.site # Server
      /\ Past(i) \in Transaction /\ Past(i).req = tx.req /\ Past(i).todo \subseteq tx.todo
      /\ Past(i).log = tx.log /\ Past(i).mirror = tx.mirror /\ Past(i).newest \in Nat
      /\ Later(db.hlc, tx.newest) <= clock /\ o.ts <= clock
      /\ Later(db.hlc, tx.newest) \in Nat /\ clock \in Nat
  BY <1>1, PastFacts
<1>3. /\ Consistent(tx.log, tx.mirror, db.authored, Later(db.hlc, tx.newest))
      /\ tx.log \in Seq(Ops) /\ tx.mirror \in Mirrors /\ db.authored \in Nat
  BY <1>1 DEF IInv, Stores, TypeOK, Transaction, Database
<1>4. Consistent(tx.log, tx.mirror, db.authored, clock)
  BY <1>2, <1>3, LaterConsistent
<1>5. o.seq \in Nat /\ o.key \in Key
  BY <1>2, OpFacts
<1>6. \/ tx' \in {Past(i), [Past(i) EXCEPT !.rejected = @ \cup {o.seq}]}
      \/ /\ ~Duplicate(o) /\ ~Refused(o)
         /\ tx' = [Past(i) EXCEPT !.log = Append(@, o), !.mirror[o.key] = IF Wins(o, @) THEN o ELSE @]
  BY DEF ApplyWriter
<1> HIDE DEF o, clock
<1>7. CASE tx' \in {Past(i), [Past(i) EXCEPT !.rejected = @ \cup {o.seq}]}
  <2>1. /\ tx' \in Transaction /\ tx'.req = tx.req /\ tx'.todo \subseteq tx.todo
        /\ tx'.log = tx.log /\ tx'.mirror = tx.mirror /\ tx'.newest = Past(i).newest
    BY <1>2, <1>5, <1>7 DEF Transaction
  <2> QED
    BY <1>1, <1>4, <2>1, ExchangeStep DEF clock
<1>8. CASE /\ ~Duplicate(o) /\ ~Refused(o)
           /\ tx' = [Past(i) EXCEPT !.log = Append(@, o), !.mirror[o.key] = IF Wins(o, @) THEN o ELSE @]
  <2>1. Append(tx.log, o) \in Seq(Ops)
    BY <1>2, <1>3, AppendFacts
  <2>2. ~Logged(tx.log, o.site, o.seq)
    BY <1>8 DEF Duplicate
  <2>3. o.kind = "row" \/ ~Wins(o, tx.mirror[o.key])
    BY <1>1, <1>2, <1>8 DEF Refused, IsWriter, IsReader, Ops, Kinds
  <2>4. merged \in Mirrors /\ Latest(Append(tx.log, o), merged)
    BY <1>1, <1>2, <1>3, <2>2, <2>3, MergeLatest DEF Consistent
  <2>5. tx' = [Past(i) EXCEPT !.log = Append(tx.log, o), !.mirror = merged]
    BY <1>2, <1>8 DEF Transaction
  <2> HIDE DEF merged
  <2>6. /\ tx' \in Transaction /\ tx'.req = tx.req /\ tx'.todo \subseteq tx.todo
        /\ tx'.log = Append(tx.log, o) /\ tx'.mirror = merged /\ tx'.newest = Past(i).newest
    BY <1>2, <2>1, <2>4, <2>5 DEF Transaction
  <2>7. Consistent(Append(tx.log, o), merged, db.authored, clock)
    BY <1>2, <1>3, <2>2, <2>4, AppendConsistent
  <2> QED
    BY <1>1, <2>6, <2>7, ExchangeStep DEF clock
<1> QED
  BY <1>6, <1>7, <1>8

LEMMA WalkStep == IInv /\ Walk => IInv'
<1> SUFFICES ASSUME IInv, Walk PROVE IInv'
  OBVIOUS
<1>1. tx # NoTx /\ tx' = [tx EXCEPT !.accepted = @ + 1]
      /\ UNCHANGED <<db, epoch, backup, dev, sent, answer, prunes>>
  BY DEF Walk
<1>2. tx \in Transaction
  BY <1>1 DEF IInv, TypeOK
<1>3. /\ tx' \in Transaction /\ tx'.req = tx.req /\ tx'.todo = tx.todo
      /\ tx'.log = tx.log /\ tx'.mirror = tx.mirror /\ tx'.newest = tx.newest
  BY <1>1, <1>2 DEF Transaction
<1>4. Consistent(tx'.log, tx'.mirror, db.authored, Later(db.hlc, tx'.newest))
  BY <1>1, <1>3 DEF IInv, Stores
<1> QED
  BY <1>1, <1>3, <1>4, ExchangeStep

LEMMA CommitStep == IInv /\ Commit => IInv'
<1> SUFFICES ASSUME IInv, Commit PROVE IInv'
  OBVIOUS
<1> USE DEF IInv
<1> DEFINE r == tx.req
           page == Page(tx.log, r.dev, r.cursor)
<1>1. /\ tx # NoTx /\ tx' = NoTx /\ UNCHANGED <<epoch, backup, dev, sent, prunes>>
      /\ db' = [db EXCEPT !.log = tx.log, !.mirror = tx.mirror, !.inbox = tx.inbox,
                          !.cursors = @ \cup {r.dev}, !.acked[r.dev] = tx.accepted,
                          !.hlc = Later(@, tx.newest)]
  BY DEF Commit
<1>2. /\ tx \in Transaction /\ r \in Request /\ r.dev \in Device /\ r.cursor \in Nat
      /\ tx.log \in Seq(Ops) /\ tx.accepted \in Nat /\ tx.newest \in Nat /\ epoch \in Nat
  BY <1>1 DEF TypeOK, Transaction, Request
<1>3. db \in Database /\ db.hlc \in Nat /\ db.authored \in Nat
  BY DEF TypeOK, Database
<1>4. Later(db.hlc, tx.newest) \in Nat
  BY <1>2, <1>3 DEF Later
<1>5. db' \in Database
  BY <1>1, <1>2, <1>3, <1>4 DEF Database, Transaction
<1>6. /\ db'.log = tx.log /\ db'.mirror = tx.mirror /\ db'.authored = db.authored
      /\ db'.hlc = Later(db.hlc, tx.newest)
  BY <1>1, <1>3 DEF Database
<1>7. Consistent(db'.log, db'.mirror, db'.authored, db'.hlc)
  BY <1>1, <1>6 DEF Stores
<1>8. answer' \in [Device -> Answer \cup {NoAnswer}]
  <2>1. PICK c \in Top({r.cursor} \cup page) :
          Reply(r, [ops |-> {tx.log[i] : i \in page}, cursor |-> c,
                    epoch |-> epoch, accepted |-> tx.accepted])
    BY DEF Commit
  <2>2. page \subseteq DOMAIN tx.log
    BY DEF Page, Beyond
  <2>3. c \in Nat
    BY <1>2, <2>2, LenProperties DEF Top
  <2>4. {tx.log[i] : i \in page} \subseteq Ops
    BY <1>2, <2>2, LenProperties, ElementOfSeq
  <2>5. [ops |-> {tx.log[i] : i \in page}, cursor |-> c,
         epoch |-> epoch, accepted |-> tx.accepted] \in Answer
    BY <1>2, <2>3, <2>4 DEF Answer
  <2> QED
    BY <1>2, <2>1, <2>5 DEF Reply, TypeOK
<1>9. TypeOK'
  BY <1>1, <1>5, <1>7, <1>8 DEF TypeOK, Consistent
<1>10. FromDevices'
  BY <1>1 DEF FromDevices
<1>11. Stores'
  BY <1>1, <1>7 DEF Stores
<1> QED
  BY <1>9, <1>10, <1>11

LEMMA FailStep == IInv /\ Fail => IInv'
<1> SUFFICES ASSUME IInv, Fail PROVE IInv'
  OBVIOUS
<1> USE DEF IInv
<1>1. tx # NoTx /\ tx' = NoTx /\ UNCHANGED <<db, epoch, backup, sent, answer, prunes>>
  BY DEF Fail
<1>2. dev' \in [Device -> Tablet] /\ \A e \in Device : dev'[e].hist = dev[e].hist
  <2> DEFINE d == tx.req.dev
             w == [dev[d] EXCEPT !.waiting = FALSE]
  <2>1. dev \in [Device -> Tablet] /\ d \in Device
    BY <1>1 DEF TypeOK, Transaction, Request
  <2>2. dev' = dev \/ dev' = [dev EXCEPT ![d] = w]
    BY DEF Fail
  <2> HIDE DEF d
  <2>3. w \in Tablet /\ w.hist = dev[d].hist
    BY <2>1 DEF Tablet
  <2> HIDE DEF w
  <2> QED
    BY <2>1, <2>2, <2>3
<1>3. TypeOK'
  BY <1>1, <1>2 DEF TypeOK
<1>4. FromDevices'
  BY <1>1, <1>2 DEF FromDevices
<1>5. Stores'
  BY <1>1 DEF Stores
<1> QED
  BY <1>3, <1>4, <1>5

LEMMA AuthorOpsStep == IInv /\ AuthorOps => IInv'
<1> SUFFICES ASSUME IInv, AuthorOps PROVE IInv'
  OBVIOUS
<1> USE DEF IInv
<1>1. tx = NoTx /\ UNCHANGED <<epoch, backup, tx, dev, sent, answer, prunes>>
  BY DEF AuthorOps
<1>2. PICK k \in Key, t \in (db.hlc + 1)..MaxTs :
        LET o == [site |-> Server, seq |-> db.authored + 1, ts |-> t, key |-> k, kind |-> "row"]
        IN db' = [db EXCEPT !.log = Append(@, o), !.authored = o.seq, !.hlc = t,
                            !.mirror[k] = IF Wins(o, @) THEN o ELSE @]
  BY DEF AuthorOps
<1> DEFINE o == [site |-> Server, seq |-> db.authored + 1, ts |-> t, key |-> k, kind |-> "row"]
           merged == [db.mirror EXCEPT ![o.key] = IF Wins(o, @) THEN o ELSE @]
<1>3. /\ db \in Database /\ db.log \in Seq(Ops) /\ db.mirror \in Mirrors
      /\ db.hlc \in Nat /\ db.authored \in Nat
      /\ Consistent(db.log, db.mirror, db.authored, db.hlc)
  BY DEF TypeOK, Stores, Database
<1>4. t \in Nat /\ db.hlc < t
  BY <1>3, RelayAssumption DEF RelayAssumption
<1>5. o \in Ops /\ o.site = Server /\ o.seq = db.authored + 1 /\ o.ts = t /\ o.key = k /\ o.kind = "row"
  BY <1>3, <1>4 DEF Ops, Site, Kinds
<1>6. db' = [db EXCEPT !.log = Append(db.log, o), !.authored = db.authored + 1, !.hlc = t, !.mirror = merged]
  BY <1>2, <1>3 DEF Database
<1> HIDE DEF o
<1>7. ~Logged(db.log, o.site, o.seq)
  <2>1. \A e \in Entries(db.log) : e.seq \in Nat
    BY <1>3, <1>5, AppendFacts, OpFacts
  <2> QED
    BY <1>3, <1>5, <2>1 DEF Logged, Consistent
<1>8. IsWriter(o)
  BY <1>5 DEF IsWriter, IsReader
<1>9. merged \in Mirrors /\ Latest(Append(db.log, o), merged)
  BY <1>3, <1>5, <1>7, <1>8, MergeLatest DEF Consistent
<1> HIDE DEF merged
<1>10. Consistent(Append(db.log, o), merged, db.authored + 1, t)
  BY <1>3, <1>4, <1>5, <1>7, <1>9, AppendConsistent
<1>11. Append(db.log, o) \in Seq(Ops)
  BY <1>3, <1>5, AppendFacts
<1>12. /\ db' \in Database /\ db'.log = Append(db.log, o) /\ db'.mirror = merged
       /\ db'.authored = db.authored + 1 /\ db'.hlc = t
  <2>1. db.authored + 1 \in Nat
    BY <1>3
  <2> DEFINE log == Append(db.log, o)
             count == db.authored + 1
  <2>2. log \in Seq(Ops) /\ count \in Nat /\ db' = [db EXCEPT !.log = log, !.authored = count, !.hlc = t, !.mirror = merged]
    BY <1>6, <1>11, <2>1
  <2> HIDE DEF log, count
  <2>3. /\ db' \in Database /\ db'.log = log /\ db'.mirror = merged
        /\ db'.authored = count /\ db'.hlc = t
    BY <1>3, <1>4, <1>9, <2>2 DEF Database
  <2> QED
    BY <2>3 DEF log, count
<1>13. TypeOK'
  BY <1>1, <1>10, <1>12 DEF TypeOK, Consistent
<1>14. FromDevices'
  BY <1>1 DEF FromDevices
<1>15. Stores'
  BY <1>1, <1>10, <1>12 DEF Stores
<1> QED
  BY <1>13, <1>14, <1>15

LEMMA PruneDeviceStep ==
  ASSUME IInv, NEW d \in Device, PruneDevice(d)
  PROVE  IInv'
<1> USE DEF IInv
<1>1. /\ db' = [db EXCEPT !.cursors = @ \ {d}, !.acked[d] = 0] /\ prunes' = prunes + 1
      /\ UNCHANGED <<epoch, backup, tx, dev, sent, answer>>
  BY DEF PruneDevice
<1>2. db \in Database
  BY DEF TypeOK
<1>3. /\ db' \in Database /\ db'.log = db.log /\ db'.mirror = db.mirror
      /\ db'.authored = db.authored /\ db'.hlc = db.hlc
  BY <1>1, <1>2 DEF Database
<1>4. TypeOK'
  BY <1>1, <1>3 DEF TypeOK
<1>5. FromDevices'
  BY <1>1 DEF FromDevices
<1>6. Stores'
  BY <1>1, <1>3 DEF Stores
<1> QED
  BY <1>4, <1>5, <1>6

LEMMA BackupStep == IInv /\ Backup => IInv'
<1> SUFFICES ASSUME IInv, Backup PROVE IInv'
  OBVIOUS
<1>1. backup' = db /\ UNCHANGED <<db, epoch, tx, dev, sent, answer, prunes>>
  BY DEF Backup
<1> QED
  BY <1>1 DEF IInv, TypeOK, FromDevices, Stores

LEMMA RestoreStep == IInv /\ Restore => IInv'
<1> SUFFICES ASSUME IInv, Restore PROVE IInv'
  OBVIOUS
<1>1. tx = NoTx /\ db' = backup /\ epoch' = epoch + 1 /\ UNCHANGED <<backup, tx, dev, sent, answer, prunes>>
  BY DEF Restore, NewEpoch
<1> QED
  BY <1>1 DEF IInv, TypeOK, FromDevices, Stores, Consistent

LEMMA NextInv == IInv /\ [Next]_vars => IInv'
<1> SUFFICES ASSUME IInv, [Next]_vars PROVE IInv'
  OBVIOUS
<1>1. ASSUME NEW d \in Device, Author(d) PROVE IInv'
  BY <1>1, AuthorStep
<1>2. ASSUME NEW d \in Device, Send(d) PROVE IInv'
  BY <1>2, SendStep
<1>3. ASSUME NEW d \in Device, Receive(d) PROVE IInv'
  BY <1>3, ReceiveStep
<1>4. ASSUME NEW d \in Device, PruneDevice(d) PROVE IInv'
  BY <1>4, PruneDeviceStep
<1>5. ASSUME NEW d \in Device, Exchange(d) PROVE IInv'
  <2>1. ASSUME NEW r \in sent, Begin(r) PROVE IInv'
    BY <2>1, BeginStep
  <2>2. ASSUME NEW i \in tx.todo, StageReader(i) PROVE IInv'
    BY <2>2, StageReaderStep
  <2>3. ASSUME NEW i \in tx.todo, ApplyWriter(i) PROVE IInv'
    BY <2>3, ApplyWriterStep
  <2> QED
    BY <1>5, <2>1, <2>2, <2>3, WalkStep, CommitStep DEF Exchange
<1>6. ASSUME NEW d \in Device, GiveUp(d) PROVE IInv'
  BY <1>6, GiveUpStep
<1>7. CASE UNCHANGED vars
  BY <1>7 DEF vars, IInv, TypeOK, FromDevices, Stores
<1> QED
  BY <1>1, <1>2, <1>3, <1>4, <1>5, <1>6, <1>7, AuthorOpsStep, BackupStep, RestoreStep, FailStep
  DEF Next, Steady, Trouble

\* The invariant is one: it holds initially and every step keeps it.
THEOREM Inductive == Spec => []IInv
BY InitInv, NextInv, PTL DEF Spec

-----------------------------------------------------------------------------
(* What follows.                                                            *)

\* Every variable keeps its type and no op is logged twice, whatever is repeated,
\* arrives late or is restored.
THEOREM TypeCorrect == Spec => []TypeOK
<1>1. IInv => TypeOK
  BY DEF IInv
<1> QED
  BY <1>1, Inductive, PTL

\* The mirror is the latest logged op of every row.
THEOREM MirrorCurrent == Spec => []MirrorLatest
<1>1. IInv => MirrorLatest
  BY DEF IInv, Stores, Consistent, MirrorLatest
<1> QED
  BY <1>1, Inductive, PTL

\* The server's changes sort after all they were made on.
THEOREM ServerLast == Spec => []ServerSortsLast
<1>1. IInv => ServerSortsLast
  BY DEF IInv, Stores, Consistent, Sorted, ServerSortsLast
<1> QED
  BY <1>1, Inductive, PTL

-----------------------------------------------------------------------------
(* Delivery: a device's cursor passes nothing it has not pulled.            *)

\* A cursor and what was pulled by then.
Covered(log, d, cursor, seen) ==
  /\ cursor <= Len(log)
  /\ \A i \in 1..cursor : log[i].site # d => log[i] \in seen

Extends(old, new) == Len(old) <= Len(new) /\ \A i \in 1..Len(old) : new[i] = old[i]

\* A request whose device still waits says what the device knows.
Belongs(r) ==
  /\ dev[r.dev].waiting /\ answer[r.dev] = NoAnswer
  /\ r.epoch = dev[r.dev].epoch /\ r.cursor = dev[r.dev].cursor

\* A device waits for one thing: a request, an exchange or an answer.
Alone ==
  /\ \A r \in sent : r.live => Belongs(r) /\ \A s \in sent : s.live /\ s.dev = r.dev => s = r
  /\ tx # NoTx /\ tx.req.live => Belongs(tx.req) /\ \A s \in sent : s.live => s.dev # tx.req.dev
  /\ \A d \in Device : answer[d] # NoAnswer => dev[d].waiting

\* Nobody is ahead of the epoch, and an exchange runs in the current one.
Epochs ==
  /\ epoch # 0
  /\ \A d \in Device : dev[d].epoch <= epoch /\ (dev[d].epoch = 0 => dev[d].cursor = 0 /\ dev[d].from = 0)
  /\ \A d \in Device : answer[d] # NoAnswer => answer[d].epoch \in 1..epoch
  /\ \A r \in sent : r.epoch <= epoch
  /\ tx # NoTx => tx.req.epoch \in {0, epoch}

Growing == tx # NoTx => Extends(db.log, tx.log) /\ db.inbox \subseteq tx.inbox

Pulled ==
  \A d \in Device :
    /\ dev[d].epoch = epoch => Covered(db.log, d, dev[d].cursor, dev[d].seen)
    /\ answer[d] # NoAnswer /\ answer[d].epoch = epoch =>
         Covered(db.log, d, answer[d].cursor, dev[d].seen \cup answer[d].ops)

PullInv == Alone /\ Epochs /\ Growing /\ Pulled

-----------------------------------------------------------------------------
(* Logs and pages.                                                          *)

LEMMA CoveredExtends ==
  ASSUME NEW old \in Seq(Ops), NEW new \in Seq(Ops), Extends(old, new),
         NEW d, NEW c \in Nat, NEW seen, NEW more, seen \subseteq more, Covered(old, d, c, seen)
  PROVE  Covered(new, d, c, more)
<1>1. Len(old) \in Nat /\ Len(new) \in Nat
  BY LenProperties
<1> QED
  BY <1>1 DEF Covered, Extends

LEMMA AppendExtends ==
  ASSUME NEW log \in Seq(Ops), NEW o \in Ops
  PROVE  Extends(log, log) /\ Extends(log, Append(log, o))
<1>1. Len(log) \in Nat
  BY LenProperties
<1>2. Len(Append(log, o)) = Len(log) + 1 /\ \A i \in 1..Len(log) : Append(log, o)[i] = log[i]
  BY AppendProperties
<1> QED
  BY <1>1, <1>2 DEF Extends

LEMMA ExtendsTransitive ==
  ASSUME NEW a \in Seq(Ops), NEW b \in Seq(Ops), NEW c \in Seq(Ops), Extends(a, b), Extends(b, c)
  PROVE  Extends(a, c)
<1>1. Len(a) \in Nat /\ Len(b) \in Nat /\ Len(c) \in Nat
  BY LenProperties
<1> QED
  BY <1>1 DEF Extends

\* A page has no hole: what lies between the cursor and its last op is in it.
LEMMA PageCovers ==
  ASSUME NEW log \in Seq(Ops), NEW d, NEW cursor \in Nat, NEW seen, Covered(log, d, cursor, seen),
         NEW c \in Top({cursor} \cup Page(log, d, cursor))
  PROVE  Covered(log, d, c, seen \cup {log[i] : i \in Page(log, d, cursor)})
<1> DEFINE page == Page(log, d, cursor)
           beyond == Beyond(log, d, cursor)
           upto(n) == {j \in beyond : j <= n}
<1>1. Len(log) \in Nat /\ DOMAIN log = 1..Len(log)
  BY LenProperties
<1>2. beyond \subseteq 1..Len(log) /\ page \subseteq beyond /\ \A i \in beyond : i > cursor
  BY <1>1 DEF Beyond, Page
<1>3. c \in {cursor} \cup page
  BY DEF Top
<1>4. c \in Nat /\ c <= Len(log)
  BY <1>1, <1>2, <1>3 DEF Covered
<1>5. ASSUME NEW i \in 1..c, log[i].site # d, i > cursor
      PROVE  i \in page
  <2>1. c \in page /\ i \in beyond
    BY <1>1, <1>3, <1>4, <1>5 DEF Beyond
  <2>2. upto(i) \subseteq upto(c)
    BY <1>1, <1>2, <1>4
  <2>3. IsFiniteSet(upto(c))
    <3>1. IsFiniteSet(1..Len(log)) /\ upto(c) \subseteq 1..Len(log)
      BY <1>1, <1>2, FS_Interval
    <3> QED
      BY <3>1, FS_Subset
  <2>4. /\ Cardinality(upto(i)) \in Nat /\ Cardinality(upto(c)) \in Nat
        /\ Cardinality(upto(i)) <= Cardinality(upto(c))
    BY <2>2, <2>3, FS_Subset, FS_CardinalityType
  <2>5. Cardinality(upto(c)) <= MaxPull
    BY <2>1 DEF Page
  <2>6. Cardinality(upto(i)) <= MaxPull
    BY <2>4, <2>5, RelayAssumption DEF RelayAssumption
  <2> QED
    BY <2>1, <2>6 DEF Page
<1> HIDE DEF page
<1>6. ASSUME NEW i \in 1..c, log[i].site # d
      PROVE  log[i] \in seen \cup {log[j] : j \in page}
  <2>1. CASE i > cursor
    BY <1>5, <1>6, <2>1
  <2>2. CASE ~(i > cursor)
    <3>1. i \in 1..cursor
      BY <1>4, <2>2
    <3> QED
      BY <1>6, <3>1 DEF Covered
  <2> QED
    BY <2>1, <2>2
<1> QED
  BY <1>4, <1>6 DEF Covered, page

-----------------------------------------------------------------------------
(* Every action keeps PullInv.                                              *)

LEMMA Types ==
  ASSUME IInv
  PROVE  /\ db \in Database /\ db.log \in Seq(Ops) /\ db.inbox \in Receipts /\ db.acked \in [Device -> Nat]
         /\ backup \in Database /\ epoch \in Nat
         /\ dev \in [Device -> Tablet]
         /\ \A d \in Device : /\ dev[d] \in Tablet /\ dev[d].hist \in Seq(Ops)
                              /\ dev[d].cursor \in Nat /\ dev[d].epoch \in Nat /\ dev[d].from \in Nat
         /\ \A r \in sent : /\ r \in Request /\ r.dev \in Device /\ r.ops \in Seq(Ops)
                            /\ r.epoch \in Nat /\ r.cursor \in Nat /\ r.live \in BOOLEAN
         /\ tx # NoTx => /\ tx \in Transaction /\ tx.log \in Seq(Ops) /\ tx.req \in Request
                         /\ tx.req.dev \in Device /\ tx.req.ops \in Seq(Ops)
                         /\ tx.req.epoch \in Nat /\ tx.req.cursor \in Nat /\ tx.req.live \in BOOLEAN
                         /\ tx.inbox \in Receipts /\ tx.accepted \in Nat
         /\ answer \in [Device -> Answer \cup {NoAnswer}]
         /\ \A d \in Device : answer[d] # NoAnswer =>
              /\ answer[d] \in Answer /\ answer[d].cursor \in Nat /\ answer[d].epoch \in Nat
              /\ answer[d].accepted \in Nat
<1>1. db \in Database /\ backup \in Database /\ epoch \in Nat /\ dev \in [Device -> Tablet]
      /\ answer \in [Device -> Answer \cup {NoAnswer}] /\ sent \subseteq Request
      /\ tx \in Transaction \cup {NoTx}
  BY DEF IInv, TypeOK
<1>2. /\ db.log \in Seq(Ops) /\ db.inbox \in Receipts /\ db.acked \in [Device -> Nat]
  BY <1>1 DEF Database
<1>3. \A d \in Device : /\ dev[d] \in Tablet /\ dev[d].hist \in Seq(Ops)
                        /\ dev[d].cursor \in Nat /\ dev[d].epoch \in Nat /\ dev[d].from \in Nat
  BY <1>1 DEF Tablet
<1>4. \A r \in Request : /\ r.dev \in Device /\ r.ops \in Seq(Ops)
                         /\ r.epoch \in Nat /\ r.cursor \in Nat /\ r.live \in BOOLEAN
  BY DEF Request
<1>5. tx # NoTx => /\ tx \in Transaction /\ tx.log \in Seq(Ops) /\ tx.req \in Request
                   /\ tx.inbox \in Receipts /\ tx.accepted \in Nat
  BY <1>1 DEF Transaction
<1>6. \A a \in Answer : a.cursor \in Nat /\ a.epoch \in Nat /\ a.accepted \in Nat
  BY DEF Answer
<1> QED
  BY <1>1, <1>2, <1>3, <1>4, <1>5, <1>6

LEMMA InitPull == Init => PullInv
<1> SUFFICES ASSUME Init PROVE PullInv
  OBVIOUS
<1>1. /\ sent = {} /\ tx = NoTx /\ epoch = 1 /\ db.log = <<>>
      /\ \A d \in Device : answer[d] = NoAnswer /\ dev[d].cursor = 0 /\ dev[d].epoch = 0 /\ dev[d].from = 0
  BY DEF Init, Empty, NewDevice
<1> QED
  BY <1>1 DEF PullInv, Alone, Epochs, Growing, Pulled

LEMMA AuthorPull ==
  ASSUME IInv, PullInv, NEW d \in Device, Author(d)
  PROVE  PullInv'
<1>1. UNCHANGED <<db, epoch, backup, tx, sent, answer, prunes>>
  BY DEF Author
<1>2. \A e \in Device : /\ dev'[e].cursor = dev[e].cursor /\ dev'[e].epoch = dev[e].epoch
                        /\ dev'[e].from = dev[e].from /\ dev'[e].seen = dev[e].seen
                        /\ dev'[e].waiting = dev[e].waiting
  BY Types DEF Author, Tablet
<1>3. (\A r \in sent : r.dev \in Device) /\ (tx # NoTx => tx.req.dev \in Device)
  BY Types
<1>4. Alone'
  BY <1>1, <1>2, <1>3 DEF PullInv, Alone, Belongs
<1>5. Epochs' /\ Growing' /\ Pulled'
  BY <1>1, <1>2 DEF PullInv, Epochs, Growing, Pulled
<1> QED
  BY <1>4, <1>5 DEF PullInv

LEMMA SendPull ==
  ASSUME IInv, PullInv, NEW d \in Device, Send(d)
  PROVE  PullInv'
<1> DEFINE r == [dev |-> d, ops |-> Outbox(d), cursor |-> dev[d].cursor,
                 epoch |-> dev[d].epoch, live |-> TRUE]
<1>1. /\ ~dev[d].waiting /\ sent' = sent \cup {r} /\ dev' = [dev EXCEPT ![d].waiting = TRUE]
      /\ UNCHANGED <<db, epoch, backup, tx, answer, prunes>>
  BY DEF Send
<1>2. r.dev = d /\ r.cursor = dev[d].cursor /\ r.epoch = dev[d].epoch /\ r.live
  OBVIOUS
<1> HIDE DEF r
<1>3. /\ \A e \in Device : /\ dev'[e].cursor = dev[e].cursor /\ dev'[e].epoch = dev[e].epoch
                           /\ dev'[e].from = dev[e].from /\ dev'[e].seen = dev[e].seen
                           /\ e # d => dev'[e].waiting = dev[e].waiting
      /\ dev'[d].waiting
  BY <1>1, Types DEF Tablet
<1>4. (\A s \in sent : s.dev \in Device) /\ (tx # NoTx => tx.req.dev \in Device)
  BY Types
<1>5. /\ \A s \in sent : s.live => s.dev # d
      /\ tx # NoTx /\ tx.req.live => tx.req.dev # d
      /\ answer[d] = NoAnswer
  BY <1>1 DEF PullInv, Alone, Belongs
<1>6. Alone'
  <2>1. ASSUME NEW s \in sent', s.live
        PROVE  Belongs(s)' /\ \A t \in sent' : t.live /\ t.dev = s.dev => t = s
    <3>1. CASE s = r
      BY <1>1, <1>2, <1>3, <1>5, <3>1 DEF Belongs
    <3>2. CASE s \in sent
      BY <1>1, <1>2, <1>3, <1>4, <1>5, <2>1, <3>2 DEF PullInv, Alone, Belongs
    <3> QED
      BY <1>1, <2>1, <3>1, <3>2
  <2>2. ASSUME tx' # NoTx, tx'.req.live
        PROVE  Belongs(tx.req)' /\ \A s \in sent' : s.live => s.dev # tx'.req.dev
    BY <1>1, <1>2, <1>3, <1>4, <1>5, <2>2 DEF PullInv, Alone, Belongs
  <2>3. \A e \in Device : answer'[e] # NoAnswer => dev'[e].waiting
    BY <1>1, <1>3 DEF PullInv, Alone
  <2> QED
    BY <1>1, <2>1, <2>2, <2>3 DEF Alone
<1>7. Epochs'
  <2>1. \A s \in sent' : s.epoch <= epoch
    BY <1>1, <1>2 DEF PullInv, Epochs
  <2> QED
    BY <1>1, <1>3, <2>1 DEF PullInv, Epochs
<1>8. Growing' /\ Pulled'
  BY <1>1, <1>3 DEF PullInv, Growing, Pulled
<1> QED
  BY <1>6, <1>7, <1>8 DEF PullInv

LEMMA GiveUpPull ==
  ASSUME IInv, PullInv, NEW d \in Device, GiveUp(d)
  PROVE  PullInv'
<1>1. /\ dev' = [dev EXCEPT ![d].waiting = FALSE] /\ answer' = [answer EXCEPT ![d] = NoAnswer]
      /\ UNCHANGED <<db, epoch, backup, prunes>>
  BY DEF GiveUp
<1>2. \A e \in Device : /\ dev'[e].cursor = dev[e].cursor /\ dev'[e].epoch = dev[e].epoch
                        /\ dev'[e].from = dev[e].from /\ dev'[e].seen = dev[e].seen
                        /\ e # d => dev'[e].waiting = dev[e].waiting /\ answer'[e] = answer[e]
  BY <1>1, Types DEF Tablet
<1>3. answer'[d] = NoAnswer
  BY <1>1, Types
<1>4. \A r \in sent : ~Late(r).live /\ Late(r).epoch = r.epoch
  BY Types DEF Late, Request
<1>5. \A r \in sent' : (r \in sent /\ (r.live => r.dev # d)) \/ \E s \in sent : r = Late(s)
  BY DEF GiveUp, Mine
<1>6. \A r \in sent' : (r.live => r \in sent /\ r.dev # d) /\ r.epoch <= epoch
  BY <1>4, <1>5 DEF PullInv, Epochs
<1>7. /\ tx' # NoTx => /\ tx # NoTx /\ tx'.req.epoch = tx.req.epoch
                       /\ tx'.log = tx.log /\ tx'.inbox = tx.inbox
      /\ tx' # NoTx /\ tx'.req.live => tx' = tx /\ tx.req.dev # d
  <2>1. CASE tx # NoTx /\ tx.req.dev = d
    <3>1. tx' = [tx EXCEPT !.req.live = FALSE]
      BY <2>1 DEF GiveUp
    <3> QED
      BY <2>1, <3>1, Types DEF Transaction, Request
  <2>2. CASE ~(tx # NoTx /\ tx.req.dev = d)
    BY <2>2 DEF GiveUp
  <2> QED
    BY <2>1, <2>2
<1>8. (\A s \in sent : s.dev \in Device) /\ (tx # NoTx => tx.req.dev \in Device)
  BY Types
<1>9. Alone'
  <2>1. ASSUME NEW s \in sent', s.live
        PROVE  Belongs(s)' /\ \A t \in sent' : t.live /\ t.dev = s.dev => t = s
    BY <1>2, <1>6, <1>8, <2>1 DEF PullInv, Alone, Belongs
  <2>2. ASSUME tx' # NoTx, tx'.req.live
        PROVE  Belongs(tx.req)' /\ \A s \in sent' : s.live => s.dev # tx'.req.dev
    BY <1>2, <1>6, <1>7, <1>8, <2>2 DEF PullInv, Alone, Belongs
  <2>3. \A e \in Device : answer'[e] # NoAnswer => dev'[e].waiting
    BY <1>2, <1>3 DEF PullInv, Alone
  <2> QED
    BY <2>1, <2>2, <2>3 DEF Alone
<1>10. Epochs'
  BY <1>1, <1>2, <1>3, <1>6, <1>7 DEF PullInv, Epochs
<1>11. Growing'
  BY <1>1, <1>7 DEF PullInv, Growing
<1>12. Pulled'
  BY <1>1, <1>2, <1>3 DEF PullInv, Pulled
<1> QED
  BY <1>9, <1>10, <1>11, <1>12 DEF PullInv

LEMMA ReceivePull ==
  ASSUME IInv, PullInv, NEW d \in Device, Receive(d)
  PROVE  PullInv'
<1> DEFINE a == answer[d]
<1>1. /\ a # NoAnswer /\ answer' = [answer EXCEPT ![d] = NoAnswer]
      /\ UNCHANGED <<db, epoch, backup, tx, sent, prunes>>
  BY DEF Receive
<1>2. /\ \A e \in Device : e # d => dev'[e] = dev[e] /\ answer'[e] = answer[e]
      /\ dev'[d].cursor = a.cursor /\ dev'[d].epoch = a.epoch /\ dev'[d].seen = dev[d].seen \cup a.ops
      /\ answer'[d] = NoAnswer
  BY <1>1, Types DEF Receive, Tablet
<1>3. a.epoch \in 1..epoch
  BY <1>1 DEF PullInv, Epochs
<1> HIDE DEF a
<1>4. /\ \A s \in sent : s.live => s.dev # d
      /\ tx # NoTx /\ tx.req.live => tx.req.dev # d
  BY <1>1 DEF PullInv, Alone, Belongs, a
<1>5. (\A s \in sent : s.dev \in Device) /\ (tx # NoTx => tx.req.dev \in Device)
  BY Types
<1>6. Alone'
  <2>1. ASSUME NEW s \in sent', s.live
        PROVE  Belongs(s)' /\ \A t \in sent' : t.live /\ t.dev = s.dev => t = s
    BY <1>1, <1>2, <1>4, <1>5, <2>1 DEF PullInv, Alone, Belongs
  <2>2. ASSUME tx' # NoTx, tx'.req.live
        PROVE  Belongs(tx.req)' /\ \A s \in sent' : s.live => s.dev # tx'.req.dev
    BY <1>1, <1>2, <1>4, <1>5, <2>2 DEF PullInv, Alone, Belongs
  <2>3. \A e \in Device : answer'[e] # NoAnswer => dev'[e].waiting
    BY <1>2 DEF PullInv, Alone
  <2> QED
    BY <1>1, <2>1, <2>2, <2>3 DEF Alone
<1>7. Epochs'
  <2>1. \A e \in Device : dev'[e].epoch <= epoch /\ (dev'[e].epoch = 0 => dev'[e].cursor = 0 /\ dev'[e].from = 0)
    BY <1>2, <1>3, Types DEF PullInv, Epochs
  <2> QED
    BY <1>1, <1>2, <2>1 DEF PullInv, Epochs
<1>8. Growing'
  BY <1>1 DEF PullInv, Growing
<1>9. Pulled'
  <2>1. a.epoch = epoch => Covered(db.log, d, a.cursor, dev[d].seen \cup a.ops)
    BY <1>1 DEF PullInv, Pulled, a
  <2> QED
    BY <1>1, <1>2, <2>1 DEF PullInv, Pulled
<1> QED
  BY <1>6, <1>7, <1>8, <1>9 DEF PullInv

LEMMA BeginPull ==
  ASSUME IInv, PullInv, NEW r \in sent, Begin(r)
  PROVE  PullInv'
<1> DEFINE d == r.dev
<1>1. /\ sent' = sent \ {r} /\ tx = NoTx /\ UNCHANGED <<db, epoch, backup, dev, prunes>>
      /\ r.live \in BOOLEAN /\ d \in Device /\ r.epoch \in Nat
  BY Types DEF Begin
<1>2. r.live => /\ Belongs(r)
                /\ \A s \in sent' : s.live => s.dev # d
  BY <1>1 DEF PullInv, Alone
<1>3. \A s \in sent : s.dev \in Device
  BY Types
<1>4. CASE ~Known(r) /\ Rewound(r) /\ UNCHANGED tx
  <2> DEFINE a == [ops |-> {}, cursor |-> 0, epoch |-> epoch, accepted |-> db.acked[r.dev]]
  <2>1. answer' = IF r.live THEN [answer EXCEPT ![d] = a] ELSE answer
    BY <1>4 DEF Rewound, Reply
  <2>2. a.epoch = epoch /\ a.cursor = 0
    OBVIOUS
  <2> HIDE DEF a
  <2>3. /\ \A e \in Device : answer'[e] = answer[e] \/ (r.live /\ e = d /\ answer'[e] = a)
        /\ \A e \in Device : e # d => answer'[e] = answer[e]
    BY <1>1, <2>1, Types
  <2>4. Alone'
    <3>1. ASSUME NEW s \in sent', s.live
          PROVE  Belongs(s)' /\ \A t \in sent' : t.live /\ t.dev = s.dev => t = s
      BY <1>1, <1>2, <1>3, <2>3, <3>1 DEF PullInv, Alone, Belongs
    <3>2. \A e \in Device : answer'[e] # NoAnswer => dev'[e].waiting
      BY <1>1, <1>2, <2>3 DEF PullInv, Alone, Belongs
    <3> QED
      BY <1>1, <1>4, <3>1, <3>2 DEF Alone
  <2>5. Epochs'
    <3>1. epoch \in 1..epoch
      BY Types DEF PullInv, Epochs
    <3> QED
      BY <1>1, <1>4, <2>2, <2>3, <3>1 DEF PullInv, Epochs
  <2>6. Growing'
    BY <1>1, <1>4 DEF Growing
  <2>7. Pulled'
    <3>1. \A seen : Covered(db.log, d, 0, seen)
      BY Types, LenProperties DEF Covered
    <3> QED
      BY <1>1, <2>2, <2>3, <3>1 DEF PullInv, Pulled
  <2> QED
    BY <2>4, <2>5, <2>6, <2>7 DEF PullInv
<1>5. CASE /\ UNCHANGED answer /\ Known(r)
           /\ \E n \in Start(r.dev) :
                tx' = [req |-> r, todo |-> DOMAIN r.ops,
                       rejected |-> {}, accepted |-> n, newest |-> 0,
                       log |-> db.log, mirror |-> db.mirror, inbox |-> db.inbox]
  <2>1. tx'.req = r /\ tx'.log = db.log /\ tx'.inbox = db.inbox
    BY <1>5
  <2>2. r.epoch \in {0, epoch}
    BY <1>5 DEF Known
  <2>3. Alone'
    <3>1. ASSUME NEW s \in sent', s.live
          PROVE  Belongs(s)' /\ \A t \in sent' : t.live /\ t.dev = s.dev => t = s
      BY <1>1, <1>3, <1>5, <3>1 DEF PullInv, Alone, Belongs
    <3>2. r.live => Belongs(r)' /\ \A s \in sent' : s.live => s.dev # d
      BY <1>1, <1>2, <1>5 DEF Belongs
    <3>3. \A e \in Device : answer'[e] # NoAnswer => dev'[e].waiting
      BY <1>1, <1>5 DEF PullInv, Alone
    <3> QED
      BY <2>1, <3>1, <3>2, <3>3 DEF Alone, Belongs
  <2>4. Epochs'
    BY <1>1, <1>5, <2>1, <2>2 DEF PullInv, Epochs
  <2>5. Growing'
    <3>1. Extends(db.log, db.log)
      BY Types, LenProperties DEF Extends
    <3> QED
      BY <1>1, <2>1, <3>1 DEF Growing
  <2>6. Pulled'
    BY <1>1, <1>5 DEF PullInv, Pulled
  <2> QED
    BY <2>3, <2>4, <2>5, <2>6 DEF PullInv
<1> QED
  BY <1>4, <1>5 DEF Begin

\* What one op makes of an exchange: it is settled and may be logged.
Takes(i) ==
  LET o == tx.req.ops[i] IN
  /\ tx # NoTx /\ UNCHANGED <<db, epoch, backup, dev, sent, answer, prunes>>
  /\ tx'.req = tx.req /\ tx'.todo = tx.todo \ {i} /\ tx'.accepted = tx.accepted
  /\ o \in Ops /\ o.site = tx.req.dev
  /\ tx'.log \in {tx.log, Append(tx.log, o)}
  /\ tx'.inbox \in {tx.inbox, tx.inbox \cup {<<o.site, o.seq>>}}
  /\ tx'.rejected \in {tx.rejected, tx.rejected \cup {o.seq}}
  /\ \/ tx'.log = Append(tx.log, o) \/ Logged(tx.log, o.site, o.seq)
     \/ tx'.inbox = tx.inbox \cup {<<o.site, o.seq>>}
     \/ o.kind \in {"badrow", "badvalue"}

LEMMA StageTakes ==
  ASSUME IInv, NEW i \in tx.todo, StageReader(i) \/ ApplyWriter(i)
  PROVE  Takes(i)
<1> DEFINE o == tx.req.ops[i]
<1>1. tx # NoTx /\ UNCHANGED <<db, epoch, backup, dev, sent, answer, prunes>>
  BY DEF StageReader, ApplyWriter, Turn
<1>2. o \in Ops /\ o.site = tx.req.dev
  BY <1>1, PastFacts
<1>3. tx \in Transaction
  BY <1>1, Types
<1>4. /\ Past(i).req = tx.req /\ Past(i).todo = tx.todo \ {i} /\ Past(i).accepted = tx.accepted
      /\ Past(i).log = tx.log /\ Past(i).inbox = tx.inbox /\ Past(i).rejected = tx.rejected
      /\ Past(i) \in Transaction
  BY <1>1, <1>3, PastFacts DEF Past, Transaction
<1>5. CASE StageReader(i)
  <2> DEFINE kept == [Past(i) EXCEPT !.inbox = @ \cup {<<o.site, o.seq>>}]
  <2>1. /\ kept.req = tx.req /\ kept.todo = tx.todo \ {i} /\ kept.accepted = tx.accepted
        /\ kept.log = tx.log /\ kept.inbox = tx.inbox \cup {<<o.site, o.seq>>}
        /\ kept.rejected = tx.rejected
        /\ [kept EXCEPT !.rejected = @ \cup {o.seq}] = [kept EXCEPT !.rejected = tx.rejected \cup {o.seq}]
        /\ [kept EXCEPT !.log = Append(@, o)] = [kept EXCEPT !.log = Append(tx.log, o)]
    BY <1>4 DEF Transaction
  <2>2. tx' \in {kept, [kept EXCEPT !.rejected = @ \cup {o.seq}], [kept EXCEPT !.log = Append(@, o)]}
    BY <1>5 DEF StageReader
  <2>3. kept = [Past(i) EXCEPT !.inbox = tx.inbox \cup {<<o.site, o.seq>>}]
    BY <1>4
  <2> HIDE DEF o
  <2>4. CASE tx' = kept
    BY <1>1, <1>2, <2>1, <2>4 DEF Takes, o
  <2>5. CASE tx' = [kept EXCEPT !.rejected = @ \cup {o.seq}]
    <3>1. /\ tx'.req = kept.req /\ tx'.todo = kept.todo /\ tx'.accepted = kept.accepted
          /\ tx'.log = kept.log /\ tx'.inbox = kept.inbox /\ tx'.rejected = tx.rejected \cup {o.seq}
      BY <1>4, <2>5 DEF Transaction
    <3> QED
      BY <1>1, <1>2, <2>1, <3>1 DEF Takes, o
  <2>6. CASE tx' = [kept EXCEPT !.log = Append(@, o)]
    <3>1. /\ tx'.req = kept.req /\ tx'.todo = kept.todo /\ tx'.accepted = kept.accepted
          /\ tx'.log = Append(tx.log, o) /\ tx'.inbox = kept.inbox /\ tx'.rejected = kept.rejected
      BY <1>4, <2>6 DEF Transaction
    <3> QED
      BY <1>1, <1>2, <2>1, <3>1 DEF Takes, o
  <2> QED
    BY <2>2, <2>4, <2>5, <2>6
<1>6. CASE ApplyWriter(i)
  <2> DEFINE merged == [tx.mirror EXCEPT ![o.key] = IF Wins(o, @) THEN o ELSE @]
  <2>1. \/ Refused(o) /\ tx' = [Past(i) EXCEPT !.rejected = @ \cup {o.seq}]
        \/ Duplicate(o) /\ tx' = Past(i)
        \/ tx' = [Past(i) EXCEPT !.log = Append(@, o), !.mirror[o.key] = IF Wins(o, @) THEN o ELSE @]
    BY <1>6 DEF ApplyWriter
  <2> HIDE DEF o
  <2>2. CASE Refused(o) /\ tx' = [Past(i) EXCEPT !.rejected = @ \cup {o.seq}]
    <3>1. /\ tx'.req = tx.req /\ tx'.todo = tx.todo \ {i} /\ tx'.accepted = tx.accepted
          /\ tx'.log = tx.log /\ tx'.inbox = tx.inbox /\ tx'.rejected = tx.rejected \cup {o.seq}
      BY <1>4, <2>2 DEF Transaction
    <3>2. o.kind \in {"badrow", "badvalue"}
      BY <2>2 DEF Refused
    <3> QED
      BY <1>1, <1>2, <3>1, <3>2 DEF Takes, o
  <2>3. CASE Duplicate(o) /\ tx' = Past(i)
    BY <1>1, <1>2, <1>4, <2>3 DEF Takes, Duplicate, o
  <2>4. CASE tx' = [Past(i) EXCEPT !.log = Append(@, o), !.mirror[o.key] = IF Wins(o, @) THEN o ELSE @]
    <3>1. /\ tx'.req = tx.req /\ tx'.todo = tx.todo \ {i} /\ tx'.accepted = tx.accepted
          /\ tx'.log = Append(tx.log, o) /\ tx'.inbox = tx.inbox /\ tx'.rejected = tx.rejected
      BY <1>4, <2>4 DEF Transaction
    <3> QED
      BY <1>1, <1>2, <3>1 DEF Takes, o
  <2> QED
    BY <2>1, <2>2, <2>3, <2>4
<1> QED
  BY <1>5, <1>6

LEMMA TakesPull ==
  ASSUME IInv, PullInv, NEW i \in tx.todo, Takes(i)
  PROVE  PullInv'
<1>1. /\ tx # NoTx /\ tx'.req = tx.req /\ UNCHANGED <<db, epoch, backup, dev, sent, answer, prunes>>
      /\ tx.inbox \subseteq tx'.inbox
  BY DEF Takes
<1>2. Extends(db.log, tx'.log)
  <2>1. /\ Extends(db.log, tx.log) /\ db.log \in Seq(Ops) /\ tx.log \in Seq(Ops)
        /\ tx.req.ops[i] \in Ops
    BY <1>1, Types DEF PullInv, Growing, Takes
  <2>2. Append(tx.log, tx.req.ops[i]) \in Seq(Ops)
    BY <2>1, AppendFacts
  <2>3. Extends(tx.log, Append(tx.log, tx.req.ops[i]))
    BY <2>1, AppendExtends
  <2>4. Extends(db.log, Append(tx.log, tx.req.ops[i]))
    BY <2>1, <2>2, <2>3, ExtendsTransitive
  <2> QED
    BY <2>1, <2>4 DEF Takes
<1>3. Alone' /\ Epochs' /\ Pulled'
  BY <1>1 DEF PullInv, Alone, Epochs, Pulled, Belongs
<1>4. Growing'
  BY <1>1, <1>2 DEF PullInv, Growing
<1> QED
  BY <1>3, <1>4 DEF PullInv

LEMMA WalkPull == IInv /\ PullInv /\ Walk => PullInv'
<1> SUFFICES ASSUME IInv, PullInv, Walk PROVE PullInv'
  OBVIOUS
<1>1. /\ tx # NoTx /\ UNCHANGED <<db, epoch, backup, dev, sent, answer, prunes>>
      /\ tx'.req = tx.req /\ tx'.log = tx.log /\ tx'.inbox = tx.inbox
  BY Types DEF Walk, Transaction
<1> QED
  BY <1>1 DEF PullInv, Alone, Epochs, Growing, Pulled, Belongs

LEMMA CommitPull == IInv /\ PullInv /\ Commit => PullInv'
<1> SUFFICES ASSUME IInv, PullInv, Commit PROVE PullInv'
  OBVIOUS
<1> DEFINE r == tx.req
           d == r.dev
           page == Page(tx.log, d, r.cursor)
<1>1. /\ tx # NoTx /\ tx' = NoTx /\ UNCHANGED <<epoch, backup, dev, sent, prunes>>
      /\ db'.log = tx.log
  BY Types DEF Commit, Database
<1>2. /\ tx.log \in Seq(Ops) /\ db.log \in Seq(Ops) /\ d \in Device /\ r.cursor \in Nat
      /\ r.live \in BOOLEAN /\ epoch \in Nat
  BY <1>1, Types
<1>3. PICK c \in Top({r.cursor} \cup page) :
        Reply(r, [ops |-> {tx.log[i] : i \in page}, cursor |-> c, epoch |-> epoch, accepted |-> tx.accepted])
  BY DEF Commit
<1> DEFINE a == [ops |-> {tx.log[i] : i \in page}, cursor |-> c, epoch |-> epoch, accepted |-> tx.accepted]
<1>4. a.ops = {tx.log[i] : i \in page} /\ a.cursor = c /\ a.epoch = epoch
  OBVIOUS
<1>5. answer' = IF r.live THEN [answer EXCEPT ![d] = a] ELSE answer
  BY <1>3 DEF Reply
<1> HIDE DEF a
<1>6. /\ \A e \in Device : answer'[e] = answer[e] \/ (r.live /\ e = d /\ answer'[e] = a)
      /\ \A e \in Device : e # d => answer'[e] = answer[e]
  BY <1>2, <1>5, Types
<1>7. r.live => /\ Belongs(r)
                /\ \A s \in sent : s.live => s.dev # d
  BY <1>1 DEF PullInv, Alone
<1>8. Extends(db.log, tx.log) /\ r.epoch \in {0, epoch} /\ epoch # 0
  BY <1>1 DEF PullInv, Growing, Epochs
<1>9. r.live => Covered(tx.log, d, c, dev[d].seen \cup a.ops)
  <2> SUFFICES ASSUME r.live PROVE Covered(tx.log, d, c, dev[d].seen \cup a.ops)
    OBVIOUS
  <2>1. r.cursor = dev[d].cursor /\ r.epoch = dev[d].epoch
    BY <1>7 DEF Belongs
  <2>2. Covered(tx.log, d, r.cursor, dev[d].seen)
    <3>1. CASE r.epoch = epoch
      <4>1. Covered(db.log, d, r.cursor, dev[d].seen)
        BY <1>2, <2>1, <3>1 DEF PullInv, Pulled
      <4> QED
        BY <1>2, <1>8, <4>1, CoveredExtends
    <3>2. CASE r.epoch = 0
      <4>1. r.cursor = 0
        BY <1>2, <2>1, <3>2 DEF PullInv, Epochs
      <4> QED
        BY <1>2, <4>1, LenProperties DEF Covered
    <3> QED
      BY <1>8, <3>1, <3>2
  <2> QED
    BY <1>2, <1>3, <1>4, <2>2, PageCovers
<1>10. Alone'
  <2>1. ASSUME NEW s \in sent', s.live
        PROVE  Belongs(s)' /\ \A t \in sent' : t.live /\ t.dev = s.dev => t = s
    BY <1>1, <1>6, <1>7, <2>1, Types DEF PullInv, Alone, Belongs
  <2>2. \A e \in Device : answer'[e] # NoAnswer => dev'[e].waiting
    BY <1>1, <1>6, <1>7 DEF PullInv, Alone, Belongs
  <2> QED
    BY <1>1, <2>1, <2>2 DEF Alone
<1>11. Epochs'
  <2>1. epoch \in 1..epoch
    BY <1>2, <1>8
  <2> QED
    BY <1>1, <1>4, <1>6, <2>1 DEF PullInv, Epochs
<1>12. Growing'
  BY <1>1 DEF Growing
<1>13. Pulled'
  <2> SUFFICES ASSUME NEW e \in Device
               PROVE  /\ dev[e].epoch = epoch => Covered(tx.log, e, dev[e].cursor, dev[e].seen)
                      /\ answer'[e] # NoAnswer /\ answer'[e].epoch = epoch =>
                           Covered(tx.log, e, answer'[e].cursor, dev[e].seen \cup answer'[e].ops)
    BY <1>1 DEF Pulled
  <2>1. dev[e].epoch = epoch => Covered(tx.log, e, dev[e].cursor, dev[e].seen)
    <3> SUFFICES ASSUME dev[e].epoch = epoch PROVE Covered(tx.log, e, dev[e].cursor, dev[e].seen)
      OBVIOUS
    <3>1. Covered(db.log, e, dev[e].cursor, dev[e].seen)
      BY DEF PullInv, Pulled
    <3>2. dev[e].cursor \in Nat
      BY Types
    <3> QED
      BY <1>2, <1>8, <3>1, <3>2, CoveredExtends
  <2>2. answer[e] # NoAnswer /\ answer[e].epoch = epoch =>
          Covered(tx.log, e, answer[e].cursor, dev[e].seen \cup answer[e].ops)
    <3> SUFFICES ASSUME answer[e] # NoAnswer, answer[e].epoch = epoch
                 PROVE  Covered(tx.log, e, answer[e].cursor, dev[e].seen \cup answer[e].ops)
      OBVIOUS
    <3>1. Covered(db.log, e, answer[e].cursor, dev[e].seen \cup answer[e].ops)
      BY DEF PullInv, Pulled
    <3>2. answer[e].cursor \in Nat
      BY Types
    <3> QED
      BY <1>2, <1>8, <3>1, <3>2, CoveredExtends
  <2> QED
    BY <1>4, <1>6, <1>9, <2>1, <2>2
<1> QED
  BY <1>10, <1>11, <1>12, <1>13 DEF PullInv

LEMMA FailPull == IInv /\ PullInv /\ Fail => PullInv'
<1> SUFFICES ASSUME IInv, PullInv, Fail PROVE PullInv'
  OBVIOUS
<1> DEFINE d == tx.req.dev
<1>1. /\ tx # NoTx /\ tx' = NoTx /\ UNCHANGED <<db, epoch, backup, sent, answer, prunes>>
      /\ dev' = IF tx.req.live THEN [dev EXCEPT ![d].waiting = FALSE] ELSE dev
  BY DEF Fail
<1>2. d \in Device /\ \A s \in sent : s.dev \in Device
  BY <1>1, Types
<1>3. /\ \A e \in Device : /\ dev'[e].cursor = dev[e].cursor /\ dev'[e].epoch = dev[e].epoch
                           /\ dev'[e].from = dev[e].from /\ dev'[e].seen = dev[e].seen
                           /\ e # d => dev'[e].waiting = dev[e].waiting
      /\ ~tx.req.live => dev' = dev
  BY <1>1, Types DEF Tablet
<1>4. tx.req.live => answer[d] = NoAnswer /\ \A s \in sent : s.live => s.dev # d
  BY <1>1 DEF PullInv, Alone, Belongs
<1> HIDE DEF d
<1>5. Alone'
  <2>1. ASSUME NEW s \in sent', s.live
        PROVE  Belongs(s)' /\ \A t \in sent' : t.live /\ t.dev = s.dev => t = s
    BY <1>1, <1>2, <1>3, <1>4, <2>1 DEF PullInv, Alone, Belongs
  <2>2. \A e \in Device : answer'[e] # NoAnswer => dev'[e].waiting
    BY <1>1, <1>3, <1>4 DEF PullInv, Alone
  <2> QED
    BY <1>1, <2>1, <2>2 DEF Alone
<1>6. Epochs'
  BY <1>1, <1>3 DEF PullInv, Epochs
<1>7. Growing' /\ Pulled'
  BY <1>1, <1>3 DEF PullInv, Growing, Pulled
<1> QED
  BY <1>5, <1>6, <1>7 DEF PullInv

\* What leaves devices, requests and answers alone, and only appends to the log.
LEMMA AppendsPull ==
  ASSUME IInv, PullInv, UNCHANGED <<epoch, dev, sent, answer, tx>>,
         db'.log \in Seq(Ops), Extends(db.log, db'.log),
         tx = NoTx \/ (db'.log = db.log /\ db'.inbox = db.inbox)
  PROVE  PullInv'
<1>1. Alone'
  BY DEF PullInv, Alone, Belongs
<1>2. Epochs'
  BY DEF PullInv, Epochs
<1>3. Growing'
  BY DEF PullInv, Growing
<1>4. Pulled'
  <2> SUFFICES ASSUME NEW e \in Device
               PROVE  /\ dev[e].epoch = epoch => Covered(db'.log, e, dev[e].cursor, dev[e].seen)
                      /\ answer[e] # NoAnswer /\ answer[e].epoch = epoch =>
                           Covered(db'.log, e, answer[e].cursor, dev[e].seen \cup answer[e].ops)
    BY DEF Pulled
  <2>1. db.log \in Seq(Ops) /\ dev[e].cursor \in Nat
    BY Types
  <2>2. ASSUME dev[e].epoch = epoch PROVE Covered(db'.log, e, dev[e].cursor, dev[e].seen)
    <3>1. Covered(db.log, e, dev[e].cursor, dev[e].seen)
      BY <2>2 DEF PullInv, Pulled
    <3> QED
      BY <2>1, <3>1, CoveredExtends
  <2>3. ASSUME answer[e] # NoAnswer, answer[e].epoch = epoch
        PROVE  Covered(db'.log, e, answer[e].cursor, dev[e].seen \cup answer[e].ops)
    <3>1. Covered(db.log, e, answer[e].cursor, dev[e].seen \cup answer[e].ops)
      BY <2>3 DEF PullInv, Pulled
    <3>2. answer[e].cursor \in Nat
      BY <2>3, Types
    <3> QED
      BY <2>1, <3>1, <3>2, CoveredExtends
  <2> QED
    BY <2>2, <2>3
<1> QED
  BY <1>1, <1>2, <1>3, <1>4 DEF PullInv

LEMMA AuthorOpsPull == IInv /\ PullInv /\ AuthorOps => PullInv'
<1> SUFFICES ASSUME IInv, PullInv, AuthorOps PROVE PullInv'
  OBVIOUS
<1>1. tx = NoTx /\ UNCHANGED <<epoch, dev, sent, answer, tx>>
  BY DEF AuthorOps
<1>2. db'.log \in Seq(Ops) /\ Extends(db.log, db'.log)
  <2>1. db.log \in Seq(Ops) /\ db \in Database /\ db.authored \in Nat /\ db.hlc \in Nat
    BY Types DEF Database
  <2>2. PICK k \in Key, t \in (db.hlc + 1)..MaxTs :
          LET o == [site |-> Server, seq |-> db.authored + 1, ts |-> t, key |-> k, kind |-> "row"]
          IN db' = [db EXCEPT !.log = Append(@, o), !.authored = o.seq, !.hlc = t,
                              !.mirror[k] = IF Wins(o, @) THEN o ELSE @]
    BY DEF AuthorOps
  <2> DEFINE o == [site |-> Server, seq |-> db.authored + 1, ts |-> t, key |-> k, kind |-> "row"]
  <2>3. t \in Nat
    BY <2>1, RelayAssumption DEF RelayAssumption
  <2>4. o \in Ops
    BY <2>1, <2>3 DEF Ops, Site, Kinds
  <2>5. db'.log = Append(db.log, o)
    BY <2>1, <2>2 DEF Database
  <2> HIDE DEF o
  <2> QED
    BY <2>1, <2>4, <2>5, AppendFacts, AppendExtends
<1> QED
  BY <1>1, <1>2, AppendsPull

LEMMA PruneDevicePull ==
  ASSUME IInv, PullInv, NEW d \in Device, PruneDevice(d)
  PROVE  PullInv'
<1>1. /\ UNCHANGED <<epoch, dev, sent, answer, tx>>
      /\ db' = [db EXCEPT !.cursors = @ \ {d}, !.acked[d] = 0]
  BY DEF PruneDevice
<1>2. db'.log = db.log /\ db'.inbox = db.inbox /\ db.log \in Seq(Ops)
  BY <1>1, Types DEF Database
<1>3. Extends(db.log, db'.log)
  BY <1>2, LenProperties DEF Extends
<1> QED
  BY <1>1, <1>2, <1>3, AppendsPull

LEMMA BackupPull == IInv /\ PullInv /\ Backup => PullInv'
BY DEF Backup, PullInv, Alone, Epochs, Growing, Pulled, Belongs

\* Nobody is in the new epoch yet.
LEMMA RestorePull == IInv /\ PullInv /\ Restore => PullInv'
<1> SUFFICES ASSUME IInv, PullInv, Restore PROVE PullInv'
  OBVIOUS
<1>1. /\ tx = NoTx /\ epoch' = epoch + 1 /\ epoch \in Nat
      /\ UNCHANGED <<backup, tx, dev, sent, answer, prunes>>
  BY Types DEF Restore, NewEpoch
<1>2. /\ \A d \in Device : dev[d].epoch \in Nat /\ (answer[d] # NoAnswer => answer[d].epoch \in Nat)
      /\ \A r \in sent : r.epoch \in Nat
  BY Types
<1>3. Alone'
  BY <1>1 DEF PullInv, Alone, Belongs
<1>4. Epochs'
  BY <1>1, <1>2 DEF PullInv, Epochs
<1>5. Growing' /\ Pulled'
  BY <1>1, <1>2 DEF PullInv, Epochs, Growing, Pulled
<1> QED
  BY <1>3, <1>4, <1>5 DEF PullInv

LEMMA NextPull == IInv /\ PullInv /\ [Next]_vars => PullInv'
<1> SUFFICES ASSUME IInv, PullInv, [Next]_vars PROVE PullInv'
  OBVIOUS
<1>1. ASSUME NEW d \in Device, Author(d) \/ Send(d) \/ Receive(d) \/ PruneDevice(d) \/ GiveUp(d)
      PROVE  PullInv'
  BY <1>1, AuthorPull, SendPull, ReceivePull, PruneDevicePull, GiveUpPull
<1>2. ASSUME NEW d \in Device, Exchange(d) PROVE PullInv'
  <2>1. ASSUME NEW r \in sent, Begin(r) PROVE PullInv'
    BY <2>1, BeginPull
  <2>2. ASSUME NEW i \in tx.todo, StageReader(i) \/ ApplyWriter(i) PROVE PullInv'
    BY <2>2, StageTakes, TakesPull
  <2> QED
    BY <1>2, <2>1, <2>2, WalkPull, CommitPull DEF Exchange
<1>3. CASE UNCHANGED vars
  BY <1>3 DEF vars, PullInv, Alone, Epochs, Growing, Pulled, Belongs
<1> QED
  BY <1>1, <1>2, <1>3, AuthorOpsPull, BackupPull, RestorePull, FailPull
  DEF Next, Steady, Trouble

\* The two invariants together: each holds initially and every step keeps both.
THEOREM InductivePull == Spec => [](IInv /\ PullInv)
<1>1. IInv /\ PullInv /\ [Next]_vars => (IInv /\ PullInv)'
  BY NextInv, NextPull
<1> QED
  BY <1>1, InitInv, InitPull, PTL DEF Spec

\* A cursor never passes an op its device has not pulled.
THEOREM PulledAll == Spec => []PulledComplete
<1>1. IInv /\ PullInv => PulledComplete
  <2> SUFFICES ASSUME IInv, PullInv, NEW d \in Device, dev[d].epoch = epoch, NEW i \in DOMAIN db.log,
                      i <= dev[d].cursor, db.log[i].site # d
               PROVE  db.log[i] \in dev[d].seen
    BY DEF PulledComplete
  <2>1. Covered(db.log, d, dev[d].cursor, dev[d].seen)
    BY DEF PullInv, Pulled
  <2>2. db.log \in Seq(Ops) /\ dev[d].cursor \in Nat
    BY Types
  <2>3. i \in 1..dev[d].cursor
    BY <2>2, LenProperties
  <2> QED
    BY <2>1, <2>3 DEF Covered
<1> QED
  BY <1>1, InductivePull, PTL
=============================================================================
