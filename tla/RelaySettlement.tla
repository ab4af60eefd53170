-------------------------- MODULE RelaySettlement ---------------------------
(***************************************************************************)
(* What a device was told is accepted is kept, for any devices, ops, losses,*)
(* late requests, cleared positions and restores.                           *)
(*                                                                          *)
(* A store s is anything with a log and an inbox: the database, its backup  *)
(* or what an exchange sees.  w is what the devices wrote.                  *)
(***************************************************************************)
EXTENDS RelayProofs

Wrote == [d \in Device |-> dev[d].hist]

Kept(s, o) ==
  \/ Logged(s.log, o.site, o.seq) \/ <<o.site, o.seq>> \in s.inbox
  \/ o.kind \in {"badrow", "badvalue"}

Grows(s, t) == Entries(s.log) \subseteq Entries(t.log) /\ s.inbox \subseteq t.inbox

\* The first n ops of d are kept.
Through(w, s, d, n) == n <= Len(w[d]) /\ \A m \in 1..n : Kept(s, w[d][m])

Numbered(w) == \A d \in Device : \A i \in DOMAIN w[d] : w[d][i].site = d /\ w[d][i].seq = i

Own(w, o) == o.site \in Device => o.seq \in DOMAIN w[o.site] /\ w[o.site][o.seq] = o

\* A store has nothing of a device that the device did not write.
Genuine(w, s) ==
  /\ \A o \in Entries(s.log) : Own(w, o)
  /\ \A d \in Device, n \in Nat : <<d, n>> \in s.inbox => n \in DOMAIN w[d]

\* An op is logged, and acknowledged, after all that its device wrote before it.
Complete(w, s) ==
  /\ \A o \in Entries(s.log) : o.site \in Device => Through(w, s, o.site, o.seq)
  /\ \A d \in Device : Through(w, s, d, s.acked[d])

Owned(w, r) == \A o \in Entries(r.ops) : Own(w, o)

\* A request leaves out only what is kept; one of no epoch leaves out nothing.
Reach(w, s, r) ==
  \A o \in Entries(r.ops) : \A m \in 1..o.seq :
    w[r.dev][m] \in Entries(r.ops) \/ (r.epoch # 0 /\ Kept(s, w[r.dev][m]))

Ready(w, s, e, r) == Owned(w, r) /\ (r.epoch \in {0, e} => Reach(w, s, r))

\* Exchange t, begun on store s, accepts what it keeps.
Settles(w, s, t) ==
  /\ Owned(w, t.req) /\ Reach(w, s, t.req)
  /\ Genuine(w, t) /\ Entries(t.log) \subseteq Entries(s.log) \cup Entries(t.req.ops)
  /\ \A i \in DOMAIN t.req.ops \ t.todo : Kept(t, t.req.ops[i])
  /\ \A n \in t.rejected : n \in DOMAIN w[t.req.dev] /\ Kept(t, w[t.req.dev][n])
  /\ Through(w, t, t.req.dev, t.accepted)

Stored ==
  /\ Numbered(Wrote)
  /\ Genuine(Wrote, db) /\ Complete(Wrote, db)
  /\ Genuine(Wrote, backup) /\ Complete(Wrote, backup)

Requested == \A r \in sent : Ready(Wrote, db, epoch, r)

Exchanging == tx # NoTx => Settles(Wrote, db, tx)

Acknowledged ==
  \A d \in Device :
    /\ dev[d].epoch = epoch => Through(Wrote, db, d, dev[d].from)
    /\ answer[d] # NoAnswer /\ answer[d].epoch = epoch => Through(Wrote, db, d, answer[d].accepted)

HeldInv == Stored /\ Requested /\ Exchanging /\ Acknowledged

-----------------------------------------------------------------------------
(* Stores and histories grow.                                               *)

LEMMA WroteFacts ==
  ASSUME IInv
  PROVE  Wrote \in [Device -> Seq(Ops)] /\ \A d \in Device : Wrote[d] = dev[d].hist
BY Types DEF Wrote

LEMMA SeqFacts ==
  ASSUME NEW s \in Seq(Ops)
  PROVE  Len(s) \in Nat /\ DOMAIN s = 1..Len(s) /\ \A o \in Entries(s) : o \in Ops /\ o.seq \in Nat /\ o.seq > 0
<1>1. Len(s) \in Nat /\ DOMAIN s = 1..Len(s)
  BY LenProperties
<1>2. \A o \in Entries(s) : o \in Ops
  BY <1>1, ElementOfSeq DEF Entries
<1> QED
  BY <1>1, <1>2, OpFacts

LEMMA KeptGrows ==
  ASSUME NEW s, NEW t, Grows(s, t), NEW o, Kept(s, o)
  PROVE  Kept(t, o)
BY DEF Grows, Kept, Logged

LEMMA ThroughGrows ==
  ASSUME NEW w, NEW s, NEW t, Grows(s, t), NEW d, NEW n, Through(w, s, d, n)
  PROVE  Through(w, t, d, n)
BY KeptGrows DEF Through

LEMMA ReadyGrows ==
  ASSUME NEW w, NEW s, NEW t, Grows(s, t), NEW e, NEW r, Ready(w, s, e, r)
  PROVE  Ready(w, t, e, r)
BY KeptGrows DEF Ready, Reach

LEMMA EntriesExtend ==
  ASSUME NEW old \in Seq(Ops), NEW new \in Seq(Ops), Extends(old, new)
  PROVE  Entries(old) \subseteq Entries(new)
<1>1. /\ Len(old) \in Nat /\ DOMAIN old = 1..Len(old)
      /\ Len(new) \in Nat /\ DOMAIN new = 1..Len(new)
  BY SeqFacts
<1> QED
  BY <1>1 DEF Entries, Extends

\* Devices write more.
Longer(w, v) == \A d \in Device : Extends(w[d], v[d])

LEMMA OwnLonger ==
  ASSUME NEW w \in [Device -> Seq(Ops)], NEW v \in [Device -> Seq(Ops)], Longer(w, v), NEW o, Own(w, o)
  PROVE  Own(v, o)
<1> SUFFICES ASSUME o.site \in Device
             PROVE  o.seq \in DOMAIN v[o.site] /\ v[o.site][o.seq] = o
  BY DEF Own
<1>1. w[o.site] \in Seq(Ops) /\ v[o.site] \in Seq(Ops)
  OBVIOUS
<1>2. /\ Len(w[o.site]) \in Nat /\ DOMAIN w[o.site] = 1..Len(w[o.site])
      /\ Len(v[o.site]) \in Nat /\ DOMAIN v[o.site] = 1..Len(v[o.site])
  BY <1>1, SeqFacts
<1> QED
  BY <1>2 DEF Own, Longer, Extends

LEMMA ThroughLonger ==
  ASSUME NEW w \in [Device -> Seq(Ops)], NEW v \in [Device -> Seq(Ops)], Longer(w, v),
         NEW s, NEW d \in Device, NEW n \in Nat, Through(w, s, d, n)
  PROVE  Through(v, s, d, n)
<1>1. w[d] \in Seq(Ops) /\ v[d] \in Seq(Ops)
  OBVIOUS
<1>2. Len(w[d]) \in Nat /\ Len(v[d]) \in Nat
  BY <1>1, SeqFacts
<1> QED
  BY <1>2 DEF Through, Longer, Extends

LEMMA GenuineLonger ==
  ASSUME NEW w \in [Device -> Seq(Ops)], NEW v \in [Device -> Seq(Ops)], Longer(w, v),
         NEW s, Genuine(w, s)
  PROVE  Genuine(v, s)
<1>1. \A d \in Device : DOMAIN w[d] \subseteq DOMAIN v[d]
  <2> SUFFICES ASSUME NEW d \in Device PROVE DOMAIN w[d] \subseteq DOMAIN v[d]
    OBVIOUS
  <2>1. w[d] \in Seq(Ops) /\ v[d] \in Seq(Ops)
    OBVIOUS
  <2>2. /\ Len(w[d]) \in Nat /\ DOMAIN w[d] = 1..Len(w[d])
        /\ Len(v[d]) \in Nat /\ DOMAIN v[d] = 1..Len(v[d])
    BY <2>1, SeqFacts
  <2> QED
    BY <2>2 DEF Longer, Extends
<1> QED
  BY <1>1, OwnLonger DEF Genuine

LEMMA CompleteLonger ==
  ASSUME NEW w \in [Device -> Seq(Ops)], NEW v \in [Device -> Seq(Ops)], Longer(w, v),
         NEW s, s.log \in Seq(Ops), s.acked \in [Device -> Nat], Complete(w, s)
  PROVE  Complete(v, s)
<1>1. \A o \in Entries(s.log) : o.seq \in Nat
  BY SeqFacts
<1>2. \A d \in Device : s.acked[d] \in Nat
  OBVIOUS
<1> QED
  BY <1>1, <1>2, ThroughLonger DEF Complete

LEMMA ReadyLonger ==
  ASSUME NEW w \in [Device -> Seq(Ops)], NEW v \in [Device -> Seq(Ops)], Longer(w, v),
         NEW s, NEW e, NEW r, r.dev \in Device, r.ops \in Seq(Ops),
         \A o \in Entries(r.ops) : o.site = r.dev,
         Owned(w, r)
  PROVE  Owned(v, r) /\ (Reach(w, s, r) => Reach(v, s, r))
<1>1. Owned(v, r)
  BY OwnLonger DEF Owned
<1>2. w[r.dev] \in Seq(Ops)
  OBVIOUS
<1>3. Len(w[r.dev]) \in Nat /\ DOMAIN w[r.dev] = 1..Len(w[r.dev])
  BY <1>2, SeqFacts
<1>4. \A o \in Entries(r.ops) : o.seq \in Nat /\ o.seq <= Len(w[r.dev])
  <2>1. \A o \in Entries(r.ops) : o.seq \in Nat
    BY SeqFacts
  <2>2. \A o \in Entries(r.ops) : o.seq \in DOMAIN w[r.dev]
    BY DEF Owned, Own
  <2> QED
    BY <1>3, <2>1, <2>2
<1>5. \A o \in Entries(r.ops) : \A m \in 1..o.seq : v[r.dev][m] = w[r.dev][m]
  BY <1>3, <1>4 DEF Longer, Extends
<1> QED
  BY <1>1, <1>5 DEF Reach

LEMMA SettlesLonger ==
  ASSUME NEW w \in [Device -> Seq(Ops)], NEW v \in [Device -> Seq(Ops)], Longer(w, v),
         NEW s, NEW t, t.req.dev \in Device, t.req.ops \in Seq(Ops), t.accepted \in Nat,
         \A o \in Entries(t.req.ops) : o.site = t.req.dev,
         Settles(w, s, t)
  PROVE  Settles(v, s, t)
<1>1. Owned(v, t.req) /\ Reach(v, s, t.req)
  BY ReadyLonger DEF Settles
<1>2. Genuine(v, t)
  BY GenuineLonger DEF Settles
<1>3. Through(v, t, t.req.dev, t.accepted)
  BY ThroughLonger DEF Settles
<1>4. \A n \in t.rejected : n \in DOMAIN v[t.req.dev] /\ Kept(t, v[t.req.dev][n])
  <2>1. w[t.req.dev] \in Seq(Ops) /\ v[t.req.dev] \in Seq(Ops)
    OBVIOUS
  <2>2. /\ Len(w[t.req.dev]) \in Nat /\ DOMAIN w[t.req.dev] = 1..Len(w[t.req.dev])
        /\ Len(v[t.req.dev]) \in Nat /\ DOMAIN v[t.req.dev] = 1..Len(v[t.req.dev])
    BY <2>1, SeqFacts
  <2>3. /\ Len(w[t.req.dev]) <= Len(v[t.req.dev])
        /\ \A i \in 1..Len(w[t.req.dev]) : v[t.req.dev][i] = w[t.req.dev][i]
    BY DEF Longer, Extends
  <2>4. \A n \in t.rejected : n \in DOMAIN w[t.req.dev] /\ Kept(t, w[t.req.dev][n])
    BY DEF Settles
  <2> HIDE DEF Kept
  <2> QED
    BY <2>2, <2>3, <2>4
<1> QED
  BY <1>1, <1>2, <1>3, <1>4 DEF Settles

-----------------------------------------------------------------------------
(* Every action keeps HeldInv.                                              *)

LEMMA InitHeld == Init => HeldInv
<1> SUFFICES ASSUME Init PROVE HeldInv
  OBVIOUS
<1>1. /\ sent = {} /\ tx = NoTx /\ epoch = 1 /\ db = Empty /\ backup = Empty
      /\ \A d \in Device : answer[d] = NoAnswer /\ dev[d].hist = <<>> /\ dev[d].epoch = 0
  BY DEF Init, NewDevice
<1>2. \A d \in Device : Wrote[d] = <<>>
  BY <1>1 DEF Wrote
<1>3. Empty.log = <<>> /\ Empty.inbox = {} /\ \A d \in Device : Empty.acked[d] = 0
  BY DEF Empty
<1>4. Numbered(Wrote) /\ Genuine(Wrote, Empty)
  BY <1>2, <1>3 DEF Numbered, Genuine, Entries
<1>5. Complete(Wrote, Empty)
  BY <1>2, <1>3 DEF Complete, Entries, Through
<1> QED
  BY <1>1, <1>4, <1>5 DEF HeldInv, Stored, Requested, Exchanging, Acknowledged

LEMMA AuthorHeld ==
  ASSUME IInv, HeldInv, NEW d \in Device, Author(d)
  PROVE  HeldInv'
<1>1. UNCHANGED <<db, epoch, backup, tx, sent, answer, prunes>>
  BY DEF Author
<1>2. PICK k \in Key, kind \in Offered, t \in 1..MaxTs :
        dev' = [dev EXCEPT ![d].hist =
          Append(@, [site |-> d, seq |-> Len(@) + 1, ts |-> t, key |-> k, kind |-> kind])]
  BY DEF Author
<1> DEFINE h == dev[d].hist
           o == [site |-> d, seq |-> Len(h) + 1, ts |-> t, key |-> k, kind |-> kind]
<1>3. h \in Seq(Ops) /\ Len(h) \in Nat /\ DOMAIN h = 1..Len(h)
  BY Types, LenProperties
<1>4. o \in Ops
  <2>1. t \in Nat
    BY RelayAssumption DEF RelayAssumption
  <2>2. kind \in Kinds
    BY RelayAssumption DEF RelayAssumption
  <2> QED
    BY <1>3, <2>1, <2>2 DEF Ops, Site
<1>5. /\ dev'[d].hist = Append(h, o)
      /\ \A e \in Device : /\ e # d => dev'[e] = dev[e]
                           /\ dev'[e].from = dev[e].from /\ dev'[e].epoch = dev[e].epoch
  BY <1>2, Types DEF Tablet
<1>6. o.site = d /\ o.seq = Len(h) + 1
  OBVIOUS
<1> HIDE DEF o
<1> DEFINE w == Wrote
           v == Wrote'
<1>7. w \in [Device -> Seq(Ops)] /\ \A e \in Device : w[e] = dev[e].hist
  BY WroteFacts
<1>8. v[d] = Append(h, o) /\ \A e \in Device : e # d => v[e] = w[e]
  BY <1>5, <1>7 DEF Wrote
<1>9. Append(h, o) \in Seq(Ops) /\ Extends(h, Append(h, o)) /\ \A e \in Device : Extends(w[e], w[e])
  BY <1>3, <1>4, <1>7, AppendFacts, AppendExtends
<1>10. \A e \in Device : v[e] \in Seq(Ops)
  BY <1>7, <1>8, <1>9
<1>11. v \in [Device -> Seq(Ops)]
  BY <1>10 DEF Wrote
<1>12. Longer(w, v)
  BY <1>7, <1>8, <1>9 DEF Longer
<1>13. Numbered(v)
  <2> SUFFICES ASSUME NEW e \in Device, NEW i \in DOMAIN v[e]
               PROVE  v[e][i].site = e /\ v[e][i].seq = i
    BY DEF Numbered
  <2>1. CASE e = d /\ i = Len(h) + 1
    BY <1>3, <1>4, <1>6, <1>8, <2>1, AppendFacts
  <2>2. CASE e = d /\ i # Len(h) + 1
    <3>1. i \in DOMAIN h /\ v[e][i] = h[i]
      BY <1>3, <1>4, <1>8, <2>2, AppendFacts
    <3> QED
      BY <1>7, <2>2, <3>1 DEF HeldInv, Stored, Numbered
  <2>3. CASE e # d
    BY <1>7, <1>8, <2>3 DEF HeldInv, Stored, Numbered
  <2> QED
    BY <2>1, <2>2, <2>3
<1> HIDE DEF w, v
<1>14. Genuine(w, db) /\ Complete(w, db) /\ Genuine(w, backup) /\ Complete(w, backup)
  BY DEF HeldInv, Stored, w
<1>15. Genuine(v, db) /\ Complete(v, db) /\ Genuine(v, backup) /\ Complete(v, backup)
  <2>1. /\ db.log \in Seq(Ops) /\ db.acked \in [Device -> Nat]
        /\ backup.log \in Seq(Ops) /\ backup.acked \in [Device -> Nat]
    BY Types DEF Database
  <2> QED
    BY <1>7, <1>11, <1>12, <1>14, <2>1, GenuineLonger, CompleteLonger
<1>16. Stored'
  BY <1>1, <1>13, <1>15 DEF Stored, v
<1>17. Requested'
  <2> SUFFICES ASSUME NEW r \in sent PROVE Ready(v, db, epoch, r)
    BY <1>1 DEF Requested, v
  <2>1. r.dev \in Device /\ r.ops \in Seq(Ops) /\ \A e \in Entries(r.ops) : e.site = r.dev
    BY Types DEF IInv, FromDevices
  <2>2. Ready(w, db, epoch, r)
    BY DEF HeldInv, Requested, w
  <2> QED
    BY <1>7, <1>11, <1>12, <2>1, <2>2, ReadyLonger DEF Ready
<1>18. Exchanging'
  <2> SUFFICES ASSUME tx # NoTx PROVE Settles(v, db, tx)
    BY <1>1 DEF Exchanging, v
  <2>1. /\ tx.req.dev \in Device /\ tx.req.ops \in Seq(Ops) /\ tx.accepted \in Nat
        /\ \A e \in Entries(tx.req.ops) : e.site = tx.req.dev
    BY Types DEF IInv, FromDevices
  <2>2. Settles(w, db, tx)
    BY DEF HeldInv, Exchanging, w
  <2> QED
    BY <1>7, <1>11, <1>12, <2>1, <2>2, SettlesLonger
<1>19. Acknowledged'
  <2> SUFFICES ASSUME NEW e \in Device
               PROVE  /\ dev[e].epoch = epoch => Through(v, db, e, dev[e].from)
                      /\ answer[e] # NoAnswer /\ answer[e].epoch = epoch =>
                           Through(v, db, e, answer[e].accepted)
    BY <1>1, <1>5 DEF Acknowledged, v
  <2>1. dev[e].from \in Nat /\ (answer[e] # NoAnswer => answer[e].accepted \in Nat)
    BY Types
  <2>2. /\ dev[e].epoch = epoch => Through(w, db, e, dev[e].from)
        /\ answer[e] # NoAnswer /\ answer[e].epoch = epoch => Through(w, db, e, answer[e].accepted)
    BY DEF HeldInv, Acknowledged, w
  <2> QED
    BY <1>7, <1>11, <1>12, <2>1, <2>2, ThroughLonger
<1> QED
  BY <1>16, <1>17, <1>18, <1>19 DEF HeldInv

\* What a prefix of a history holds.
LEMMA OutboxFacts ==
  ASSUME NEW hist \in Seq(Ops), NEW from \in Nat, NEW to \in Nat, to <= Len(hist)
  PROVE  LET part == SubSeq(hist, from + 1, to)
         IN /\ \A m \in (from + 1)..to : hist[m] \in Entries(part)
            /\ \A o \in Entries(part) : \E m \in (from + 1)..to : o = hist[m]
<1> DEFINE part == SubSeq(hist, from + 1, to)
<1>1. Len(hist) \in Nat /\ DOMAIN hist = 1..Len(hist) /\ \A i \in 1..Len(hist) : hist[i] \in Ops
  BY LenProperties, ElementOfSeq
<1>2. \A i \in (from + 1)..to : i \in 1..Len(hist) /\ hist[i] \in Ops
  BY <1>1
<1>3. /\ part \in Seq(Ops)
      /\ Len(part) = IF from + 1 <= to THEN to - (from + 1) + 1 ELSE 0
      /\ \A i \in 1..(to - (from + 1) + 1) : part[i] = hist[(from + 1) + i - 1]
  BY <1>2, SubSeqProperties
<1>4. DOMAIN part = 1..Len(part)
  BY <1>3, LenProperties
<1> HIDE DEF part
<1>5. \A i \in DOMAIN part : part[i] = hist[from + i] /\ from + i \in (from + 1)..to
  BY <1>1, <1>3, <1>4
<1>6. \A m \in (from + 1)..to : m - from \in DOMAIN part /\ part[m - from] = hist[m]
  BY <1>1, <1>3, <1>4
<1> QED
  BY <1>5, <1>6 DEF Entries, part

LEMMA SendHeld ==
  ASSUME IInv, PullInv, HeldInv, NEW d \in Device, Send(d)
  PROVE  HeldInv'
<1> DEFINE r == [dev |-> d, ops |-> Outbox(d), cursor |-> dev[d].cursor,
                 epoch |-> dev[d].epoch, live |-> TRUE]
           h == dev[d].hist
           from == dev[d].from
           to == Least(from + MaxPush, Len(h))
<1>1. /\ sent' = sent \cup {r} /\ dev' = [dev EXCEPT ![d].waiting = TRUE]
      /\ UNCHANGED <<db, epoch, backup, tx, answer, prunes>>
  BY DEF Send
<1>2. r.dev = d /\ r.ops = SubSeq(h, from + 1, to) /\ r.epoch = dev[d].epoch
  BY DEF Outbox
<1>3. /\ \A e \in Device : /\ dev'[e].hist = dev[e].hist
                           /\ dev'[e].from = dev[e].from /\ dev'[e].epoch = dev[e].epoch
      /\ h \in Seq(Ops) /\ from \in Nat
  BY <1>1, Types DEF Tablet
<1>4. Wrote' = Wrote
  BY <1>3 DEF Wrote
<1>5. Len(h) \in Nat /\ DOMAIN h = 1..Len(h) /\ to \in Nat /\ to <= Len(h)
  BY <1>3, LenProperties, RelayAssumption DEF Least, RelayAssumption
<1> HIDE DEF r, to
<1>6. /\ \A m \in (from + 1)..to : h[m] \in Entries(r.ops)
      /\ \A o \in Entries(r.ops) : \E m \in (from + 1)..to : o = h[m]
  <2> HIDE DEF h, from
  <2>1. /\ \A m \in (from + 1)..to : h[m] \in Entries(SubSeq(h, from + 1, to))
        /\ \A o \in Entries(SubSeq(h, from + 1, to)) : \E m \in (from + 1)..to : o = h[m]
    BY <1>3, <1>5, OutboxFacts
  <2> QED
    BY <1>2, <2>1
<1>7. Wrote[d] = h
  BY WroteFacts
<1>8. \A m \in DOMAIN h : h[m].site = d /\ h[m].seq = m
  BY <1>7 DEF HeldInv, Stored, Numbered
<1>9. \A o \in Entries(r.ops) : /\ o.site = d /\ o.seq \in (from + 1)..to
                                 /\ o.seq \in DOMAIN h /\ h[o.seq] = o
  <2> SUFFICES ASSUME NEW o \in Entries(r.ops)
               PROVE  /\ o.site = d /\ o.seq \in (from + 1)..to
                      /\ o.seq \in DOMAIN h /\ h[o.seq] = o
    OBVIOUS
  <2>1. PICK m \in (from + 1)..to : o = h[m]
    BY <1>6
  <2>2. m \in DOMAIN h
    BY <1>3, <1>5
  <2> QED
    BY <1>8, <2>1, <2>2
<1> HIDE DEF h
<1>10. Owned(Wrote, r)
  BY <1>7, <1>9 DEF Owned, Own
<1>11. r.epoch \in {0, epoch} => Reach(Wrote, db, r)
  <2> SUFFICES ASSUME r.epoch \in {0, epoch}, NEW o \in Entries(r.ops), NEW m \in 1..o.seq
               PROVE  h[m] \in Entries(r.ops) \/ (r.epoch # 0 /\ Kept(db, h[m]))
    BY <1>2, <1>7 DEF Reach
  <2>1. o.seq \in (from + 1)..to
    BY <1>9
  <2>2. CASE m > from
    BY <1>3, <1>5, <1>6, <2>1, <2>2
  <2>3. CASE ~(m > from)
    <3>1. m \in 1..from /\ from # 0
      BY <1>3, <1>5, <2>1, <2>3
    <3>2. r.epoch # 0
      BY <1>2, <3>1 DEF PullInv, Epochs
    <3>3. Through(Wrote, db, d, from)
      BY <1>2, <3>2 DEF HeldInv, Acknowledged
    <3> QED
      BY <1>7, <3>1, <3>2, <3>3 DEF Through
  <2> QED
    BY <2>2, <2>3
<1>12. Requested'
  BY <1>1, <1>4, <1>10, <1>11 DEF HeldInv, Requested, Ready
<1>13. Stored' /\ Exchanging'
  BY <1>1, <1>4 DEF HeldInv, Stored, Exchanging
<1>14. Acknowledged'
  BY <1>1, <1>3, <1>4 DEF HeldInv, Acknowledged
<1> QED
  BY <1>12, <1>13, <1>14 DEF HeldInv

LEMMA GiveUpHeld ==
  ASSUME IInv, HeldInv, NEW d \in Device, GiveUp(d)
  PROVE  HeldInv'
<1>1. /\ dev' = [dev EXCEPT ![d].waiting = FALSE] /\ answer' = [answer EXCEPT ![d] = NoAnswer]
      /\ UNCHANGED <<db, epoch, backup, prunes>>
  BY DEF GiveUp
<1>2. \A e \in Device : /\ dev'[e].hist = dev[e].hist
                        /\ dev'[e].from = dev[e].from /\ dev'[e].epoch = dev[e].epoch
                        /\ answer'[e] \in {NoAnswer, answer[e]}
  BY <1>1, Types DEF Tablet
<1>3. Wrote' = Wrote
  BY <1>2 DEF Wrote
<1>4. \A r \in sent : Late(r).dev = r.dev /\ Late(r).ops = r.ops /\ Late(r).epoch = r.epoch
  BY Types DEF Late, Request
<1>5. \A r \in sent' : \E s \in sent : r.dev = s.dev /\ r.ops = s.ops /\ r.epoch = s.epoch
  BY <1>4 DEF GiveUp, Mine
<1>6. Requested'
  BY <1>1, <1>3, <1>5 DEF HeldInv, Requested, Ready, Owned, Reach
<1>7. tx' # NoTx => /\ tx # NoTx /\ tx'.req.dev = tx.req.dev /\ tx'.req.ops = tx.req.ops
                    /\ tx'.req.epoch = tx.req.epoch /\ tx'.todo = tx.todo
                    /\ tx'.rejected = tx.rejected /\ tx'.accepted = tx.accepted
                    /\ tx'.log = tx.log /\ tx'.inbox = tx.inbox
  <2>1. CASE tx # NoTx /\ tx.req.dev = d
    <3>1. tx' = [tx EXCEPT !.req.live = FALSE]
      BY <2>1 DEF GiveUp
    <3> QED
      BY <2>1, <3>1, Types DEF Transaction, Request
  <2>2. CASE ~(tx # NoTx /\ tx.req.dev = d)
    BY <2>2 DEF GiveUp
  <2> QED
    BY <2>1, <2>2
<1>8. Exchanging'
  <2> SUFFICES ASSUME tx' # NoTx PROVE Settles(Wrote, db, tx')
    BY <1>1, <1>3 DEF Exchanging
  <2>1. Settles(Wrote, db, tx)
    BY <1>7 DEF HeldInv, Exchanging
  <2> QED
    BY <1>7, <2>1 DEF Settles, Owned, Reach, Genuine, Through, Kept
<1>9. Stored'
  BY <1>1, <1>3 DEF HeldInv, Stored
<1>10. Acknowledged'
  BY <1>1, <1>2, <1>3 DEF HeldInv, Acknowledged
<1> QED
  BY <1>6, <1>8, <1>9, <1>10 DEF HeldInv

LEMMA ReceiveHeld ==
  ASSUME IInv, PullInv, HeldInv, NEW d \in Device, Receive(d)
  PROVE  HeldInv'
<1> DEFINE a == answer[d]
           rewound == dev[d].epoch \notin {0, a.epoch}
<1>1. /\ a # NoAnswer /\ answer' = [answer EXCEPT ![d] = NoAnswer]
      /\ UNCHANGED <<db, epoch, backup, tx, sent, prunes>>
  BY DEF Receive
<1>2. /\ \A e \in Device : e # d => dev'[e] = dev[e] /\ answer'[e] = answer[e]
      /\ dev'[d].hist = dev[d].hist /\ dev'[d].epoch = a.epoch
      /\ dev'[d].from = IF rewound \/ a.accepted > dev[d].from THEN a.accepted ELSE dev[d].from
      /\ answer'[d] = NoAnswer
  BY <1>1, Types DEF Receive, Tablet
<1>3. Wrote' = Wrote
  BY <1>2 DEF Wrote
<1>4. Stored' /\ Requested' /\ Exchanging'
  BY <1>1, <1>3 DEF HeldInv, Stored, Requested, Exchanging
<1>5. a.epoch = epoch => Through(Wrote, db, d, dev'[d].from)
  <2> SUFFICES ASSUME a.epoch = epoch PROVE Through(Wrote, db, d, dev'[d].from)
    OBVIOUS
  <2>1. Through(Wrote, db, d, a.accepted)
    BY <1>1 DEF HeldInv, Acknowledged
  <2>2. CASE rewound \/ a.accepted > dev[d].from
    BY <1>2, <2>1, <2>2
  <2>3. CASE ~(rewound \/ a.accepted > dev[d].from)
    <3>1. dev'[d].from = dev[d].from
      BY <1>2, <2>3
    <3>2. CASE dev[d].epoch = epoch
      BY <3>1, <3>2 DEF HeldInv, Acknowledged
    <3>3. CASE dev[d].epoch = 0
      <4>1. dev'[d].from = 0
        BY <3>1, <3>3 DEF PullInv, Epochs
      <4>2. Len(Wrote[d]) \in Nat
        BY WroteFacts, Types, LenProperties
      <4> QED
        BY <4>1, <4>2 DEF Through
    <3> QED
      BY <2>3, <3>2, <3>3
  <2> QED
    BY <2>2, <2>3
<1>6. Acknowledged'
  BY <1>1, <1>2, <1>3, <1>5 DEF HeldInv, Acknowledged
<1> QED
  BY <1>4, <1>6 DEF HeldInv

LEMMA BeginHeld ==
  ASSUME IInv, HeldInv, NEW r \in sent, Begin(r)
  PROVE  HeldInv'
<1> DEFINE d == r.dev
<1>1. /\ sent' = sent \ {r} /\ tx = NoTx /\ UNCHANGED <<db, epoch, backup, dev, prunes>>
      /\ d \in Device
  BY Types DEF Begin
<1>2. Wrote' = Wrote
  BY <1>1 DEF Wrote
<1>3. Stored' /\ Requested'
  BY <1>1, <1>2 DEF HeldInv, Stored, Requested
<1>4. CASE ~Known(r) /\ Rewound(r) /\ UNCHANGED tx
  <2> DEFINE a == [ops |-> {}, cursor |-> 0, epoch |-> epoch, accepted |-> db.acked[r.dev]]
  <2>1. answer' = IF r.live THEN [answer EXCEPT ![d] = a] ELSE answer
    BY <1>4 DEF Rewound, Reply
  <2>2. a.accepted = db.acked[d]
    OBVIOUS
  <2> HIDE DEF a
  <2>3. \A e \in Device : answer'[e] = answer[e] \/ (e = d /\ answer'[e] = a)
    BY <1>1, <2>1, Types
  <2>4. Through(Wrote, db, d, a.accepted)
    BY <1>1, <2>2 DEF HeldInv, Stored, Complete
  <2>5. Acknowledged'
    BY <1>1, <1>2, <2>3, <2>4 DEF HeldInv, Acknowledged
  <2>6. Exchanging'
    BY <1>1, <1>4 DEF Exchanging
  <2> QED
    BY <1>3, <2>5, <2>6 DEF HeldInv
<1>5. CASE /\ UNCHANGED answer /\ Known(r)
           /\ \E n \in Start(r.dev) :
                tx' = [req |-> r, todo |-> DOMAIN r.ops,
                       rejected |-> {}, accepted |-> n, newest |-> 0,
                       log |-> db.log, mirror |-> db.mirror, inbox |-> db.inbox]
  <2>1. PICK n \in Start(d) :
          tx' = [req |-> r, todo |-> DOMAIN r.ops,
                 rejected |-> {}, accepted |-> n, newest |-> 0,
                 log |-> db.log, mirror |-> db.mirror, inbox |-> db.inbox]
    BY <1>5
  <2>2. /\ tx'.req = r /\ tx'.todo = DOMAIN r.ops /\ tx'.rejected = {} /\ tx'.accepted = n
        /\ tx'.log = db.log /\ tx'.inbox = db.inbox
    BY <2>1
  <2>3. Through(Wrote, db, d, n)
    <3>1. CASE n = 0
      <4>1. Len(Wrote[d]) \in Nat
        BY <1>1, WroteFacts, Types, LenProperties
      <4> QED
        BY <3>1, <4>1 DEF Through
    <3>2. CASE n = db.acked[d]
      BY <1>1, <3>2 DEF HeldInv, Stored, Complete
    <3>3. CASE \E o \in Entries(db.log) : o.site = d /\ o.seq = n
      BY <1>1, <3>3 DEF HeldInv, Stored, Complete
    <3>4. n = db.acked[d] \/ n = 0 \/ \E o \in Entries(db.log) : o.site = d /\ o.seq = n
      BY DEF Start, Top
    <3> QED
      BY <3>1, <3>2, <3>3, <3>4
  <2>4. Settles(Wrote, db, tx')
    <3>1. Owned(Wrote, r) /\ Reach(Wrote, db, r)
      BY <1>5 DEF HeldInv, Requested, Ready, Known
    <3>2. Genuine(Wrote, tx')
      BY <2>2 DEF HeldInv, Stored, Genuine
    <3>3. Through(Wrote, tx', d, n)
      BY <2>2, <2>3 DEF Through, Kept
    <3> QED
      BY <2>2, <3>1, <3>2, <3>3 DEF Settles
  <2>5. Exchanging' /\ Acknowledged'
    BY <1>1, <1>2, <1>5, <2>4 DEF HeldInv, Exchanging, Acknowledged
  <2> QED
    BY <1>3, <2>5 DEF HeldInv
<1> QED
  BY <1>4, <1>5 DEF Begin

LEMMA TakesHeld ==
  ASSUME IInv, HeldInv, NEW i \in tx.todo, Takes(i)
  PROVE  HeldInv'
<1> DEFINE o == tx.req.ops[i]
           w == Wrote
           d == tx.req.dev
<1>1. /\ tx # NoTx /\ UNCHANGED <<db, epoch, backup, dev, sent, answer, prunes>>
      /\ tx'.req = tx.req /\ tx'.todo = tx.todo \ {i} /\ tx'.accepted = tx.accepted
      /\ o \in Ops /\ o.site = d
      /\ tx'.log \in {tx.log, Append(tx.log, o)}
      /\ tx'.inbox \in {tx.inbox, tx.inbox \cup {<<o.site, o.seq>>}}
      /\ tx'.rejected \in {tx.rejected, tx.rejected \cup {o.seq}}
      /\ \/ tx'.log = Append(tx.log, o) \/ Logged(tx.log, o.site, o.seq)
         \/ tx'.inbox = tx.inbox \cup {<<o.site, o.seq>>}
         \/ o.kind \in {"badrow", "badvalue"}
  BY DEF Takes
<1>2. Wrote' = w
  BY <1>1 DEF Wrote
<1>3. Stored' /\ Requested' /\ Acknowledged'
  BY <1>1, <1>2 DEF HeldInv, Stored, Requested, Acknowledged
<1>4. /\ tx.log \in Seq(Ops) /\ d \in Device /\ tx.accepted \in Nat
      /\ i \in DOMAIN tx.req.ops
  BY <1>1, Types DEF IInv, FromDevices
<1>5. Settles(w, db, tx)
  BY <1>1 DEF HeldInv, Exchanging
<1>6. o \in Entries(tx.req.ops)
  BY <1>4 DEF Entries
<1> HIDE DEF o
<1>7. o.seq \in DOMAIN w[d] /\ w[d][o.seq] = o /\ Own(w, o)
  BY <1>1, <1>4, <1>5, <1>6 DEF Settles, Owned, Own
<1> HIDE DEF w, d
<1>8. Entries(Append(tx.log, o)) = Entries(tx.log) \cup {o}
  BY <1>1, <1>4, AppendFacts
<1>9. Grows(tx, tx')
  BY <1>1, <1>8 DEF Grows
<1>10. Kept(tx', o)
  <2>1. CASE tx'.log = Append(tx.log, o)
    BY <1>8, <2>1 DEF Kept, Logged
  <2>2. CASE Logged(tx.log, o.site, o.seq)
    BY <1>9, <2>2 DEF Kept, Grows, Logged
  <2>3. CASE tx'.inbox = tx.inbox \cup {<<o.site, o.seq>>}
    BY <2>3 DEF Kept
  <2>4. CASE o.kind \in {"badrow", "badvalue"}
    BY <2>4 DEF Kept
  <2> QED
    BY <1>1, <2>1, <2>2, <2>3, <2>4
<1>11. Settles(w, db, tx')
  <2>1. Owned(w, tx'.req) /\ Reach(w, db, tx'.req)
    BY <1>1, <1>5 DEF Settles
  <2>2. Genuine(w, tx')
    <3>1. \A e \in Entries(tx'.log) : Own(w, e)
      BY <1>1, <1>5, <1>7, <1>8 DEF Settles, Genuine
    <3>2. ASSUME NEW e \in Device, NEW n \in Nat, <<e, n>> \in tx'.inbox
          PROVE  n \in DOMAIN w[e]
      <4>1. CASE <<e, n>> \in tx.inbox
        BY <1>5, <4>1 DEF Settles, Genuine
      <4>2. CASE <<e, n>> = <<o.site, o.seq>>
        BY <1>1, <1>7, <4>2
      <4> QED
        BY <1>1, <3>2, <4>1, <4>2
    <3> QED
      BY <3>1, <3>2 DEF Genuine
  <2>3. Entries(tx'.log) \subseteq Entries(db.log) \cup Entries(tx'.req.ops)
    BY <1>1, <1>5, <1>6, <1>8 DEF Settles
  <2>4. \A j \in DOMAIN tx'.req.ops \ tx'.todo : Kept(tx', tx'.req.ops[j])
    <3> SUFFICES ASSUME NEW j \in DOMAIN tx.req.ops, j \notin tx.todo \/ j = i
                 PROVE  Kept(tx', tx.req.ops[j])
      BY <1>1
    <3>1. CASE j = i
      BY <1>10, <3>1 DEF o
    <3>2. CASE j \notin tx.todo
      BY <1>5, <1>9, <3>2, KeptGrows DEF Settles
    <3> QED
      BY <3>1, <3>2
  <2>5. \A n \in tx'.rejected : n \in DOMAIN w[d] /\ Kept(tx', w[d][n])
    <3> SUFFICES ASSUME NEW n \in tx'.rejected
                 PROVE  n \in DOMAIN w[d] /\ Kept(tx', w[d][n])
      OBVIOUS
    <3>1. CASE n \in tx.rejected
      BY <1>5, <1>9, <3>1, KeptGrows DEF Settles, d
    <3>2. CASE n = o.seq
      BY <1>7, <1>10, <3>2
    <3> QED
      BY <1>1, <3>1, <3>2
  <2>6. Through(w, tx', d, tx'.accepted)
    BY <1>1, <1>5, <1>9, ThroughGrows DEF Settles, d
  <2> QED
    BY <1>1, <2>1, <2>2, <2>3, <2>4, <2>5, <2>6 DEF Settles, d
<1>12. Exchanging'
  BY <1>1, <1>2, <1>11 DEF Exchanging, w
<1> QED
  BY <1>3, <1>12 DEF HeldInv

\* The walk of accepted_through passes what is settled, and that is kept.
LEMMA WalkHeld == IInv /\ HeldInv /\ Walk => HeldInv'
<1> SUFFICES ASSUME IInv, HeldInv, Walk PROVE HeldInv'
  OBVIOUS
<1> DEFINE w == Wrote
           d == tx.req.dev
           n == tx.accepted + 1
<1>1. /\ tx # NoTx /\ UNCHANGED <<db, epoch, backup, dev, sent, answer, prunes>>
      /\ tx'.req = tx.req /\ tx'.todo = tx.todo /\ tx'.rejected = tx.rejected
      /\ tx'.log = tx.log /\ tx'.inbox = tx.inbox /\ tx'.accepted = n
  BY Types DEF Walk, Transaction
<1>2. Wrote' = w
  BY <1>1 DEF Wrote
<1>3. Stored' /\ Requested' /\ Acknowledged'
  BY <1>1, <1>2 DEF HeldInv, Stored, Requested, Acknowledged
<1>4. d \in Device /\ tx.accepted \in Nat /\ n \in Nat /\ w[d] \in Seq(Ops)
  BY <1>1, Types, WroteFacts
<1>5. Settles(w, db, tx) /\ Numbered(w)
  BY <1>1 DEF HeldInv, Exchanging, Stored
<1>6. Settled(d, n)
  BY DEF Walk
<1>7. n \in DOMAIN w[d] /\ Kept(tx, w[d][n])
  <2>1. CASE n \in tx.rejected
    BY <1>5, <2>1 DEF Settles
  <2>2. CASE Logged(tx.log, d, n)
    <3>1. PICK o \in Entries(tx.log) : o.site = d /\ o.seq = n
      BY <2>2 DEF Logged
    <3>2. n \in DOMAIN w[d] /\ w[d][n] = o
      BY <1>4, <1>5, <3>1 DEF Settles, Genuine, Own
    <3> QED
      BY <3>1, <3>2 DEF Kept, Logged
  <2>3. CASE <<d, n>> \in tx.inbox
    <3>1. n \in DOMAIN w[d]
      BY <1>4, <1>5, <2>3 DEF Settles, Genuine
    <3>2. w[d][n].site = d /\ w[d][n].seq = n
      BY <1>4, <1>5, <3>1 DEF Numbered
    <3> QED
      BY <2>3, <3>1, <3>2 DEF Kept
  <2> QED
    BY <1>6, <2>1, <2>2, <2>3 DEF Settled
<1>8. Through(w, tx, d, tx.accepted)
  BY <1>5 DEF Settles
<1>9. DOMAIN w[d] = 1..Len(w[d]) /\ Len(w[d]) \in Nat
  BY <1>4, LenProperties
<1>10. Through(w, tx, d, n)
  <2>1. \A m \in 1..n : m \in 1..tx.accepted \/ m = n
    BY <1>4
  <2> QED
    BY <1>4, <1>7, <1>8, <1>9, <2>1 DEF Through
<1> HIDE DEF n, d, w
<1>11. Settles(w, db, tx')
  BY <1>1, <1>5, <1>10 DEF Settles, Genuine, Through, Kept, d
<1>12. Exchanging'
  BY <1>1, <1>2, <1>11 DEF Exchanging, w
<1> QED
  BY <1>3, <1>12 DEF HeldInv

\* An exchange that commits has settled its request, and what a request leaves out is kept.
LEMMA CommitHeld == IInv /\ PullInv /\ HeldInv /\ Commit => HeldInv'
<1> SUFFICES ASSUME IInv, PullInv, HeldInv, Commit PROVE HeldInv'
  OBVIOUS
<1> DEFINE w == Wrote
           r == tx.req
           d == r.dev
           page == Page(tx.log, d, r.cursor)
<1>1. /\ tx # NoTx /\ tx.todo = {} /\ tx' = NoTx
      /\ UNCHANGED <<epoch, backup, dev, sent, prunes>>
      /\ db'.log = tx.log /\ db'.inbox = tx.inbox
      /\ db'.acked = [db.acked EXCEPT ![d] = tx.accepted]
  BY Types DEF Commit, Database
<1>2. /\ tx.log \in Seq(Ops) /\ db.log \in Seq(Ops) /\ d \in Device /\ r.ops \in Seq(Ops)
      /\ db.acked \in [Device -> Nat]
  BY <1>1, Types
<1>3. PICK c \in Top({r.cursor} \cup page) :
        Reply(r, [ops |-> {tx.log[i] : i \in page}, cursor |-> c, epoch |-> epoch, accepted |-> tx.accepted])
  BY DEF Commit
<1> DEFINE a == [ops |-> {tx.log[i] : i \in page}, cursor |-> c, epoch |-> epoch, accepted |-> tx.accepted]
<1>4. a.accepted = tx.accepted
  OBVIOUS
<1>5. answer' = IF r.live THEN [answer EXCEPT ![d] = a] ELSE answer
  BY <1>3 DEF Reply
<1> HIDE DEF a
<1>6. \A e \in Device : answer'[e] = answer[e] \/ (e = d /\ answer'[e] = a)
  BY <1>2, <1>5, Types
<1>7. Wrote' = w
  BY <1>1 DEF Wrote
<1>8. Settles(w, db, tx) /\ Complete(w, db) /\ Genuine(w, db)
  BY <1>1 DEF HeldInv, Exchanging, Stored
<1>9. Grows(db, tx) /\ Grows(db, db') /\ Grows(tx, db')
  <2>1. Entries(db.log) \subseteq Entries(tx.log) /\ db.inbox \subseteq tx.inbox
    BY <1>1, <1>2, EntriesExtend DEF PullInv, Growing
  <2> QED
    BY <1>1, <2>1 DEF Grows
<1>10. \A o \in Entries(r.ops) : Kept(tx, o) /\ Own(w, o) /\ o.site = d
  BY <1>1, <1>8 DEF Settles, Owned, Entries, IInv, FromDevices
<1> HIDE DEF w, d, r
<1>11. ASSUME NEW o \in Entries(r.ops)
       PROVE  Through(w, tx, d, o.seq)
  <2>1. o.seq \in DOMAIN w[d]
    BY <1>2, <1>10 DEF Own
  <2>2. w[d] \in Seq(Ops)
    BY <1>2, WroteFacts DEF w
  <2>3. o.seq <= Len(w[d])
    BY <2>1, <2>2, LenProperties
  <2>4. ASSUME NEW m \in 1..o.seq
        PROVE  Kept(tx, w[d][m])
    <3>1. Reach(w, db, r)
      BY <1>8 DEF Settles, r
    <3>2. w[d][m] \in Entries(r.ops) \/ Kept(db, w[d][m])
      BY <3>1 DEF Reach, d
    <3> QED
      BY <1>9, <1>10, <3>2, KeptGrows
  <2> QED
    BY <2>3, <2>4 DEF Through
<1>12. Through(w, tx, d, tx.accepted)
  BY <1>8 DEF Settles, d, r
<1>13. Complete(w, db')
  <2>1. ASSUME NEW o \in Entries(db'.log), o.site \in Device
        PROVE  Through(w, db', o.site, o.seq)
    <3>1. CASE o \in Entries(db.log)
      BY <1>8, <1>9, <2>1, <3>1, ThroughGrows DEF Complete
    <3>2. CASE o \in Entries(r.ops)
      BY <1>9, <1>10, <1>11, <3>2, ThroughGrows
    <3>3. o \in Entries(db.log) \cup Entries(r.ops)
      BY <1>1, <1>8, <2>1 DEF Settles, r
    <3> QED
      BY <3>1, <3>2, <3>3
  <2>2. ASSUME NEW e \in Device
        PROVE  Through(w, db', e, db'.acked[e])
    <3>1. CASE e = d
      BY <1>1, <1>2, <1>9, <1>12, <3>1, ThroughGrows
    <3>2. CASE e # d
      BY <1>1, <1>2, <1>8, <1>9, <3>2, ThroughGrows DEF Complete
    <3> QED
      BY <3>1, <3>2
  <2> QED
    BY <2>1, <2>2 DEF Complete
<1>14. Genuine(w, db')
  BY <1>1, <1>8 DEF Settles, Genuine
<1>15. Stored'
  BY <1>1, <1>7, <1>13, <1>14 DEF HeldInv, Stored, w
<1>16. Requested'
  BY <1>1, <1>7, <1>9, ReadyGrows DEF HeldInv, Requested, w
<1>17. Exchanging'
  BY <1>1 DEF Exchanging
<1>18. Acknowledged'
  <2> SUFFICES ASSUME NEW e \in Device
               PROVE  /\ dev[e].epoch = epoch => Through(w, db', e, dev[e].from)
                      /\ answer'[e] # NoAnswer /\ answer'[e].epoch = epoch =>
                           Through(w, db', e, answer'[e].accepted)
    BY <1>1, <1>7 DEF Acknowledged
  <2>1. dev[e].epoch = epoch => Through(w, db', e, dev[e].from)
    BY <1>9, ThroughGrows DEF HeldInv, Acknowledged, w
  <2>2. answer[e] # NoAnswer /\ answer[e].epoch = epoch => Through(w, db', e, answer[e].accepted)
    BY <1>9, ThroughGrows DEF HeldInv, Acknowledged, w
  <2>3. Through(w, db', d, a.accepted)
    BY <1>4, <1>9, <1>12, ThroughGrows
  <2> QED
    BY <1>6, <2>1, <2>2, <2>3
<1> QED
  BY <1>15, <1>16, <1>17, <1>18 DEF HeldInv

LEMMA FailHeld == IInv /\ HeldInv /\ Fail => HeldInv'
<1> SUFFICES ASSUME IInv, HeldInv, Fail PROVE HeldInv'
  OBVIOUS
<1>1. /\ tx # NoTx /\ tx' = NoTx /\ UNCHANGED <<db, epoch, backup, sent, answer, prunes>>
      /\ dev' = IF tx.req.live THEN [dev EXCEPT ![tx.req.dev].waiting = FALSE] ELSE dev
  BY DEF Fail
<1>2. \A e \in Device : /\ dev'[e].hist = dev[e].hist
                        /\ dev'[e].from = dev[e].from /\ dev'[e].epoch = dev[e].epoch
  BY <1>1, Types DEF Tablet
<1>3. Wrote' = Wrote
  BY <1>2 DEF Wrote
<1> QED
  BY <1>1, <1>2, <1>3 DEF HeldInv, Stored, Requested, Exchanging, Acknowledged

LEMMA AuthorOpsHeld == IInv /\ HeldInv /\ AuthorOps => HeldInv'
<1> SUFFICES ASSUME IInv, HeldInv, AuthorOps PROVE HeldInv'
  OBVIOUS
<1>1. tx = NoTx /\ UNCHANGED <<epoch, backup, dev, sent, answer, tx>>
  BY DEF AuthorOps
<1>2. Wrote' = Wrote
  BY <1>1 DEF Wrote
<1>3. PICK o \in Ops : /\ o.site = Server /\ db'.log = Append(db.log, o)
                      /\ db'.inbox = db.inbox /\ db'.acked = db.acked
  <2>1. db.log \in Seq(Ops) /\ db \in Database /\ db.authored \in Nat /\ db.hlc \in Nat
    BY Types DEF Database
  <2>2. PICK k \in Key, t \in (db.hlc + 1)..MaxTs :
          LET o == [site |-> Server, seq |-> db.authored + 1, ts |-> t, key |-> k, kind |-> "row"]
          IN db' = [db EXCEPT !.log = Append(@, o), !.authored = o.seq, !.hlc = t,
                              !.mirror[k] = IF Wins(o, @) THEN o ELSE @]
    BY DEF AuthorOps
  <2> DEFINE o == [site |-> Server, seq |-> db.authored + 1, ts |-> t, key |-> k, kind |-> "row"]
  <2>3. t \in Nat
    BY <2>1, RelayAssumption DEF RelayAssumption
  <2>4. o \in Ops /\ o.site = Server
    BY <2>1, <2>3 DEF Ops, Site, Kinds
  <2>5. db'.log = Append(db.log, o) /\ db'.inbox = db.inbox /\ db'.acked = db.acked
    BY <2>1, <2>2 DEF Database
  <2> HIDE DEF o
  <2> QED
    BY <2>4, <2>5
<1>4. Entries(db'.log) = Entries(db.log) \cup {o} /\ o.site \notin Device
  BY <1>3, Types, AppendFacts, RelayAssumption DEF RelayAssumption
<1>5. Grows(db, db')
  BY <1>3, <1>4 DEF Grows
<1>6. Genuine(Wrote, db')
  BY <1>3, <1>4 DEF HeldInv, Stored, Genuine, Own
<1>7. Complete(Wrote, db')
  <2>1. Complete(Wrote, db)
    BY DEF HeldInv, Stored
  <2> QED
    BY <1>3, <1>4, <1>5, <2>1, ThroughGrows DEF Complete
<1>8. Stored'
  BY <1>1, <1>2, <1>6, <1>7 DEF HeldInv, Stored
<1>9. Requested'
  BY <1>1, <1>2, <1>5, ReadyGrows DEF HeldInv, Requested
<1>10. Exchanging' /\ Acknowledged'
  BY <1>1, <1>2, <1>5, ThroughGrows DEF HeldInv, Exchanging, Acknowledged
<1> QED
  BY <1>8, <1>9, <1>10 DEF HeldInv

LEMMA PruneDeviceHeld ==
  ASSUME IInv, HeldInv, NEW d \in Device, PruneDevice(d)
  PROVE  HeldInv'
<1>1. /\ UNCHANGED <<epoch, backup, dev, sent, answer, tx>>
      /\ db'.log = db.log /\ db'.inbox = db.inbox /\ db'.acked = [db.acked EXCEPT ![d] = 0]
  BY Types DEF PruneDevice, Database
<1>2. Wrote' = Wrote
  BY <1>1 DEF Wrote
<1>3. Grows(db, db')
  BY <1>1 DEF Grows
<1>4. Genuine(Wrote, db')
  BY <1>1 DEF HeldInv, Stored, Genuine
<1>5. Complete(Wrote, db')
  <2>1. Complete(Wrote, db)
    BY DEF HeldInv, Stored
  <2>2. ASSUME NEW e \in Device PROVE Through(Wrote, db', e, db'.acked[e])
    <3>1. CASE e = d
      <4>1. Len(Wrote[d]) \in Nat /\ db'.acked[d] = 0
        BY <1>1, WroteFacts, Types, LenProperties
      <4> QED
        BY <3>1, <4>1 DEF Through
    <3>2. CASE e # d
      BY <1>1, <1>3, <2>1, <3>2, Types, ThroughGrows DEF Complete
    <3> QED
      BY <3>1, <3>2
  <2> QED
    BY <1>1, <1>3, <2>1, <2>2, ThroughGrows DEF Complete
<1>6. Stored'
  BY <1>1, <1>2, <1>4, <1>5 DEF HeldInv, Stored
<1>7. Requested'
  BY <1>1, <1>2, <1>3, ReadyGrows DEF HeldInv, Requested
<1>8. Exchanging'
  BY <1>1, <1>2 DEF HeldInv, Exchanging, Settles, Reach, Kept
<1>9. Acknowledged'
  BY <1>1, <1>2, <1>3, ThroughGrows DEF HeldInv, Acknowledged
<1> QED
  BY <1>6, <1>7, <1>8, <1>9 DEF HeldInv

LEMMA BackupHeld == IInv /\ HeldInv /\ Backup => HeldInv'
<1> SUFFICES ASSUME IInv, HeldInv, Backup PROVE HeldInv'
  OBVIOUS
<1>1. backup' = db /\ UNCHANGED <<db, epoch, tx, dev, sent, answer, prunes>>
  BY DEF Backup
<1>2. Wrote' = Wrote
  BY <1>1 DEF Wrote
<1> QED
  BY <1>1, <1>2 DEF HeldInv, Stored, Requested, Exchanging, Acknowledged

\* A request of the lost epoch is answered without being applied, and one of no epoch
\* leaves out nothing.
LEMMA RestoreHeld == IInv /\ PullInv /\ HeldInv /\ Restore => HeldInv'
<1> SUFFICES ASSUME IInv, PullInv, HeldInv, Restore PROVE HeldInv'
  OBVIOUS
<1>1. /\ tx = NoTx /\ epoch' = epoch + 1 /\ epoch \in Nat /\ db' = backup
      /\ UNCHANGED <<backup, tx, dev, sent, answer, prunes>>
  BY Types DEF Restore, NewEpoch
<1>2. Wrote' = Wrote
  BY <1>1 DEF Wrote
<1>3. /\ \A d \in Device : dev[d].epoch # epoch + 1 /\ (answer[d] # NoAnswer => answer[d].epoch # epoch + 1)
      /\ \A r \in sent : r.epoch # epoch + 1
  BY <1>1, Types DEF PullInv, Epochs
<1>4. Stored' /\ Exchanging' /\ Acknowledged'
  BY <1>1, <1>2, <1>3 DEF HeldInv, Stored, Exchanging, Acknowledged
<1>5. Requested'
  <2> SUFFICES ASSUME NEW r \in sent PROVE Ready(Wrote, backup, epoch + 1, r)
    BY <1>1, <1>2 DEF Requested
  <2>1. Ready(Wrote, db, epoch, r)
    BY DEF HeldInv, Requested
  <2> QED
    BY <1>3, <2>1 DEF Ready, Reach
<1> QED
  BY <1>4, <1>5 DEF HeldInv

LEMMA NextHeld == IInv /\ PullInv /\ HeldInv /\ [Next]_vars => HeldInv'
<1> SUFFICES ASSUME IInv, PullInv, HeldInv, [Next]_vars PROVE HeldInv'
  OBVIOUS
<1>1. ASSUME NEW d \in Device, Author(d) \/ Send(d) \/ Receive(d) \/ PruneDevice(d) \/ GiveUp(d)
      PROVE  HeldInv'
  BY <1>1, AuthorHeld, SendHeld, ReceiveHeld, PruneDeviceHeld, GiveUpHeld
<1>2. ASSUME NEW d \in Device, Exchange(d) PROVE HeldInv'
  <2>1. ASSUME NEW r \in sent, Begin(r) PROVE HeldInv'
    BY <2>1, BeginHeld
  <2>2. ASSUME NEW i \in tx.todo, StageReader(i) \/ ApplyWriter(i) PROVE HeldInv'
    BY <2>2, StageTakes, TakesHeld
  <2> QED
    BY <1>2, <2>1, <2>2, WalkHeld, CommitHeld DEF Exchange
<1>3. CASE UNCHANGED vars
  <2>1. Wrote' = Wrote
    BY <1>3 DEF vars, Wrote
  <2> QED
    BY <1>3, <2>1 DEF vars, HeldInv, Stored, Requested, Exchanging, Acknowledged
<1> QED
  BY <1>1, <1>2, <1>3, AuthorOpsHeld, BackupHeld, RestoreHeld, FailHeld
  DEF Next, Steady, Trouble

\* The three invariants together: each holds initially and every step keeps all.
THEOREM InductiveHeld == Spec => [](IInv /\ PullInv /\ HeldInv)
<1>1. IInv /\ PullInv /\ HeldInv /\ [Next]_vars => (IInv /\ PullInv /\ HeldInv)'
  BY NextInv, NextPull, NextHeld
<1> QED
  BY <1>1, InitInv, InitPull, InitHeld, PTL DEF Spec

\* What a device of the current epoch was told is accepted is kept, so that it may
\* drop it from its outbox.
THEOREM AcceptedKept == Spec => []AcceptedHeld
<1>1. IInv /\ HeldInv => AcceptedHeld
  <2> SUFFICES ASSUME IInv, HeldInv, NEW d \in Device, dev[d].epoch = epoch, NEW n \in 1..dev[d].from
               PROVE  Held(dev[d].hist[n])
    BY DEF AcceptedHeld
  <2>1. Through(Wrote, db, d, dev[d].from)
    BY DEF HeldInv, Acknowledged
  <2>2. Kept(db, dev[d].hist[n])
    BY <2>1, WroteFacts DEF Through
  <2> QED
    BY <2>2 DEF Kept, Held
<1> QED
  BY <1>1, InductiveHeld, PTL
=============================================================================
