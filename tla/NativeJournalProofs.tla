------------------------- MODULE NativeJournalProofs -------------------------
(***************************************************************************)
(* Theorems of NativeJournal for any documents, operations, generations and *)
(* late writes.                                                             *)
(*                                                                          *)
(* The many actions are reduced to a few forms of step: the owner adds rows *)
(* (Adds), a transaction goes on (Moves) or ends with a state for its       *)
(* operation (Closes).  The parts of the invariant are proved for the forms, *)
(* then the actions for the parts.                                          *)
(***************************************************************************)
EXTENDS NativeJournal, FiniteSetTheorems, TLAPS

USE DEF NoOp

\* Rows: what the states of an operation say about its other fields.
RowInv(o) ==
  /\ ops[o].started => ops[o].state \notin {"none", "preview"}
  /\ ops[o].withdrawn => ops[o].state = "cancelled" /\ ~ops[o].started
  /\ ops[o].gen <= generation
  /\ ops[o].published # 0 => ops[o].state \in {"published", "superseded", "cancelled"}
  /\ ops[o].state = "preview" => ~Creates(o)
  /\ ops[o].state = "blocked" /\ ops[o].kind = "create" => ops[o].gen < generation

RowsInv == \A o \in Op : RowInv(o)

\* The open transaction: what it has checked stays true until it writes.
TxInv ==
  /\ tx.phase = "idle" => tx = Idle
  /\ tx.phase # "idle" => tx.op \in Op /\ ops[tx.op].started
  /\ tx.phase \in Publishing => Current(tx.op) /\ ops[tx.op].doc \notin purged
  /\ tx.phase = "lookup" => Creates(tx.op)
  /\ tx.phase = "read" => ~Creates(tx.op)
  /\ tx.phase = "put" => IF Creates(tx.op) THEN tx.rev = 0 ELSE tx.rev = Fence(tx.op) /\ tx.rev # 0
  /\ tx.phase \in {"reread", "commit", "message", "finish"} => Written(tx.op)
  /\ tx.phase \in {"message", "finish"} => Library(tx.op) \/ tx.op \in commits
  /\ tx.phase = "finish" => tx.op \in messages

\* Nothing is sent for an operation that has not started, and no record is
\* replaced but the one at the operation's fence.
LateInv(m) ==
  /\ ops[m.op].started
  /\ m.what = "record" => IF Creates(m.op) THEN m.base = 0 ELSE m.base = Fence(m.op) /\ m.base # 0
  /\ m.what \in {"commit", "message"} => Written(m.op)
  /\ m.what = "message" => Library(m.op) \/ m.op \in commits

SentInv ==
  /\ \A w \in wrote : ops[w.op].started /\ (~Creates(w.op) => w.base = Fence(w.op) /\ w.base # 0)
  /\ \A m \in late : LateInv(m)
  /\ \A o \in messages : Written(o) /\ (Library(o) \/ o \in commits)
  /\ \A o \in Op : ops[o].state = "published" => o \in messages
  /\ \A o \in Op : ops[o].state = "superseded" => Written(o)
  /\ \A d \in Doc, o \in Op : gw[d].marker = o => ops[o].doc = d /\ Written(o)

\* Records: one operation creates an identity, and the record exists only after it did.
RecordInv ==
  /\ \A d \in Doc : gw[d].live => gw[d].rev > 0
  /\ \A d \in purged : gw[d].rev > 0
  /\ \A p, q \in Op : Creates(p) /\ Creates(q) /\ ~Free(p) /\ ~Free(q) /\ ops[p].doc = ops[q].doc => p = q
  /\ \A o \in Op : ~Free(o) /\ Creates(o) /\ gw[ops[o].doc].rev > 0 => Written(o)
  /\ \A o \in Op : ops[o].kind = "create" /\ ops[o].state = "cancelled" => gw[ops[o].doc].rev > 0

\* A retirement and its replacement are one request; it starts behind it.
ReplaceInv ==
  \A o, r \in Op : ops[o].replaces = r =>
    /\ r < o /\ ~Free(o) /\ ~Free(r) /\ ops[r].kind = "create" /\ ops[r].gen = ops[o].gen
    /\ ops[o].started => Written(r)

IInv == TypeOK /\ RowsInv /\ TxInv /\ SentInv /\ RecordInv /\ ReplaceInv

-----------------------------------------------------------------------------
(* The forms of step.                                                       *)

\* What a row says of its operation never changes once the row is used.
Kept ==
  /\ ops' \in [Op -> OpRow]
  /\ \A p \in Op : ~Free(p) =>
       /\ ~Free(p)' /\ ops'[p].kind = ops[p].kind /\ ops'[p].doc = ops[p].doc
       /\ ops'[p].gen = ops[p].gen /\ ops'[p].expected = ops[p].expected
       /\ ops'[p].after = ops[p].after /\ ops'[p].replaces = ops[p].replaces
       /\ ops[p].started => ops'[p].started
       /\ ops[p].published # 0 => ops'[p].published = ops[p].published

\* The owner's new rows S.
Adds(S) ==
  /\ Kept /\ OwnerOnly
  /\ \A p \in Op \ S : ops'[p] = ops[p]
  /\ \A p \in S : /\ Free(p) /\ ops'[p].state \in {"queued", "preview"} /\ ops'[p].doc \in Doc
                  /\ ~ops'[p].started /\ ~ops'[p].withdrawn /\ ops'[p].published = 0
                  /\ ops'[p].code = "none" /\ ops'[p].gen = generation

\* The transaction ends with state s, code c and published revision n of its operation.
Closes(o, s, c, n) ==
  /\ tx' = Idle /\ Local /\ Kept
  /\ \A p \in Op \ {o} : ops'[p] = ops[p]
  /\ ops'[o].state = s /\ ops'[o].code = c /\ ops'[o].published = n
  /\ ops'[o].started = ops[o].started /\ ops'[o].withdrawn = ops[o].withdrawn

\* The transaction goes on.
Moves(o, rev, phase) ==
  /\ tx'.phase = phase /\ tx'.op = o /\ tx'.rev = rev
  /\ tx' \in [phase : Phases, op : Op \cup {NoOp}, rev : Nat]
  /\ UNCHANGED ops /\ Local

LEMMA OpFacts == Op \subseteq Nat /\ 0 \notin Op /\ IsFiniteSet(Op) /\ NoDoc \notin Doc
<1>1. MaxOps \in Nat /\ NoDoc \notin Doc
  BY JournalAssumption DEF JournalAssumption
<1>2. IsFiniteSet(Op)
  BY <1>1, FS_Interval DEF Op
<1> QED
  BY <1>1, <1>2 DEF Op

LEMMA Same == ASSUME TypeOK, UNCHANGED ops PROVE Kept
BY DEF Kept, TypeOK, Free

LEMMA RowFacts ==
  ASSUME TypeOK, NEW o \in Op
  PROVE  /\ ops[o] \in OpRow
         /\ ops[o].gen \in Nat /\ ops[o].expected \in Nat /\ ops[o].published \in Nat
         /\ ops[o].after \in Op \cup {0} /\ ops[o].replaces \in Op \cup {0}
         /\ ops[o].kind \in Kinds /\ ops[o].state \in States
         /\ ops[o].started \in BOOLEAN /\ ops[o].withdrawn \in BOOLEAN
         /\ ~Free(o) => ops[o].doc \in Doc
BY DEF TypeOK, OpRow

-----------------------------------------------------------------------------
(* Rows.                                                                    *)

\* created_at is the number of rows before it.
LEMMA NewRow ==
  ASSUME TypeOK, NEW k \in Kinds, NEW d \in Doc, NEW state \in States
  PROVE  New(k, d, state) \in
           {r \in OpRow : /\ r.state = state /\ r.kind = k /\ r.doc = d /\ r.gen = generation
                          /\ r.after = 0 /\ r.expected = 0 /\ r.published = 0 /\ r.replaces = 0
                          /\ ~r.started /\ ~r.withdrawn /\ r.code = "none"}
<1> DEFINE used == {p \in Op : ~Free(p)}
           n == Cardinality(used) + 1
<1>1. Cardinality(used) \in Nat
  BY OpFacts, FS_Subset, FS_CardinalityType
<1>2. generation \in Nat
  BY DEF TypeOK
<1>3. n \in Nat
  BY <1>1
<1>4. New(k, d, state) =
      [Unused EXCEPT !.state = state, !.kind = k, !.doc = d, !.gen = generation, !.made = n]
  BY DEF New
<1> HIDE DEF n
<1>5. New(k, d, state) =
      [state |-> state, code |-> "none", kind |-> k, doc |-> d, started |-> FALSE,
       made |-> n, gen |-> generation, expected |-> 0, after |-> 0,
       published |-> 0, replaces |-> 0, withdrawn |-> FALSE]
  BY <1>4 DEF Unused
<1>6. New(k, d, state) \in OpRow
  BY <1>2, <1>3, <1>5 DEF OpRow
<1> QED
  BY <1>5, <1>6

\* What the publisher and the owner write into a row.
LEMMA RowWith ==
  ASSUME NEW r \in OpRow, NEW s \in States, NEW c \in {"none", "stale", "replaced"}, NEW n \in Nat
  PROVE  /\ [r EXCEPT !.state = s] \in OpRow
         /\ [r EXCEPT !.started = TRUE] \in OpRow
         /\ [r EXCEPT !.state = s, !.code = c] \in OpRow
         /\ [r EXCEPT !.state = s, !.published = n] \in OpRow
         /\ [r EXCEPT !.state = s, !.withdrawn = TRUE] \in OpRow
         /\ [r EXCEPT !.expected = n] \in OpRow
BY DEF OpRow

LEMMA RowSet ==
  ASSUME TypeOK, NEW o \in Op, NEW row \in OpRow, ops' = [ops EXCEPT ![o] = row],
         ~Free(o) => /\ row.state # "none" /\ row.kind = ops[o].kind /\ row.doc = ops[o].doc
                     /\ row.gen = ops[o].gen /\ row.expected = ops[o].expected
                     /\ row.after = ops[o].after /\ row.replaces = ops[o].replaces
                     /\ (ops[o].started => row.started)
                     /\ (ops[o].published # 0 => row.published = ops[o].published)
  PROVE  /\ Kept /\ ops'[o] = row
         /\ \A p \in Op \ {o} : ops'[p] = ops[p]
BY DEF Kept, TypeOK, Free

\* The states a transaction can end with.
LEMMA EndCloses ==
  ASSUME TypeOK, NEW o \in Op, ~Free(o), NEW s \in States \ {"none"},
         NEW c \in {"none", "stale", "replaced"}, NEW n \in Nat,
         ops[o].published # 0 => n = ops[o].published
  PROVE  /\ Block(o, c) => Closes(o, "blocked", c, ops[o].published)
         /\ End(o, [ops[o] EXCEPT !.state = s]) => Closes(o, s, ops[o].code, ops[o].published)
         /\ End(o, [ops[o] EXCEPT !.state = s, !.published = n]) => Closes(o, s, ops[o].code, n)
         /\ Rollback => Closes(o, ops[o].state, ops[o].code, ops[o].published)
<1>1. ops[o] \in OpRow
  BY RowFacts
<1>2. ASSUME NEW row \in OpRow, End(o, row), row.state # "none",
             /\ row.kind = ops[o].kind /\ row.doc = ops[o].doc
             /\ row.gen = ops[o].gen /\ row.expected = ops[o].expected
             /\ row.after = ops[o].after /\ row.replaces = ops[o].replaces,
             row.started = ops[o].started, row.withdrawn = ops[o].withdrawn,
             ops[o].published # 0 => row.published = ops[o].published
      PROVE  Closes(o, row.state, row.code, row.published)
  BY <1>2, RowSet DEF End, Closes
<1>3. Block(o, c) => Closes(o, "blocked", c, ops[o].published)
  <2> DEFINE row == [ops[o] EXCEPT !.state = "blocked", !.code = c]
  <2>1. row \in OpRow
    BY <1>1, RowWith DEF States
  <2>2. /\ row.state = "blocked" /\ row.code = c /\ row.published = ops[o].published
        /\ row.kind = ops[o].kind /\ row.doc = ops[o].doc
        /\ row.gen = ops[o].gen /\ row.expected = ops[o].expected
        /\ row.after = ops[o].after /\ row.replaces = ops[o].replaces
        /\ row.started = ops[o].started /\ row.withdrawn = ops[o].withdrawn
    BY <1>1 DEF OpRow
  <2>3. Block(o, c) => End(o, row)
    BY DEF Block
  <2> HIDE DEF row
  <2> QED
    BY <1>2, <2>1, <2>2, <2>3
<1>4. End(o, [ops[o] EXCEPT !.state = s]) => Closes(o, s, ops[o].code, ops[o].published)
  <2> DEFINE row == [ops[o] EXCEPT !.state = s]
  <2>1. row \in OpRow
    BY <1>1, RowWith
  <2>2. /\ row.state = s /\ row.code = ops[o].code /\ row.published = ops[o].published
        /\ row.kind = ops[o].kind /\ row.doc = ops[o].doc
        /\ row.gen = ops[o].gen /\ row.expected = ops[o].expected
        /\ row.after = ops[o].after /\ row.replaces = ops[o].replaces
        /\ row.started = ops[o].started /\ row.withdrawn = ops[o].withdrawn
    BY <1>1 DEF OpRow
  <2> HIDE DEF row
  <2>3. End(o, row) => Closes(o, s, ops[o].code, ops[o].published)
    BY <1>2, <2>1, <2>2
  <2> QED
    BY <2>3 DEF row
<1>5. End(o, [ops[o] EXCEPT !.state = s, !.published = n]) => Closes(o, s, ops[o].code, n)
  <2> DEFINE row == [ops[o] EXCEPT !.state = s, !.published = n]
  <2>1. row \in OpRow
    BY <1>1, RowWith
  <2>2. /\ row.state = s /\ row.code = ops[o].code /\ row.published = n
        /\ row.kind = ops[o].kind /\ row.doc = ops[o].doc
        /\ row.gen = ops[o].gen /\ row.expected = ops[o].expected
        /\ row.after = ops[o].after /\ row.replaces = ops[o].replaces
        /\ row.started = ops[o].started /\ row.withdrawn = ops[o].withdrawn
    BY <1>1 DEF OpRow
  <2> HIDE DEF row
  <2>3. End(o, row) => Closes(o, s, ops[o].code, n)
    BY <1>2, <2>1, <2>2
  <2> QED
    BY <2>3 DEF row
<1>6. Rollback => Closes(o, ops[o].state, ops[o].code, ops[o].published)
  BY Same DEF Rollback, Closes
<1> QED
  BY <1>3, <1>4, <1>5, <1>6

LEMMA BlockCloses ==
  ASSUME TypeOK, NEW o \in Op, ~Free(o), NEW c \in {"none", "stale", "replaced"}, Block(o, c)
  PROVE  Closes(o, "blocked", c, ops[o].published)
<1>1. "blocked" \in States \ {"none"} /\ ops[o].published \in Nat
  BY RowFacts DEF States
<1> QED
  BY <1>1, EndCloses

\* What an operation that has started is checked against does not change any more.
LEMMA Stable ==
  ASSUME TypeOK, RowsInv, Kept, NEW o \in Op, ~Free(o)
  PROVE  /\ Creates(o)' <=> Creates(o)
         /\ Library(o)' <=> Library(o)
         /\ Fence(o) # 0 => Fence(o)' = Fence(o)
         /\ ops'[o].doc = ops[o].doc /\ ops'[o].gen = ops[o].gen
<1>1. ops'[o].after = ops[o].after /\ ops'[o].expected = ops[o].expected /\ ops'[o].kind = ops[o].kind
  BY DEF Kept
<1>2. ASSUME NEW p \in Op, ops[p].published # 0
      PROVE  ops'[p].published = ops[p].published
  BY <1>2 DEF RowsInv, RowInv, Kept, Free
<1>3. ops[o].after \in Op \cup {0}
  BY RowFacts
<1> QED
  BY <1>1, <1>2, <1>3 DEF Creates, Library, Fence, Kept

LEMMA StartedUsed ==
  ASSUME TypeOK, RowsInv, NEW o \in Op, ops[o].started
  PROVE  ~Free(o)
BY DEF RowsInv, RowInv, Free

-----------------------------------------------------------------------------
(* The open transaction.                                                    *)

LEMMA TxIdle == tx' = Idle => TxInv'
BY OpFacts DEF TxInv, Idle, Publishing

\* Steps of the others.  The locks keep generation and removals from an open one.
LEMMA TxKept ==
  ASSUME TypeOK, RowsInv, TxInv, Kept, UNCHANGED tx,
         wrote \subseteq wrote', commits \subseteq commits', messages \subseteq messages',
         LockFree \/ UNCHANGED <<generation, purged>>
  PROVE  TxInv'
<1>1. CASE tx.phase = "idle"
  BY <1>1 DEF TxInv, Publishing
<1>2. CASE tx.phase # "idle"
  <2>1. tx.op \in Op /\ ops[tx.op].started
    BY <1>2 DEF TxInv
  <2>2. ~Free(tx.op) /\ ops'[tx.op].started
    BY <2>1, StartedUsed DEF Kept
  <2>3. /\ Creates(tx.op)' <=> Creates(tx.op)
        /\ Library(tx.op)' <=> Library(tx.op)
        /\ Fence(tx.op) # 0 => Fence(tx.op)' = Fence(tx.op)
        /\ ops'[tx.op].doc = ops[tx.op].doc /\ ops'[tx.op].gen = ops[tx.op].gen
    BY <2>1, <2>2, Stable
  <2>4. Written(tx.op) => Written(tx.op)'
    BY DEF Written
  <2>5. tx.phase \in Publishing => ~LockFree
    BY DEF Publishing, LockFree
  <2>6. tx.phase \in Publishing => Current(tx.op)' /\ ops'[tx.op].doc \notin purged'
    BY <2>3, <2>5 DEF Current, TxInv
  <2>7. (Creates(tx.op))' = Creates(tx.op)' /\ (Fence(tx.op))' = Fence(tx.op)' /\ tx'.op = tx.op
    OBVIOUS
  <2>8. tx.phase = "put" =>
          (IF Creates(tx.op) THEN tx.rev = 0 ELSE tx.rev = Fence(tx.op) /\ tx.rev # 0)'
    BY <2>3 DEF TxInv
  <2> QED
    BY <1>2, <2>1, <2>2, <2>3, <2>4, <2>6, <2>8 DEF TxInv
<1> QED
  BY <1>1, <1>2

\* What a transaction needs for its next phase.
LEMMA TxMoves ==
  ASSUME TypeOK, RowsInv, NEW o \in Op, NEW rev, NEW phase \in Publishing,
         ops'[o].started, Creates(o)' <=> Creates(o), Library(o)' <=> Library(o), Fence(o)' = Fence(o),
         tx'.phase = phase, tx'.op = o, tx'.rev = rev,
         Current(o)', (ops[o].doc \notin purged)',
         phase = "lookup" => Creates(o),
         phase = "read" => ~Creates(o),
         phase = "put" => IF Creates(o) THEN rev = 0 ELSE rev = Fence(o) /\ rev # 0,
         phase \in {"reread", "commit", "message", "finish"} => Written(o)',
         phase \in {"message", "finish"} => Library(o) \/ o \in commits',
         phase = "finish" => o \in messages'
  PROVE  TxInv'
BY DEF TxInv, Publishing

-----------------------------------------------------------------------------
(* What was sent.                                                           *)

LEMMA LateKept ==
  ASSUME TypeOK, RowsInv, Kept, NEW m \in late, LateInv(m),
         wrote \subseteq wrote', commits \subseteq commits'
  PROVE  LateInv(m)'
<1>1. m.op \in Op
  BY DEF TypeOK, Write
<1>2. ops[m.op].started /\ ~Free(m.op)
  BY <1>1, StartedUsed DEF LateInv
<1>3. /\ Creates(m.op)' <=> Creates(m.op)
      /\ Library(m.op)' <=> Library(m.op)
      /\ Fence(m.op) # 0 => Fence(m.op)' = Fence(m.op)
  BY <1>1, <1>2, Stable
<1>4. ops'[m.op].started
  BY <1>1, <1>2 DEF Kept
<1>5. Written(m.op) => Written(m.op)'
  BY DEF Written
<1>6. m.what = "record" => IF Creates(m.op)' THEN m.base = 0 ELSE m.base = Fence(m.op)' /\ m.base # 0
  BY <1>3 DEF LateInv
<1> QED
  BY <1>3, <1>4, <1>5, <1>6 DEF LateInv

LEMMA SentKept ==
  ASSUME TypeOK, RowsInv, SentInv, Kept, wrote \subseteq wrote', commits \subseteq commits'
  PROVE  /\ \A w \in wrote : ops'[w.op].started /\ (~Creates(w.op)' => w.base = Fence(w.op)' /\ w.base # 0)
         /\ \A m \in late : LateInv(m)'
         /\ \A o \in messages : Written(o)' /\ (Library(o)' \/ o \in commits')
<1>1. \A o : Written(o) => Written(o)'
  BY DEF Written
<1>2. ASSUME NEW w \in wrote
      PROVE  ops'[w.op].started /\ (~Creates(w.op)' => w.base = Fence(w.op)' /\ w.base # 0)
  <2>1. w.op \in Op /\ ops[w.op].started
    BY DEF TypeOK, SentInv
  <2>2. ~Free(w.op)
    BY <2>1, StartedUsed
  <2>3. /\ Creates(w.op)' <=> Creates(w.op)
        /\ Fence(w.op) # 0 => Fence(w.op)' = Fence(w.op)
    BY <2>1, <2>2, Stable
  <2> QED
    BY <2>1, <2>2, <2>3 DEF SentInv, Kept
<1>3. ASSUME NEW o \in messages
      PROVE  Written(o)' /\ (Library(o)' \/ o \in commits')
  <2>1. Written(o) /\ o \in Op /\ (Library(o) \/ o \in commits)
    BY DEF TypeOK, SentInv
  <2>2. ops[o].started
    BY <2>1 DEF Written, SentInv
  <2> QED
    BY <1>1, <2>1, <2>2, StartedUsed, Stable
<1> QED
  BY <1>2, <1>3, LateKept DEF SentInv

LEMMA SentStep ==
  ASSUME TypeOK, RowsInv, SentInv, Kept,
         wrote \subseteq wrote', commits \subseteq commits',
         \A w \in wrote' \ wrote :
           ops'[w.op].started /\ (~Creates(w.op)' => w.base = Fence(w.op)' /\ w.base # 0),
         \A m \in late' \ late : LateInv(m)',
         \A o \in messages' \ messages : Written(o)' /\ (Library(o)' \/ o \in commits'),
         messages \subseteq messages',
         \A o \in Op : ops'[o].state = "published" => ops[o].state = "published" \/ o \in messages',
         \A o \in Op : ops'[o].state = "superseded" => ops[o].state = "superseded" \/ Written(o)',
         \A d \in Doc, o \in Op : gw'[d].marker = o =>
           gw[d].marker = o \/ (ops'[o].doc = d /\ Written(o)')
  PROVE  SentInv'
<1>1. /\ \A w \in wrote : ops'[w.op].started /\ (~Creates(w.op)' => w.base = Fence(w.op)' /\ w.base # 0)
      /\ \A m \in late : LateInv(m)'
      /\ \A o \in messages : Written(o)' /\ (Library(o)' \/ o \in commits')
  BY SentKept
<1>2. \A o : Written(o) => Written(o)'
  BY DEF Written
<1>3. ASSUME NEW d \in Doc, NEW o \in Op, gw'[d].marker = o
      PROVE  ops'[o].doc = d /\ Written(o)'
  <2>1. CASE gw[d].marker = o
    <3>1. ops[o].doc = d /\ Written(o)
      BY <2>1 DEF SentInv
    <3>2. ops[o].started
      BY <3>1 DEF Written, SentInv
    <3>3. ops'[o].doc = ops[o].doc
      BY <3>2, StartedUsed DEF Kept
    <3> QED
      BY <1>2, <3>1, <3>3
  <2> QED
    BY <1>3, <2>1
<1>4. /\ \A o \in Op : ops[o].state = "published" => o \in messages
      /\ \A o \in Op : ops[o].state = "superseded" => Written(o)
  BY DEF SentInv
<1>5. /\ \A o \in Op : ops'[o].state = "published" => o \in messages'
      /\ \A o \in Op : ops'[o].state = "superseded" => Written(o)'
  BY <1>2, <1>4
<1>6. \A w \in wrote' : ops'[w.op].started /\ (~Creates(w.op)' => w.base = Fence(w.op)' /\ w.base # 0)
  BY <1>1
<1>7. \A m \in late' : LateInv(m)'
  BY <1>1
<1>8. \A o \in messages' : Written(o)' /\ (Library(o)' \/ o \in commits')
  BY <1>1
<1> QED
  BY <1>3, <1>5, <1>6, <1>7, <1>8 DEF SentInv

-----------------------------------------------------------------------------
(* Records, replacements and rows.                                          *)

LEMMA RecordStep ==
  ASSUME TypeOK, RecordInv, Kept, wrote \subseteq wrote',
         \A d \in Doc : gw'[d].rev \in Nat /\ gw[d].rev <= gw'[d].rev /\ (gw'[d].live => gw'[d].rev > 0),
         purged' \subseteq Doc, \A d \in purged' \ purged : gw[d].rev > 0,
         \A p \in Op : Free(p) /\ ~Free(p)' /\ Creates(p)' =>
           /\ gw'[ops'[p].doc].rev = 0
           /\ \A q \in Op \ {p} : ~Free(q)' => ops'[q].doc # ops'[p].doc \/ ~Creates(q)',
         \A p \in Op : Free(p) /\ Free(p)' => ops'[p] = ops[p],
         \A p \in Op : ~Free(p) /\ Creates(p) /\ gw[ops[p].doc].rev = 0 /\ gw'[ops[p].doc].rev > 0 => Written(p)',
         \A o \in Op : ops'[o].kind = "create" /\ ops'[o].state = "cancelled" =>
           ops[o].state = "cancelled" \/ gw'[ops'[o].doc].rev > 0
  PROVE  RecordInv'
<1>1. \A o : Written(o) => Written(o)'
  BY DEF Written
<1>2. \A p \in Op : ~Free(p) => /\ Creates(p)' <=> Creates(p)
                               /\ ops'[p].doc = ops[p].doc /\ ops[p].doc \in Doc /\ ~Free(p)'
                               /\ ops'[p].kind = ops[p].kind
  BY RowFacts DEF Kept, Creates
<1>3. \A d \in Doc : gw[d].rev \in Nat
  BY DEF TypeOK, Record
<1>4. ASSUME NEW d \in purged' PROVE gw'[d].rev > 0
  BY <1>3, <1>4 DEF RecordInv
<1>5. ASSUME NEW p \in Op, NEW q \in Op, Creates(p)', Creates(q)', ~Free(p)', ~Free(q)',
             ops'[p].doc = ops'[q].doc
      PROVE  p = q
  <2>1. CASE Free(p) \/ Free(q)
    BY <1>5, <2>1
  <2>2. CASE ~Free(p) /\ ~Free(q)
    BY <1>2, <1>5, <2>2 DEF RecordInv
  <2> QED
    BY <2>1, <2>2
<1>6. ASSUME NEW o \in Op, ~Free(o)', Creates(o)', gw'[ops'[o].doc].rev > 0
      PROVE  Written(o)'
  <2>1. ~Free(o)
    BY <1>6
  <2>2. CASE gw[ops[o].doc].rev > 0
    BY <1>1, <1>2, <1>6, <2>1, <2>2 DEF RecordInv
  <2>3. CASE gw[ops[o].doc].rev = 0
    BY <1>2, <1>6, <2>1, <2>3
  <2> QED
    BY <1>2, <1>3, <2>1, <2>2, <2>3
<1>7. ASSUME NEW o \in Op, ops'[o].kind = "create", ops'[o].state = "cancelled"
      PROVE  gw'[ops'[o].doc].rev > 0
  <2>1. CASE ops[o].state = "cancelled"
    <3>1. ~Free(o)
      BY <2>1 DEF Free
    <3> QED
      BY <1>2, <1>3, <1>7, <2>1, <3>1 DEF RecordInv
  <2> QED
    BY <1>7, <2>1
<1> QED
  BY <1>4, <1>5, <1>6, <1>7 DEF RecordInv

LEMMA ReplaceStep ==
  ASSUME TypeOK, RowsInv, ReplaceInv, Kept, wrote \subseteq wrote',
         \A o, r \in Op : Free(o) /\ ops'[o].replaces = r =>
           /\ r < o /\ ~Free(o)' /\ ~Free(r)' /\ ops'[r].kind = "create" /\ ops'[r].gen = ops'[o].gen
           /\ ~ops'[o].started,
         \A o, r \in Op : ops'[o].started /\ ~ops[o].started /\ ops[o].replaces = r => Written(r)'
  PROVE  ReplaceInv'
<1>1. \A o : Written(o) => Written(o)'
  BY DEF Written
<1> SUFFICES ASSUME NEW o \in Op, NEW r \in Op, ops'[o].replaces = r
             PROVE  /\ r < o /\ ~Free(o)' /\ ~Free(r)' /\ ops'[r].kind = "create" /\ ops'[r].gen = ops'[o].gen
                    /\ ops'[o].started => Written(r)'
  BY DEF ReplaceInv
<1>2. CASE Free(o)
  BY <1>2
<1>3. CASE ~Free(o)
  BY <1>1, <1>3 DEF ReplaceInv, Kept
<1> QED
  BY <1>2, <1>3

LEMMA RowsStep ==
  ASSUME TypeOK, RowsInv, Kept, generation' \in Nat, generation <= generation',
         \A p \in Op : ops'[p] = ops[p] \/ RowInv(p)'
  PROVE  RowsInv'
<1> SUFFICES ASSUME NEW o \in Op, ops'[o] = ops[o] PROVE RowInv(o)'
  BY DEF RowsInv
<1>1. ops[o].gen \in Nat /\ generation \in Nat
  BY RowFacts DEF TypeOK
<1> QED
  BY <1>1 DEF RowsInv, RowInv, Creates

-----------------------------------------------------------------------------
(* The forms preserve the invariant.                                        *)

LEMMA ClosesInv ==
  ASSUME IInv, NEW o \in Op, NEW s, NEW c, NEW n, Closes(o, s, c, n), ~Free(o),
         s = "preview" => ops[o].state = "preview",
         ops[o].started => s # "preview",
         ops[o].withdrawn => s = "cancelled",
         n # 0 => s \in {"published", "superseded", "cancelled"},
         s = "blocked" /\ ops[o].kind = "create" => ops[o].gen < generation,
         s = "published" => o \in messages,
         s = "superseded" => Written(o),
         s = "cancelled" /\ ops[o].kind = "create" => gw[ops[o].doc].rev > 0
  PROVE  IInv'
<1> USE DEF IInv
<1>1. Kept /\ ~Free(o)' /\ tx' = Idle /\ Local
  BY DEF Closes, Kept
<1>2. UNCHANGED <<gw, proj, generation, purged, late, wrote, commits, messages>>
  BY <1>1 DEF Local
<1>3. TypeOK'
  <2>1. tx' \in [phase : Phases, op : Op \cup {NoOp}, rev : Nat] /\ tx'.phase \notin Publishing
    BY <1>1 DEF Idle, Phases, Publishing
  <2>2. \A p \in Op : ops'[p].doc = NoDoc <=> Free(p)'
    BY <1>1 DEF Closes, Kept, TypeOK, Free
  <2> QED
    BY <1>1, <1>2, <2>1, <2>2 DEF TypeOK, Kept
<1>4. RowsInv'
  <2>1. RowInv(o)'
    BY <1>1, <1>2 DEF RowsInv, RowInv, Closes, Kept, Free, Creates
  <2> QED
    BY <1>1, <1>2, <2>1, RowsStep DEF Closes, TypeOK
<1>5. TxInv'
  BY <1>1, TxIdle
<1>6. SentInv'
  <2>1. \A p : Written(p)' <=> Written(p)
    BY <1>2 DEF Written
  <2> QED
    BY <1>1, <1>2, <2>1, SentStep DEF Closes
<1>7. RecordInv'
  <2>1. \A d \in Doc : gw[d].rev \in Nat /\ (gw[d].live => gw[d].rev > 0)
    BY DEF RecordInv, TypeOK, Record
  <2>2. purged \subseteq Doc
    BY DEF TypeOK
  <2>3. \A p \in Op : Free(p) => Free(p)' /\ ops'[p] = ops[p]
    BY DEF Closes, Free
  <2>4. \A p \in Op : ops'[p].kind = "create" /\ ops'[p].state = "cancelled" =>
           ops[p].state = "cancelled" \/ gw[ops'[p].doc].rev > 0
    BY <1>1 DEF Closes, Kept
  <2>5. \A p \in Op : ~(gw[ops[p].doc].rev = 0 /\ gw[ops[p].doc].rev > 0)
    OBVIOUS
  <2> QED
    BY <1>1, <1>2, <2>1, <2>2, <2>3, <2>4, <2>5, RecordStep
<1>8. ReplaceInv'
  <2>1. \A p \in Op : ops'[p].started = ops[p].started /\ (Free(p) => ops'[p] = ops[p])
    BY DEF Closes
  <2>2. \A p, r \in Op : Free(p) => ops[p].replaces # r
    BY DEF ReplaceInv
  <2> QED
    BY <1>1, <1>2, <2>1, <2>2, ReplaceStep
<1> QED
  BY <1>3, <1>4, <1>5, <1>6, <1>7, <1>8

LEMMA AddsInv ==
  ASSUME IInv, NEW S \in SUBSET Op, Adds(S),
         \A p \in S : ops'[p].state = "preview" => ~Creates(p)',
         \A p \in S : Creates(p)' =>
           /\ gw[ops'[p].doc].rev = 0
           /\ \A q \in Op \ {p} : ~Free(q)' => ops'[q].doc # ops'[p].doc \/ ~Creates(q)',
         \A p \in S, r \in Op : ops'[p].replaces = r => r < p /\ r \in S /\ ops'[r].kind = "create"
  PROVE  IInv'
<1> USE DEF IInv
<1>1. Kept /\ UNCHANGED <<gw, proj, generation, purged, tx, late, wrote, commits, messages>>
  BY DEF Adds, OwnerOnly
<1>2. \A p \in S : Free(p) /\ ~Free(p)'
  BY DEF Adds, Free
<1>3. TypeOK'
  <2>1. \A p \in Op : ops'[p].doc = NoDoc <=> Free(p)'
    BY OpFacts DEF Adds, TypeOK, Free
  <2>2. tx.phase \in Publishing => Due(tx.op)' /\ tx.op \in Op /\ ops'[tx.op].started
    <3> SUFFICES ASSUME tx.phase \in Publishing
                 PROVE  Due(tx.op)' /\ tx.op \in Op /\ ops'[tx.op].started
      OBVIOUS
    <3>1. tx.op \in Op /\ Due(tx.op) /\ ops[tx.op].started
      BY DEF TypeOK
    <3>2. ops'[tx.op] = ops[tx.op]
      BY <1>2, <3>1 DEF Adds, Due, Free
    <3> QED
      BY <1>1, <3>1, <3>2 DEF Due
  <2> QED
    BY <1>1, <2>1, <2>2 DEF TypeOK, Kept
<1>4. RowsInv'
  <2>1. \A p \in S : RowInv(p)'
    <3> SUFFICES ASSUME NEW p \in S PROVE RowInv(p)'
      OBVIOUS
    <3>1. generation \in Nat /\ ops'[p].gen = generation
      BY DEF Adds, TypeOK
    <3> QED
      BY <1>1, <3>1 DEF Adds, RowInv
  <2> QED
    BY <1>1, <2>1, RowsStep DEF Adds, TypeOK
<1>5. TxInv'
  BY <1>1, TxKept
<1>6. SentInv'
  BY <1>1, SentStep DEF Adds
<1>7. RecordInv'
  <2>1. \A d \in Doc : gw[d].rev \in Nat /\ (gw[d].live => gw[d].rev > 0)
    BY DEF RecordInv, TypeOK, Record
  <2>2. purged \subseteq Doc
    BY DEF TypeOK
  <2>3. \A p \in Op : Free(p) /\ Free(p)' => ops'[p] = ops[p]
    BY <1>2 DEF Adds
  <2>4. \A p \in Op : ops'[p].state = "cancelled" => ops[p].state = "cancelled"
    BY DEF Adds
  <2>5. \A p \in Op : ~(gw[ops[p].doc].rev = 0 /\ gw[ops[p].doc].rev > 0)
    OBVIOUS
  <2>6. \A p \in Op : Free(p) /\ ~Free(p)' => p \in S
    BY DEF Adds, Free
  <2> QED
    BY <1>1, <2>1, <2>2, <2>3, <2>4, <2>5, <2>6, RecordStep
<1>8. ReplaceInv'
  <2>1. \A p, r \in Op : Free(p) => ops[p].replaces # r
    BY DEF ReplaceInv
  <2>2. \A p \in Op \ S : ops'[p] = ops[p]
    BY DEF Adds
  <2>3. \A p \in S : ~ops'[p].started /\ ops'[p].gen = generation
    BY DEF Adds
  <2>4. \A p, r \in Op : Free(p) /\ ops'[p].replaces = r => p \in S /\ r \in S
    BY <2>1, <2>2
  <2>5. \A p \in Op : ops'[p].started => ops[p].started
    BY <2>2, <2>3
  <2> QED
    BY <1>1, <1>2, <2>3, <2>4, <2>5, ReplaceStep
<1> QED
  BY <1>3, <1>4, <1>5, <1>6, <1>7, <1>8

\* The owner changes the state of used rows.
LEMMA StatesInv ==
  ASSUME IInv, Kept, UNCHANGED <<gw, proj, generation, tx, late, wrote, commits, messages>>,
         purged \subseteq purged', purged' \subseteq Doc, \A d \in purged' \ purged : gw[d].rev > 0,
         LockFree \/ (purged' = purged /\ ops'[tx.op] = ops[tx.op]),
         \A p \in Op : \/ ops'[p] = ops[p]
                       \/ /\ ~Free(p) /\ RowInv(p)' /\ ops'[p].started = ops[p].started
                          /\ ops'[p].state \in {"queued", "cancelled"}
                          /\ ops'[p].state = "cancelled" /\ ops[p].kind = "create" => gw[ops[p].doc].rev > 0
  PROVE  IInv'
<1> USE DEF IInv
<1>1. \A p \in Op : (Free(p) <=> Free(p)') /\ (Free(p) => ops'[p] = ops[p]) /\ ops'[p].started = ops[p].started
  BY DEF Kept, Free
<1>2. TypeOK'
  <2>1. \A p \in Op : ops'[p].doc = NoDoc <=> Free(p)'
    BY <1>1 DEF TypeOK, Kept
  <2>2. tx.phase \in Publishing => ~LockFree
    BY DEF Publishing, LockFree
  <2>3. tx.phase \in Publishing => tx.op \in Op /\ Due(tx.op)' /\ ops'[tx.op].started
    BY <2>2 DEF TypeOK, Due
  <2> QED
    BY <2>1, <2>3 DEF TypeOK, Kept
<1>3. RowsInv'
  BY RowsStep DEF TypeOK
<1>4. TxInv'
  BY TxKept
<1>5. SentInv'
  BY SentStep
<1>6. RecordInv'
  <2>1. \A d \in Doc : gw[d].rev \in Nat /\ (gw[d].live => gw[d].rev > 0)
    BY DEF RecordInv, TypeOK, Record
  <2>2. \A p \in Op : ops'[p].kind = "create" /\ ops'[p].state = "cancelled" =>
           ops[p].state = "cancelled" \/ gw[ops'[p].doc].rev > 0
    BY DEF Kept
  <2>3. \A p \in Op : ~(gw[ops[p].doc].rev = 0 /\ gw[ops[p].doc].rev > 0)
    OBVIOUS
  <2> QED
    BY <1>1, <2>1, <2>2, <2>3, RecordStep
<1>7. ReplaceInv'
  <2>1. \A p, r \in Op : Free(p) => ops[p].replaces # r
    BY DEF ReplaceInv
  <2> QED
    BY <1>1, <2>1, ReplaceStep
<1> QED
  BY <1>2, <1>3, <1>4, <1>5, <1>6, <1>7

\* One new row.
LEMMA AddsRow ==
  ASSUME IInv, NEW o \in Op, Free(o), NEW row \in OpRow, OwnerOnly, ops' = [ops EXCEPT ![o] = row],
         row.state \in {"queued", "preview"}, row.doc \in Doc, ~row.started, ~row.withdrawn,
         row.published = 0, row.code = "none", row.gen = generation, row.replaces = 0,
         row.kind \in {"create", "shelf"} => row.state = "queued" /\ Fresh(row.doc)
  PROVE  IInv'
<1>1. /\ Kept /\ ops'[o] = row
      /\ \A p \in Op \ {o} : ops'[p] = ops[p]
  BY RowSet DEF IInv
<1>2. Adds({o})
  BY <1>1 DEF Adds
<1>3. ASSUME Creates(o)'
      PROVE  /\ gw[ops'[o].doc].rev = 0
             /\ \A q \in Op \ {o} : ~Free(q)' => ops'[q].doc # ops'[o].doc \/ ~Creates(q)'
  BY <1>1, <1>3 DEF Creates, Fresh, Free
<1>4. ops'[o].state = "preview" => ~Creates(o)'
  BY <1>1 DEF Creates
<1>5. \A r \in Op : ops'[o].replaces # r
  BY <1>1, OpFacts
<1> QED
  BY <1>2, <1>3, <1>4, <1>5, AddsInv

-----------------------------------------------------------------------------
(* The owner.                                                               *)

LEMMA EditInv == ASSUME IInv, NEW o \in Op, NEW d \in Doc, QueueEdit(o, d) PROVE IInv'
<1> DEFINE new == New("edit", d, "queued")
           row == [new EXCEPT !.expected = proj[d].rev]
<1>1. /\ new \in OpRow /\ new.state = "queued" /\ new.kind = "edit" /\ new.doc = d
      /\ new.gen = generation /\ new.published = 0 /\ new.replaces = 0
      /\ ~new.started /\ ~new.withdrawn /\ new.code = "none"
  BY NewRow DEF Kinds, States, IInv
<1>2. proj[d].rev \in Nat
  BY DEF IInv, TypeOK, Record
<1> HIDE DEF new
<1>3. /\ row \in OpRow /\ row.state = "queued" /\ row.kind = "edit" /\ row.doc = d
      /\ row.gen = generation /\ row.published = 0 /\ row.replaces = 0
      /\ ~row.started /\ ~row.withdrawn /\ row.code = "none"
  BY <1>1, <1>2 DEF OpRow
<1>4. Free(o) /\ OwnerOnly /\ ops' = [ops EXCEPT ![o] = row]
  BY DEF QueueEdit, NextFree, new
<1> HIDE DEF row
<1> QED
  BY <1>3, <1>4, AddsRow

LEMMA PreviewInv ==
  ASSUME IInv, NEW o \in Op, NEW d \in Doc, NEW k \in {"edit", "repair"}, Preview(o, k, d)
  PROVE  IInv'
<1> DEFINE new == New(k, d, "preview")
           row == [new EXCEPT !.expected = proj[d].rev]
<1>1. /\ new \in OpRow /\ new.state = "preview" /\ new.kind = k /\ new.doc = d
      /\ new.gen = generation /\ new.published = 0 /\ new.replaces = 0
      /\ ~new.started /\ ~new.withdrawn /\ new.code = "none"
  BY NewRow DEF Kinds, States, IInv
<1>2. proj[d].rev \in Nat
  BY DEF IInv, TypeOK, Record
<1> HIDE DEF new
<1>3. /\ row \in OpRow /\ row.state = "preview" /\ row.kind = k /\ row.doc = d
      /\ row.gen = generation /\ row.published = 0 /\ row.replaces = 0
      /\ ~row.started /\ ~row.withdrawn /\ row.code = "none"
  BY <1>1, <1>2 DEF OpRow
<1>4. Free(o) /\ OwnerOnly /\ ops' = [ops EXCEPT ![o] = row]
  BY DEF Preview, NextFree, new
<1> HIDE DEF row
<1> QED
  BY <1>3, <1>4, AddsRow

LEMMA CreateInv ==
  ASSUME IInv, NEW o \in Op, NEW d \in Doc, NEW k \in {"create", "shelf"}, QueueCreate(o, k, d)
  PROVE  IInv'
<1> DEFINE new == New(k, d, "queued")
<1>1. /\ new \in OpRow /\ new.state = "queued" /\ new.kind = k /\ new.doc = d
      /\ new.gen = generation /\ new.published = 0 /\ new.replaces = 0
      /\ ~new.started /\ ~new.withdrawn /\ new.code = "none"
  BY NewRow DEF Kinds, States, IInv
<1>2. Free(o) /\ OwnerOnly /\ ops' = [ops EXCEPT ![o] = new] /\ Fresh(d)
  BY DEF QueueCreate, NextFree
<1> HIDE DEF new
<1> QED
  BY <1>1, <1>2, AddsRow

LEMMA ChangeInv == ASSUME IInv, NEW o \in Op, NEW d \in Doc, QueueChange(o, d) PROVE IInv'
<1> DEFINE new == New("change", d, "queued")
<1>1. /\ new \in OpRow /\ new.state = "queued" /\ new.kind = "change" /\ new.doc = d
      /\ new.gen = generation /\ new.published = 0 /\ new.replaces = 0
      /\ ~new.started /\ ~new.withdrawn /\ new.code = "none"
  BY NewRow DEF Kinds, States, IInv
<1>2. proj[d].rev \in Nat
  BY DEF IInv, TypeOK, Record
<1>3. Free(o) /\ OwnerOnly
  BY DEF QueueChange, NextFree
<1>4. \/ ops' = [ops EXCEPT ![o] = [new EXCEPT !.expected = proj[d].rev]]
      \/ \E last \in Op : ops' = [ops EXCEPT ![o] = [new EXCEPT !.after = last]]
  BY DEF QueueChange
<1> HIDE DEF new
<1>5. ASSUME NEW row \in OpRow, ops' = [ops EXCEPT ![o] = row],
             row.state = "queued", row.kind = "change", row.doc = d,
             row.gen = generation, row.published = 0, row.replaces = 0,
             ~row.started, ~row.withdrawn, row.code = "none"
      PROVE  IInv'
  BY <1>3, <1>5, AddsRow
<1>6. CASE ops' = [ops EXCEPT ![o] = [new EXCEPT !.expected = proj[d].rev]]
  <2> DEFINE row == [new EXCEPT !.expected = proj[d].rev]
  <2>1. /\ row \in OpRow /\ row.state = "queued" /\ row.kind = "change" /\ row.doc = d
        /\ row.gen = generation /\ row.published = 0 /\ row.replaces = 0
        /\ ~row.started /\ ~row.withdrawn /\ row.code = "none"
    BY <1>1, <1>2 DEF OpRow
  <2> QED
    BY <1>5, <1>6, <2>1
<1>7. ASSUME NEW last \in Op, ops' = [ops EXCEPT ![o] = [new EXCEPT !.after = last]] PROVE IInv'
  <2> DEFINE row == [new EXCEPT !.after = last]
  <2>1. /\ row \in OpRow /\ row.state = "queued" /\ row.kind = "change" /\ row.doc = d
        /\ row.gen = generation /\ row.published = 0 /\ row.replaces = 0
        /\ ~row.started /\ ~row.withdrawn /\ row.code = "none"
    BY <1>1 DEF OpRow
  <2> QED
    BY <1>5, <1>7, <2>1
<1> QED
  BY <1>4, <1>6, <1>7

\* The old note's retirement takes the row behind the new one's.
LEMMA ReplacementInv ==
  ASSUME IInv, NEW o \in Op, NEW d \in Doc, NEW old \in Doc, QueueReplacement(o, d, old)
  PROVE  IInv'
<1> DEFINE new == New("create", d, "queued")
           plain == New("edit", old, "queued")
           retired == [plain EXCEPT !.expected = proj[old].rev, !.replaces = o]
<1>1. /\ new \in OpRow /\ new.state = "queued" /\ new.kind = "create" /\ new.doc = d
      /\ new.gen = generation /\ new.published = 0 /\ new.replaces = 0
      /\ ~new.started /\ ~new.withdrawn /\ new.code = "none"
  BY NewRow DEF Kinds, States, IInv
<1>2. /\ plain \in OpRow /\ plain.state = "queued" /\ plain.kind = "edit" /\ plain.doc = old
      /\ plain.gen = generation /\ plain.published = 0
      /\ ~plain.started /\ ~plain.withdrawn /\ plain.code = "none"
  BY NewRow DEF Kinds, States, IInv
<1>3. proj[old].rev \in Nat
  BY DEF IInv, TypeOK, Record
<1>4. /\ o + 1 \in Op /\ Free(o) /\ Free(o + 1) /\ Fresh(d) /\ OwnerOnly
      /\ ops' = [ops EXCEPT ![o] = new, ![o + 1] = retired]
  BY DEF QueueReplacement, NextFree, RetireLast
<1> HIDE DEF new, plain
<1>5. /\ retired \in OpRow /\ retired.state = "queued" /\ retired.kind = "edit" /\ retired.doc = old
      /\ retired.gen = generation /\ retired.published = 0 /\ retired.replaces = o
      /\ ~retired.started /\ ~retired.withdrawn /\ retired.code = "none"
  BY <1>2, <1>3 DEF OpRow
<1> HIDE DEF retired
<1>6. o \in Nat /\ o + 1 # o
  BY OpFacts
<1>7. /\ ops' \in [Op -> OpRow] /\ ops'[o] = new /\ ops'[o + 1] = retired
      /\ \A p \in Op \ {o, o + 1} : ops'[p] = ops[p]
  BY <1>1, <1>4, <1>5, <1>6 DEF IInv, TypeOK
<1>8. Kept
  BY <1>4, <1>7 DEF Kept, Free
<1>9. Adds({o, o + 1})
  BY <1>1, <1>4, <1>5, <1>7, <1>8 DEF Adds
<1>10. ASSUME NEW p \in {o, o + 1}, Creates(p)'
       PROVE  /\ gw[ops'[p].doc].rev = 0
              /\ \A q \in Op \ {p} : ~Free(q)' => ops'[q].doc # ops'[p].doc \/ ~Creates(q)'
  <2>1. p = o
    BY <1>5, <1>7, <1>10 DEF Creates
  <2>2. gw[d].rev = 0 /\ \A q \in Op : ops[q].state # "none" => ops[q].doc # d
    BY <1>4 DEF Fresh
  <2> QED
    BY <1>1, <1>5, <1>7, <2>1, <2>2 DEF Creates, Free
<1>11. ASSUME NEW p \in {o, o + 1}, NEW r \in Op, ops'[p].replaces = r
       PROVE  r < p /\ r \in {o, o + 1} /\ ops'[r].kind = "create"
  BY <1>1, <1>5, <1>6, <1>7, <1>11, OpFacts
<1>12. \A p \in {o, o + 1} : ops'[p].state # "preview"
  BY <1>1, <1>5, <1>7
<1> QED
  BY <1>4, <1>9, <1>10, <1>11, <1>12, AddsInv

LEMMA ExecuteInv == ASSUME IInv, NEW o \in Op, Execute(o) PROVE IInv'
<1> DEFINE row == [ops[o] EXCEPT !.state = "queued"]
<1>1. ops[o] \in OpRow /\ ops[o].state = "preview"
  BY RowFacts DEF IInv, Execute
<1>2. row \in OpRow
  BY <1>1, RowWith DEF States
<1>3. /\ row.state = "queued" /\ row.published = ops[o].published
      /\ row.kind = ops[o].kind /\ row.doc = ops[o].doc /\ row.gen = ops[o].gen
      /\ row.expected = ops[o].expected /\ row.after = ops[o].after /\ row.replaces = ops[o].replaces
      /\ row.started = ops[o].started /\ row.withdrawn = ops[o].withdrawn
  BY <1>1 DEF OpRow
<1>4. OwnerOnly /\ ops' = [ops EXCEPT ![o] = row]
  BY DEF Execute
<1> HIDE DEF row
<1>5. Kept /\ ops'[o] = row /\ \A p \in Op \ {o} : ops'[p] = ops[p]
  BY <1>2, <1>3, <1>4, RowSet DEF IInv
<1>6. RowInv(o) /\ ~Free(o) /\ ~ops[o].started
  BY <1>1 DEF IInv, RowsInv, RowInv, Free
<1>7. RowInv(o)'
  BY <1>1, <1>2, <1>3, <1>4, <1>5, <1>6 DEF RowInv, OwnerOnly
<1>8. tx.phase \in Publishing => tx.op # o
  BY <1>1 DEF IInv, TypeOK, Due
<1>9. LockFree \/ ops'[tx.op] = ops[tx.op]
  BY <1>5, <1>8 DEF IInv, TypeOK, LockFree, Phases
<1> QED
  BY <1>2, <1>3, <1>4, <1>5, <1>6, <1>7, <1>9, StatesInv DEF OwnerOnly, IInv, TypeOK

LEMMA CancelInv == ASSUME IInv, NEW o \in Op, Cancel(o) PROVE IInv'
<1> DEFINE row == [ops[o] EXCEPT !.state = "cancelled", !.withdrawn = TRUE]
<1>1. ops[o] \in OpRow /\ ops[o].state = "queued" /\ ~ops[o].started /\ ops[o].kind = "edit"
  BY RowFacts DEF IInv, Cancel, Cancellable
<1>2. row \in OpRow
  BY <1>1, RowWith DEF States
<1>3. /\ row.state = "cancelled" /\ row.published = ops[o].published
      /\ row.kind = ops[o].kind /\ row.doc = ops[o].doc /\ row.gen = ops[o].gen
      /\ row.expected = ops[o].expected /\ row.after = ops[o].after /\ row.replaces = ops[o].replaces
      /\ row.started = ops[o].started
  BY <1>1 DEF OpRow
<1>4. OwnerOnly /\ ops' = [ops EXCEPT ![o] = row]
  BY DEF Cancel
<1> HIDE DEF row
<1>5. Kept /\ ops'[o] = row /\ \A p \in Op \ {o} : ops'[p] = ops[p]
  BY <1>2, <1>3, <1>4, RowSet DEF IInv
<1>6. RowInv(o) /\ ~Free(o)
  BY <1>1 DEF IInv, RowsInv, Free
<1>7. RowInv(o)'
  BY <1>1, <1>2, <1>3, <1>4, <1>5, <1>6 DEF RowInv, OwnerOnly
<1>8. tx.phase \in Publishing => tx.op # o
  BY <1>1 DEF IInv, TypeOK
<1>9. LockFree \/ ops'[tx.op] = ops[tx.op]
  BY <1>5, <1>8 DEF IInv, TypeOK, LockFree, Phases
<1> QED
  BY <1>1, <1>2, <1>3, <1>4, <1>5, <1>6, <1>7, <1>9, StatesInv DEF OwnerOnly, IInv, TypeOK

LEMMA PurgeInv == ASSUME IInv, NEW d \in Doc, AdmitPurge(d) PROVE IInv'
<1> USE DEF IInv
<1>1. /\ LockFree /\ gw[d].live /\ gw[d].rev > 0 /\ purged' = purged \cup {d}
      /\ UNCHANGED <<gw, proj, generation, tx, late, wrote, commits, messages>>
  BY DEF AdmitPurge, RecordInv
<1> DEFINE hit(p) == ops[p].doc = d /\ ops[p].state \notin {"none", "cancelled"}
           row(p) == [ops[p] EXCEPT !.state = "cancelled"]
<1>2. ops' = [p \in Op |-> IF hit(p) THEN row(p) ELSE ops[p]]
  BY DEF AdmitPurge
<1>3. ASSUME NEW p \in Op
      PROVE  /\ row(p) \in OpRow /\ row(p).state = "cancelled" /\ row(p).published = ops[p].published
             /\ row(p).kind = ops[p].kind /\ row(p).doc = ops[p].doc /\ row(p).gen = ops[p].gen
             /\ row(p).expected = ops[p].expected /\ row(p).after = ops[p].after
             /\ row(p).replaces = ops[p].replaces
             /\ row(p).started = ops[p].started /\ row(p).withdrawn = ops[p].withdrawn
             /\ ops[p] \in OpRow
  <2>1. ops[p] \in OpRow
    BY RowFacts
  <2>2. row(p) \in OpRow
    BY <2>1, RowWith DEF States
  <2>3. /\ row(p).state = "cancelled" /\ row(p).published = ops[p].published
        /\ row(p).kind = ops[p].kind /\ row(p).doc = ops[p].doc /\ row(p).gen = ops[p].gen
        /\ row(p).expected = ops[p].expected /\ row(p).after = ops[p].after
        /\ row(p).replaces = ops[p].replaces
        /\ row(p).started = ops[p].started /\ row(p).withdrawn = ops[p].withdrawn
    BY <2>1 DEF OpRow
  <2> HIDE DEF row
  <2> QED
    BY <2>1, <2>2, <2>3
<1> HIDE DEF row
<1>4. Kept
  BY <1>2, <1>3 DEF Kept, Free
<1>5. ASSUME NEW p \in Op
      PROVE  \/ ops'[p] = ops[p]
             \/ /\ ~Free(p) /\ RowInv(p)' /\ ops'[p].started = ops[p].started
                /\ ops'[p].state = "cancelled"
                /\ ops[p].kind = "create" => gw[ops[p].doc].rev > 0
  <2>1. CASE ~hit(p)
    BY <1>2, <2>1
  <2>2. CASE hit(p)
    <3>1. ops'[p] = row(p) /\ ~Free(p) /\ RowInv(p) /\ ops[p].doc = d
      BY <1>2, <2>2 DEF RowsInv, Free
    <3>2. RowInv(p)'
      BY <1>1, <1>3, <2>2, <3>1 DEF RowInv
    <3> QED
      BY <1>1, <1>3, <3>1, <3>2
  <2> QED
    BY <2>1, <2>2
<1> HIDE DEF hit
<1>6. purged' \subseteq Doc
  BY <1>1 DEF TypeOK
<1> QED
  BY <1>1, <1>4, <1>5, <1>6, StatesInv

-----------------------------------------------------------------------------
(* PublishOne.                                                              *)

LEMMA PartsSame ==
  ASSUME RowsInv, SentInv, RecordInv, ReplaceInv,
         UNCHANGED <<gw, ops, generation, purged, late, wrote, commits, messages>>
  PROVE  RowsInv' /\ SentInv' /\ RecordInv' /\ ReplaceInv'
<1>1. RowsInv'
  BY DEF RowsInv, RowInv, Creates
<1>2. \A o : /\ Written(o)' <=> Written(o)
             /\ Creates(o)' <=> Creates(o)
             /\ Library(o)' <=> Library(o)
             /\ Fence(o)' = Fence(o)
             /\ Free(o)' <=> Free(o)
  BY DEF Written, Creates, Library, Fence, Free
<1>3. SentInv'
  BY <1>2 DEF SentInv, LateInv
<1>4. RecordInv'
  BY <1>2 DEF RecordInv
<1>5. ReplaceInv'
  BY <1>2 DEF ReplaceInv
<1> QED
  BY <1>1, <1>3, <1>4, <1>5

LEMMA MovesInv ==
  ASSUME IInv, NEW o \in Op, NEW rev, NEW phase \in Publishing, Moves(o, rev, phase),
         Due(o), ops[o].started, Current(o), ops[o].doc \notin purged,
         phase = "lookup" => Creates(o),
         phase = "read" => ~Creates(o),
         phase = "put" => IF Creates(o) THEN rev = 0 ELSE rev = Fence(o) /\ rev # 0,
         phase \in {"reread", "commit", "message", "finish"} => Written(o),
         phase \in {"message", "finish"} => Library(o) \/ o \in commits,
         phase = "finish" => o \in messages
  PROVE  IInv'
<1> USE DEF IInv
<1>1. UNCHANGED <<gw, proj, ops, generation, purged, late, wrote, commits, messages>>
  BY DEF Moves, Local
<1>2. /\ Written(o)' <=> Written(o)
      /\ Creates(o)' <=> Creates(o)
      /\ Library(o)' <=> Library(o)
      /\ Current(o)' <=> Current(o)
      /\ Fence(o)' = Fence(o)
  BY <1>1 DEF Written, Creates, Library, Fence, Current
<1>3. TxInv'
  BY <1>1, <1>2, TxMoves DEF Moves
<1>4. TypeOK'
  BY <1>1 DEF Moves, TypeOK, Free, Due
<1> QED
  BY <1>1, <1>3, <1>4, PartsSame

LEMMA PhaseFacts ==
  ASSUME IInv, NEW o \in Op, tx.op = o, tx.phase \in Publishing
  PROVE  /\ Due(o) /\ ~Free(o) /\ ops[o].started /\ Current(o) /\ ops[o].doc \notin purged
         /\ ops[o].doc \in Doc /\ ~ops[o].withdrawn /\ ops[o].published = 0
         /\ tx.rev \in Nat /\ gw[ops[o].doc].rev \in Nat
<1>1. Due(o) /\ ops[o].started /\ Current(o) /\ ops[o].doc \notin purged
  BY DEF IInv, TypeOK, TxInv
<1>2. ~Free(o)
  BY <1>1 DEF Due, Free
<1>3. ops[o].doc \in Doc
  BY <1>2, RowFacts DEF IInv
<1>4. ~ops[o].withdrawn /\ ops[o].published = 0
  BY <1>1, RowFacts DEF IInv, RowsInv, RowInv, Due
<1> QED
  BY <1>1, <1>2, <1>3, <1>4 DEF IInv, TypeOK, Record

LEMMA MovesTo ==
  ASSUME IInv, NEW o \in Op, tx.op = o, NEW phase \in Phases, NEW rev \in Nat, UNCHANGED ops, Local
  PROVE  /\ Holding(rev, phase) => Moves(o, rev, phase)
         /\ To(phase) => Moves(o, tx.rev, phase)
BY DEF IInv, TypeOK, Holding, To, Moves

\* An open transaction may always fail.
LEMMA RollbackInv == ASSUME IInv, Rollback PROVE IInv'
<1>1. UNCHANGED <<gw, proj, ops, generation, purged, late, wrote, commits, messages>> /\ tx' = Idle
  BY DEF Rollback, Local
<1>2. TypeOK'
  BY <1>1 DEF IInv, TypeOK, Free, Idle, Phases, Publishing
<1> QED
  BY <1>1, <1>2, PartsSame, TxIdle DEF IInv

\* An operation of another generation is blocked.
LEMMA ReplacedInv ==
  ASSUME IInv, NEW o \in Op, Due(o), ~Current(o), Block(o, "replaced")
  PROVE  IInv'
<1>1. ~Free(o) /\ ~ops[o].withdrawn /\ ops[o].published = 0
  BY RowFacts DEF Due, Free, IInv, RowsInv, RowInv
<1>2. Closes(o, "blocked", "replaced", ops[o].published)
  BY <1>1, BlockCloses DEF IInv
<1>3. ops[o].gen < generation
  BY RowFacts DEF Current, IInv, RowsInv, RowInv, TypeOK
<1> QED
  BY <1>1, <1>2, <1>3, ClosesInv

LEMMA StartInv == ASSUME IInv, NEW o \in Op, Start(o) PROVE IInv'
<1> USE DEF IInv
<1>1. tx = Idle /\ Head(o) /\ ~ops[o].started /\ Due(o)
  BY DEF Start, Head
<1>2. CASE ~Current(o)
  BY <1>1, <1>2, ReplacedInv DEF Start
<1>3. CASE Current(o)
  <2> DEFINE row == [ops[o] EXCEPT !.started = TRUE]
  <2>1. ops[o] \in OpRow /\ ~Free(o) /\ ~ops[o].withdrawn
    BY <1>1, RowFacts DEF Due, Free, RowsInv, RowInv
  <2>2. row \in OpRow
    BY <2>1, RowWith DEF States
  <2>3. /\ row.state = ops[o].state /\ row.published = ops[o].published
        /\ row.kind = ops[o].kind /\ row.doc = ops[o].doc /\ row.gen = ops[o].gen
        /\ row.expected = ops[o].expected /\ row.after = ops[o].after /\ row.replaces = ops[o].replaces
        /\ row.started /\ row.withdrawn = ops[o].withdrawn
    BY <2>1 DEF OpRow
  <2>4. ops' = [ops EXCEPT ![o] = row] /\ Local /\ tx' = [Idle EXCEPT !.phase = "selected", !.op = o]
    BY <1>3 DEF Start
  <2> HIDE DEF row
  <2>5. Kept /\ ops'[o] = row /\ \A p \in Op \ {o} : ops'[p] = ops[p]
    BY <2>1, <2>2, <2>3, <2>4, RowSet DEF Free
  <2>6. tx'.phase = "selected" /\ tx'.op = o /\ tx'.rev = 0
    BY <2>4 DEF Idle
  <2>7. UNCHANGED <<gw, proj, generation, purged, late, wrote, commits, messages>>
    BY <2>4 DEF Local
  <2>8. TypeOK'
    <3>1. tx' \in [phase : Phases, op : Op \cup {NoOp}, rev : Nat] /\ tx'.phase \notin Publishing
      BY <2>4 DEF Idle, Phases, Publishing
    <3>2. \A p \in Op : ops'[p].doc = NoDoc <=> Free(p)'
      BY <2>3, <2>5 DEF TypeOK, Free
    <3> QED
      BY <2>5, <2>7, <3>1, <3>2 DEF TypeOK, Kept
  <2>9. RowsInv'
    <3>1. RowInv(o)'
      BY <1>1, <2>1, <2>3, <2>5, <2>7 DEF RowsInv, RowInv, Due, Creates
    <3> QED
      BY <2>5, <2>7, <3>1, RowsStep DEF TypeOK
  <2>10. TxInv'
    BY <2>3, <2>5, <2>6 DEF TxInv, Publishing
  <2>11. SentInv'
    <3>1. \A p \in Op : ops'[p].state = ops[p].state
      BY <2>3, <2>5
    <3> QED
      BY <2>5, <2>7, <3>1, SentStep
  <2>12. RecordInv'
    <3>1. \A d \in Doc : gw[d].rev \in Nat /\ (gw[d].live => gw[d].rev > 0)
      BY DEF RecordInv, TypeOK, Record
    <3>2. \A p \in Op : ops'[p].state = ops[p].state /\ (Free(p) => ops'[p] = ops[p])
      BY <2>1, <2>3, <2>5
    <3>3. \A p \in Op : ~(gw[ops[p].doc].rev = 0 /\ gw[ops[p].doc].rev > 0)
      OBVIOUS
    <3> QED
      BY <2>5, <2>7, <3>1, <3>2, <3>3, RecordStep DEF TypeOK, Free
  <2>13. ReplaceInv'
    <3>1. \A p, r \in Op : Free(p) => ops[p].replaces # r
      BY DEF ReplaceInv
    <3>2. ASSUME NEW r \in Op, ops[o].replaces = r PROVE Written(r)'
      <4>1. r < o /\ ops[r].kind = "create" /\ ops[r].gen = generation /\ ~Free(r)
        BY <1>3, <3>2 DEF ReplaceInv, Current
      <4>2. ~Due(r)
        BY <1>1, <4>1, OpFacts DEF Head
      <4>3. ops[r].state \in {"published", "superseded", "cancelled"}
        <5>1. ops[r].state \notin {"preview", "blocked"}
          BY <4>1 DEF RowsInv, RowInv, Creates, TypeOK
        <5> QED
          BY <4>1, <4>2, <5>1, RowFacts DEF Due, Free, States
      <4>4. Written(r)
        BY <4>1, <4>3 DEF SentInv, RecordInv, Creates
      <4> QED
        BY <2>7, <4>4 DEF Written
    <3> QED
      BY <2>1, <2>5, <2>7, <3>1, <3>2, ReplaceStep
  <2> QED
    BY <2>8, <2>9, <2>10, <2>11, <2>12, <2>13
<1> QED
  BY <1>2, <1>3

LEMMA OpenInv == ASSUME IInv, NEW o \in Op, Open(o) PROVE IInv'
<1>1. ops[o].started /\ ~ops[o].withdrawn
  BY DEF Open, IInv, TxInv, RowsInv, RowInv
<1>2. CASE ~Due(o)
  BY <1>2, RollbackInv DEF Open
<1>3. CASE Due(o) /\ ~Current(o)
  BY <1>3, ReplacedInv DEF Open
<1>4. CASE Due(o) /\ Current(o) /\ ops[o].doc \in purged
  <2>1. ~Free(o) /\ ops[o].published = 0
    BY <1>4, RowFacts DEF Due, Free, IInv, RowsInv, RowInv
  <2>2. "cancelled" \in States \ {"none"} /\ End(o, [ops[o] EXCEPT !.state = "cancelled"])
    BY <1>4 DEF Open, States
  <2>3. Closes(o, "cancelled", ops[o].code, 0)
    BY <2>1, <2>2, EndCloses DEF IInv
  <2>4. gw[ops[o].doc].rev > 0
    BY <1>4 DEF IInv, RecordInv
  <2> QED
    BY <1>1, <2>1, <2>3, <2>4, ClosesInv
<1>5. CASE Due(o) /\ Current(o) /\ ops[o].doc \notin purged
  <2> DEFINE phase == IF Creates(o) THEN "lookup" ELSE "read"
  <2>1. tx' = [op |-> o, rev |-> 0, phase |-> phase] /\ UNCHANGED ops /\ Local
    BY <1>5 DEF Open
  <2>2. phase \in Publishing /\ phase \in Phases
    BY DEF Publishing, Phases
  <2>3. Moves(o, 0, phase)
    BY <2>1, <2>2 DEF Moves
  <2> QED
    BY <1>1, <1>5, <2>2, <2>3, MovesInv
<1> QED
  BY <1>2, <1>3, <1>4, <1>5

LEMMA OwnWritten == ASSUME IInv, NEW o \in Op, ops[o].doc \in Doc, Own(o) PROVE Written(o)
BY DEF IInv, SentInv, Own

\* Any other end of a transaction but publication.
LEMMA BlockedInv ==
  ASSUME IInv, NEW o \in Op, tx.op = o, tx.phase \in Publishing, ops[o].kind # "create",
         NEW c \in {"none", "stale", "replaced"}, Block(o, c)
  PROVE  IInv'
<1>1. ~Free(o) /\ ~ops[o].withdrawn /\ ops[o].published = 0
  BY PhaseFacts
<1>2. Closes(o, "blocked", c, 0)
  BY <1>1, BlockCloses DEF IInv
<1> QED
  BY <1>1, <1>2, ClosesInv

LEMMA ReadInv == ASSUME IInv, NEW o \in Op, Read(o) PROVE IInv'
<1> DEFINE d == ops[o].doc
           first == ops[o].kind = "repair" /\ ops[o].state = "queued"
<1>1. tx.op = o /\ tx.phase = "read" /\ tx.phase \in Publishing /\ ~Creates(o)
  BY DEF Read, Publishing, IInv, TxInv
<1>2. /\ Due(o) /\ ~Free(o) /\ ops[o].started /\ Current(o) /\ d \notin purged
      /\ d \in Doc /\ ~ops[o].withdrawn /\ ops[o].published = 0 /\ gw[d].rev \in Nat /\ tx.rev \in Nat
  BY <1>1, PhaseFacts
<1>3. ASSUME NEW c \in {"none", "stale", "replaced"}, Block(o, c) PROVE IInv'
  BY <1>1, <1>3, BlockedInv DEF Creates
<1>4. ASSUME Rollback PROVE IInv'
  BY <1>4, RollbackInv
<1>5. ASSUME End(o, [ops[o] EXCEPT !.state = "assets_published"]) PROVE IInv'
  <2>1. "assets_published" \in States \ {"none"}
    BY DEF States
  <2>2. Closes(o, "assets_published", ops[o].code, 0)
    BY <1>2, <1>5, <2>1, EndCloses DEF IInv
  <2> QED
    BY <1>2, <2>2, ClosesInv
<1>6. ASSUME Own(o), UNCHANGED ops, Local,
             IF Library(o) THEN To("reread") ELSE Holding(gw[d].rev, "commit")
      PROVE  IInv'
  <2>1. Written(o)
    BY <1>2, <1>6, OwnWritten
  <2>2. \E rev, phase : phase \in {"reread", "commit"} /\ Moves(o, rev, phase)
    BY <1>1, <1>2, <1>6, MovesTo DEF Phases, Publishing
  <2> QED
    BY <1>2, <2>1, <2>2, MovesInv DEF Publishing
<1>7. ASSUME ~Stale(o), Holding(gw[d].rev, "put"), UNCHANGED ops, Local PROVE IInv'
  <2>1. Fence(o) # 0 /\ gw[d].rev = Fence(o)
    BY <1>7 DEF Stale
  <2>2. Moves(o, gw[d].rev, "put")
    BY <1>1, <1>2, <1>7, MovesTo DEF Phases, Publishing
  <2> QED
    BY <1>1, <1>2, <2>1, <2>2, MovesInv DEF Publishing
<1> QED
  BY <1>1, <1>3, <1>4, <1>5, <1>6, <1>7 DEF Read

LEMMA LookupInv == ASSUME IInv, NEW o \in Op, Lookup(o) PROVE IInv'
<1> DEFINE d == ops[o].doc
<1>1. tx.op = o /\ tx.phase = "lookup" /\ tx.phase \in Publishing /\ Creates(o)
  BY DEF Lookup, Publishing, IInv, TxInv
<1>2. /\ Due(o) /\ ~Free(o) /\ ops[o].started /\ Current(o) /\ d \notin purged
      /\ d \in Doc /\ tx.rev \in Nat
  BY <1>1, PhaseFacts
<1>3. ASSUME Library(o), Block(o, "none") PROVE IInv'
  BY <1>1, <1>3, BlockedInv DEF Library
<1>4. ASSUME Rollback PROVE IInv'
  BY <1>4, RollbackInv
<1>5. ASSUME Own(o), To("reread"), UNCHANGED ops, Local PROVE IInv'
  <2>1. Written(o)
    BY <1>2, <1>5, OwnWritten
  <2>2. Moves(o, tx.rev, "reread")
    BY <1>1, <1>2, <1>5, MovesTo DEF Phases, Publishing
  <2> QED
    BY <1>2, <2>1, <2>2, MovesInv DEF Publishing
<1>6. ASSUME Holding(0, "put"), UNCHANGED ops, Local PROVE IInv'
  <2>1. Moves(o, 0, "put")
    BY <1>1, <1>2, <1>6, MovesTo DEF Phases, Publishing
  <2> QED
    BY <1>1, <1>2, <2>1, MovesInv DEF Publishing
<1> QED
  BY <1>3, <1>4, <1>5, <1>6 DEF Lookup

LEMMA RereadInv == ASSUME IInv, NEW o \in Op, Reread(o) PROVE IInv'
<1> DEFINE d == ops[o].doc
<1>1. tx.op = o /\ tx.phase = "reread" /\ tx.phase \in Publishing /\ Written(o)
  BY DEF Reread, Publishing, IInv, TxInv
<1>2. /\ Due(o) /\ ~Free(o) /\ ops[o].started /\ Current(o) /\ d \notin purged /\ ~ops[o].withdrawn
      /\ ops[o].published = 0 /\ gw[d].rev \in Nat
  BY <1>1, PhaseFacts
<1>3. ASSUME Rollback PROVE IInv'
  BY <1>3, RollbackInv
<1>4. ASSUME NEW phase \in IF Library(o) THEN {"commit", "message"} ELSE {"commit"},
             Holding(gw[d].rev, phase), UNCHANGED ops, Local
      PROVE  IInv'
  <2>1. phase \in {"commit", "message"} /\ (phase = "message" => Library(o))
    OBVIOUS
  <2>2. Moves(o, gw[d].rev, phase)
    BY <1>1, <1>2, <1>4, <2>1, MovesTo DEF Phases, Publishing
  <2> QED
    BY <1>1, <1>2, <2>1, <2>2, MovesInv DEF Publishing
<1>5. ASSUME End(o, [ops[o] EXCEPT !.state = "superseded", !.published = gw[d].rev]) PROVE IInv'
  <2>1. "superseded" \in States \ {"none"}
    BY DEF States
  <2>2. Closes(o, "superseded", ops[o].code, gw[d].rev)
    BY <1>2, <1>5, <2>1, EndCloses DEF IInv
  <2> QED
    BY <1>1, <1>2, <2>2, ClosesInv
<1> QED
  BY <1>3, <1>4, <1>5 DEF Reread

LEMMA FinishInv == ASSUME IInv, NEW o \in Op, Finish(o) PROVE IInv'
<1>1. tx.op = o /\ tx.phase = "finish" /\ tx.phase \in Publishing /\ o \in messages
  BY DEF Finish, Publishing, IInv, TxInv
<1>2. ~Free(o) /\ ops[o].started /\ ~ops[o].withdrawn /\ ops[o].published = 0 /\ tx.rev \in Nat
  BY <1>1, PhaseFacts
<1>3. "published" \in States \ {"none"} /\ End(o, [ops[o] EXCEPT !.state = "published", !.published = tx.rev])
  BY DEF States, Finish
<1>4. Closes(o, "published", ops[o].code, tx.rev)
  BY <1>2, <1>3, EndCloses DEF IInv
<1> QED
  BY <1>1, <1>2, <1>4, ClosesInv

\* A commit or MESSAGE more, from a transaction or late.
LEMMA TellsInv ==
  ASSUME IInv, NEW o \in Op, Written(o), UNCHANGED <<gw, proj, ops, generation, purged, wrote>>,
         late' \subseteq late, commits \subseteq commits', messages \subseteq messages',
         commits' \subseteq commits \cup {o}, messages' \subseteq messages \cup {o},
         o \in messages' \ messages => Library(o) \/ o \in commits,
         \/ tx' = tx
         \/ \E phase \in Publishing :
              /\ tx' \in [phase : Phases, op : Op \cup {NoOp}, rev : Nat]
              /\ tx'.phase = phase /\ tx'.op = o /\ Due(o) /\ Current(o) /\ ops[o].doc \notin purged
              /\ phase \notin {"lookup", "read", "put"}
              /\ phase \in {"message", "finish"} => Library(o) \/ o \in commits'
              /\ phase = "finish" => o \in messages'
  PROVE  IInv'
<1> USE DEF IInv
<1>1. Kept
  BY Same
<1>2. ops[o].started /\ Written(o)' /\ \A p : Written(p)' <=> Written(p)
  BY DEF Written, SentInv
<1>3. /\ Creates(o)' <=> Creates(o)
      /\ Library(o)' <=> Library(o)
      /\ Current(o)' <=> Current(o)
      /\ Fence(o)' = Fence(o)
  BY DEF Creates, Library, Fence, Current
<1>4. TxInv'
  <2>1. CASE tx' = tx
    BY <1>1, <2>1, TxKept
  <2>2. CASE tx' # tx
    <3> PICK phase \in Publishing :
          /\ tx'.phase = phase /\ tx'.op = o /\ Due(o) /\ Current(o) /\ ops[o].doc \notin purged
          /\ phase \notin {"lookup", "read", "put"}
          /\ phase \in {"message", "finish"} => Library(o) \/ o \in commits'
          /\ phase = "finish" => o \in messages'
      BY <2>2
    <3> QED
      BY <1>2, <1>3, TxMoves
  <2> QED
    BY <2>1, <2>2
<1>5. TypeOK'
  <2>1. commits' \subseteq Op /\ messages' \subseteq Op /\ late' \subseteq Write
    BY DEF TypeOK
  <2>2. tx' \in [phase : Phases, op : Op \cup {NoOp}, rev : Nat]
    BY DEF TypeOK
  <2>3. tx'.phase \in Publishing => tx'.op \in Op /\ (Due(tx.op))' /\ ops'[tx'.op].started
    BY <1>2 DEF TypeOK, Due
  <2> QED
    BY <2>1, <2>2, <2>3 DEF TypeOK, Free
<1>6. SentInv'
  <2>1. \A p \in messages' \ messages : Written(p)' /\ (Library(p)' \/ p \in commits')
    BY <1>2, <1>3
  <2> QED
    BY <1>1, <2>1, SentStep
<1>7. RowsInv' /\ RecordInv' /\ ReplaceInv'
  <2>1. RowsInv'
    BY DEF RowsInv, RowInv, Creates
  <2>2. RecordInv'
    BY <1>2 DEF RecordInv, Creates, Free
  <2>3. ReplaceInv'
    BY <1>2 DEF ReplaceInv, Free
  <2> QED
    BY <2>1, <2>2, <2>3
<1> QED
  BY <1>4, <1>5, <1>6, <1>7

LEMMA PutCommitInv == ASSUME IInv, NEW o \in Op, PutCommit(o) PROVE IInv'
<1>1. tx.op = o /\ tx.phase = "commit" /\ tx.phase \in Publishing /\ Written(o)
  BY DEF PutCommit, Publishing, IInv, TxInv
<1>2. Due(o) /\ Current(o) /\ ops[o].doc \notin purged
  BY <1>1, PhaseFacts
<1>3. /\ tx' \in [phase : Phases, op : Op \cup {NoOp}, rev : Nat]
      /\ tx'.phase = "message" /\ tx'.op = o
  BY <1>1 DEF PutCommit, To, IInv, TypeOK, Phases, Publishing
<1>4. o \in commits' /\ "message" \in Publishing
  BY DEF PutCommit, Publishing
<1> QED
  BY <1>1, <1>2, <1>3, <1>4, TellsInv DEF PutCommit

LEMMA PutMessageInv == ASSUME IInv, NEW o \in Op, PutMessage(o) PROVE IInv'
<1>1. /\ tx.op = o /\ tx.phase = "message" /\ tx.phase \in Publishing /\ Written(o)
      /\ Library(o) \/ o \in commits
  BY DEF PutMessage, Publishing, IInv, TxInv
<1>2. Due(o) /\ Current(o) /\ ops[o].doc \notin purged
  BY <1>1, PhaseFacts
<1>3. /\ tx' \in [phase : Phases, op : Op \cup {NoOp}, rev : Nat]
      /\ tx'.phase = "finish" /\ tx'.op = o
  BY <1>1 DEF PutMessage, To, IInv, TypeOK, Phases, Publishing
<1>4. o \in messages' /\ "finish" \in Publishing
  BY DEF PutMessage, Publishing
<1> QED
  BY <1>1, <1>2, <1>3, <1>4, TellsInv DEF PutMessage

\* The Gateway takes a record at the fence.
LEMMA PutsInv ==
  ASSUME IInv, NEW o \in Op, ops[o].started, NEW base \in Nat, Accepts(ops[o].doc, base),
         IF Creates(o) THEN base = 0 ELSE base = Fence(o) /\ base # 0,
         Put(o, base), UNCHANGED <<proj, ops, generation, purged, commits, messages>>, late' \subseteq late,
         \/ tx' = tx
         \/ /\ tx' \in [phase : Phases, op : Op \cup {NoOp}, rev : Nat] /\ tx.phase \in Publishing
            /\ tx'.phase \in {"commit", "reread"} /\ tx'.op = o /\ tx.op = o
  PROVE  IInv'
<1> USE DEF IInv
<1> DEFINE d == ops[o].doc
           w == [op |-> o, base |-> gw[d].rev, rev |-> gw[d].rev + 1]
           record == [rev |-> gw[d].rev + 1, marker |-> o, live |-> TRUE]
<1>1. Kept /\ ~Free(o) /\ d \in Doc /\ gw[d].rev \in Nat
  BY Same, StartedUsed, RowFacts DEF TypeOK, Record
<1>2. /\ gw' \in [Doc -> Record] /\ gw'[d] = record
      /\ \A e \in Doc \ {d} : gw'[e] = gw[e]
  <2>1. gw' = [gw EXCEPT ![d] = record]
    BY DEF Put
  <2>2. record \in Record
    BY <1>1 DEF Record
  <2> QED
    BY <1>1, <2>1, <2>2 DEF TypeOK
<1>3. wrote' = wrote \cup {w}
  BY DEF Put
<1>4. Written(o)' /\ \A p : Written(p) => Written(p)'
  <2>1. w \in wrote' /\ w.op = o
    BY <1>3
  <2> HIDE DEF w
  <2> QED
    BY <1>3, <2>1 DEF Written
<1>5. ~Creates(o) => w.base = Fence(o) /\ w.base # 0
  BY DEF Accepts
<1>6. /\ Creates(o)' <=> Creates(o)
      /\ Library(o)' <=> Library(o)
      /\ Current(o)' <=> Current(o)
      /\ Fence(o)' = Fence(o)
  BY DEF Creates, Library, Fence, Current
<1>7. TxInv'
  <2>1. CASE tx' = tx
    BY <1>1, <1>3, <2>1, TxKept
  <2>2. CASE tx' # tx
    <3>1. Due(o) /\ Current(o) /\ d \notin purged
      BY <2>2, PhaseFacts
    <3>2. tx'.phase \in {"commit", "reread"} /\ tx'.phase \in Publishing /\ tx'.op = o
      BY <2>2 DEF Publishing
    <3> QED
      BY <1>4, <1>6, <3>1, <3>2 DEF TxInv
  <2> QED
    BY <2>1, <2>2
<1>8. TypeOK'
  <2>1. w \in [op : Op, base : Nat, rev : Nat]
    BY <1>1
  <2>2. wrote' \subseteq [op : Op, base : Nat, rev : Nat]
    BY <1>3, <2>1 DEF TypeOK
  <2>3. tx' \in [phase : Phases, op : Op \cup {NoOp}, rev : Nat]
    BY DEF TypeOK
  <2>4. tx'.phase \in Publishing => tx'.op \in Op /\ (Due(tx.op))' /\ ops'[tx'.op].started
    BY DEF TypeOK, Due
  <2>5. late' \subseteq Write
    BY DEF TypeOK
  <2> QED
    BY <1>2, <2>2, <2>3, <2>4, <2>5 DEF TypeOK, Free
<1>9. SentInv'
  <2>1. \A v \in wrote' \ wrote :
           ops'[v.op].started /\ (~Creates(v.op)' => v.base = Fence(v.op)' /\ v.base # 0)
    BY <1>3, <1>5, <1>6
  <2>2. \A e \in Doc, p \in Op : gw'[e].marker = p =>
           gw[e].marker = p \/ (ops'[p].doc = e /\ Written(p)')
    BY <1>2, <1>4
  <2> QED
    BY <1>1, <1>3, <2>1, <2>2, SentStep
<1>10. RecordInv'
  <2>1. \A e \in Doc : gw'[e].rev \in Nat /\ gw[e].rev <= gw'[e].rev /\ (gw'[e].live => gw'[e].rev > 0)
    BY <1>1, <1>2 DEF RecordInv, TypeOK, Record
  <2>2. ASSUME NEW p \in Op, ~Free(p), Creates(p), gw[ops[p].doc].rev = 0, gw'[ops[p].doc].rev > 0
        PROVE  Written(p)'
    <3>1. ops[p].doc = d /\ gw[d].rev = 0
      BY <1>2, <2>2, RowFacts
    <3>2. Creates(o)
      BY <1>5, <3>1
    <3>3. p = o
      BY <1>1, <2>2, <3>1, <3>2 DEF RecordInv
    <3> QED
      BY <1>4, <3>3
  <2> QED
    BY <1>1, <1>3, <2>1, <2>2, RecordStep DEF TypeOK, Free
<1>11. RowsInv' /\ ReplaceInv'
  <2>1. RowsInv'
    BY DEF RowsInv, RowInv, Creates
  <2>2. ReplaceInv'
    BY <1>4 DEF ReplaceInv, Free
  <2> QED
    BY <2>1, <2>2
<1> QED
  BY <1>7, <1>8, <1>9, <1>10, <1>11

LEMMA PutRecordInv == ASSUME IInv, NEW o \in Op, PutRecord(o) PROVE IInv'
<1>1. tx.op = o /\ tx.phase = "put" /\ tx.phase \in Publishing
      /\ IF Creates(o) THEN tx.rev = 0 ELSE tx.rev = Fence(o) /\ tx.rev # 0
  BY DEF PutRecord, Publishing, IInv, TxInv
<1>2. ops[o].started /\ gw[ops[o].doc].rev \in Nat /\ tx.rev \in Nat
  BY <1>1, PhaseFacts
<1>3. CASE ~Accepts(ops[o].doc, tx.rev)
  BY <1>3, RollbackInv DEF PutRecord
<1>4. CASE Accepts(ops[o].doc, tx.rev)
  <2>1. /\ Put(o, tx.rev) /\ UNCHANGED <<proj, ops, generation, purged, late, commits, messages>>
        /\ Holding(gw[ops[o].doc].rev + 1, "commit") \/ To("reread")
    BY <1>4 DEF PutRecord
  <2>2. /\ tx' \in [phase : Phases, op : Op \cup {NoOp}, rev : Nat]
        /\ tx'.phase \in {"commit", "reread"} /\ tx'.op = o
    <3>1. tx \in [phase : Phases, op : Op \cup {NoOp}, rev : Nat] /\ gw[ops[o].doc].rev + 1 \in Nat
      BY <1>2 DEF IInv, TypeOK
    <3>2. "commit" \in Phases /\ "reread" \in Phases
      BY DEF Phases, Publishing
    <3>3. CASE Holding(gw[ops[o].doc].rev + 1, "commit")
      BY <1>1, <3>1, <3>2, <3>3 DEF Holding
    <3>4. CASE To("reread")
      BY <1>1, <3>1, <3>2, <3>4 DEF To
    <3> QED
      BY <2>1, <3>3, <3>4
  <2> QED
    BY <1>1, <1>2, <1>4, <2>1, <2>2, PutsInv
<1> QED
  BY <1>3, <1>4

LEMMA UnansweredInv == ASSUME IInv, NEW o \in Op, Unanswered(o) PROVE IInv'
<1> USE DEF IInv
<1>1. /\ tx.op = o /\ tx.phase \in {"put", "commit", "message"} /\ tx.phase \in Publishing
      /\ tx' = Idle /\ UNCHANGED <<gw, proj, ops, generation, purged, wrote, commits, messages>>
  BY DEF Unanswered, Publishing
<1>2. ops[o].started /\ tx.rev \in Nat
  BY <1>1, PhaseFacts
<1>3. PICK m \in Write :
        /\ late' = late \cup {m} /\ m.op = o
        /\ \/ tx.phase = "put" /\ m.what = "record" /\ m.base = tx.rev
           \/ tx.phase = "commit" /\ m.what = "commit"
           \/ tx.phase = "message" /\ m.what = "message"
  <2>1. CASE tx.phase = "put"
    <3> DEFINE m == [op |-> o, what |-> "record", base |-> tx.rev]
    <3>1. m \in Write /\ m.op = o /\ m.what = "record" /\ m.base = tx.rev
      BY <1>2 DEF Write
    <3>2. late' = late \cup {m}
      BY <2>1 DEF Unanswered
    <3> HIDE DEF m
    <3> QED
      BY <2>1, <3>1, <3>2
  <2>2. CASE tx.phase = "commit"
    <3> DEFINE m == [op |-> o, what |-> "commit", base |-> 0]
    <3>1. m \in Write /\ m.op = o /\ m.what = "commit"
      BY DEF Write
    <3>2. late' = late \cup {m}
      BY <2>2 DEF Unanswered
    <3> HIDE DEF m
    <3> QED
      BY <2>2, <3>1, <3>2
  <2>3. CASE tx.phase = "message"
    <3> DEFINE m == [op |-> o, what |-> "message", base |-> 0]
    <3>1. m \in Write /\ m.op = o /\ m.what = "message"
      BY DEF Write
    <3>2. late' = late \cup {m}
      BY <2>3 DEF Unanswered
    <3> HIDE DEF m
    <3> QED
      BY <2>3, <3>1, <3>2
  <2> QED
    BY <1>1, <2>1, <2>2, <2>3
<1>4. Kept
  BY <1>1, Same
<1>5. LateInv(m)'
  <2>1. /\ Creates(o)' <=> Creates(o)
        /\ Library(o)' <=> Library(o)
        /\ Written(o)' <=> Written(o)
        /\ Fence(o)' = Fence(o)
    BY <1>1 DEF Creates, Library, Fence, Written
  <2>2. CASE tx.phase = "put"
    <3>1. IF Creates(o) THEN tx.rev = 0 ELSE tx.rev = Fence(o) /\ tx.rev # 0
      BY <1>1, <2>2 DEF TxInv
    <3>2. m.what = "record" /\ m.base = tx.rev
      BY <1>3, <2>2
    <3>3. /\ Creates(o)' => m.base = 0
          /\ ~Creates(o)' => m.base = Fence(o)' /\ m.base # 0
      BY <2>1, <3>1, <3>2
    <3>4. ops'[o].started /\ m.op = o
      BY <1>1, <1>2, <1>3
    <3> QED
      BY <3>2, <3>3, <3>4 DEF LateInv
  <2>3. CASE tx.phase = "commit"
    <3>1. Written(o) /\ m.what = "commit"
      BY <1>1, <1>3, <2>3 DEF TxInv
    <3> QED
      BY <1>1, <1>2, <1>3, <2>1, <3>1 DEF LateInv
  <2>4. CASE tx.phase = "message"
    <3>1. Written(o) /\ m.what = "message" /\ (Library(o) \/ o \in commits)
      BY <1>1, <1>3, <2>4 DEF TxInv
    <3>2. ops'[o].started /\ Written(o)' /\ (Library(o)' \/ o \in commits')
      BY <1>1, <1>2, <2>1, <3>1
    <3> QED
      BY <1>3, <3>1, <3>2 DEF LateInv
  <2> QED
    BY <1>1, <2>2, <2>3, <2>4
<1>6. TypeOK'
  BY <1>1, <1>3 DEF TypeOK, Free, Idle, Phases, Publishing
<1>7. SentInv'
  BY <1>1, <1>3, <1>4, <1>5, SentStep
<1>8. RowsInv' /\ RecordInv' /\ ReplaceInv'
  <2>1. RowsInv'
    BY <1>1 DEF RowsInv, RowInv, Creates
  <2>2. RecordInv'
    BY <1>1 DEF RecordInv, Creates, Free, Written
  <2>3. ReplaceInv'
    BY <1>1 DEF ReplaceInv, Free, Written
  <2> QED
    BY <2>1, <2>2, <2>3
<1> QED
  BY <1>1, <1>6, <1>7, <1>8, TxIdle

-----------------------------------------------------------------------------
(* Devices, the observer, the network and replacements of the library.      *)

LEMMA OutsideInv ==
  ASSUME IInv, UNCHANGED <<ops, purged, tx, wrote, commits, messages>>, late' \subseteq late,
         gw' \in [Doc -> Record], proj' \in [Doc -> Record], generation' \in Nat,
         \A d \in Doc : /\ gw[d].rev <= gw'[d].rev /\ (gw'[d].live => gw'[d].rev > 0)
                        /\ gw[d].rev = 0 => gw'[d].rev = 0
                        /\ gw'[d].marker \in {gw[d].marker, NoOp},
         generation' = generation \/ (LockFree /\ generation' > generation)
  PROVE  IInv'
<1> USE DEF IInv
<1>1. Kept
  BY Same
<1>2. TypeOK'
  BY DEF TypeOK, Free, Due
<1>3. RowsInv'
  <2>1. generation <= generation'
    BY DEF TypeOK
  <2> QED
    BY <1>1, <2>1, RowsStep
<1>4. TxInv'
  BY <1>1, TxKept
<1>5. SentInv'
  <2>1. \A d \in Doc, o \in Op : gw'[d].marker = o => gw[d].marker = o
    BY OpFacts
  <2> QED
    BY <1>1, <2>1, SentStep
<1>6. RecordInv'
  <2>1. \A d \in Doc : gw'[d].rev \in Nat
    BY DEF Record
  <2>2. ASSUME NEW p \in Op, ~Free(p), gw[ops[p].doc].rev = 0, gw'[ops[p].doc].rev > 0
        PROVE  FALSE
    BY <2>2, RowFacts
  <2>3. \A p \in Op : ops'[p].kind = "create" /\ ops'[p].state = "cancelled" => ops[p].state = "cancelled"
    OBVIOUS
  <2> QED
    BY <1>1, <2>1, <2>2, <2>3, RecordStep DEF TypeOK, Free
<1>7. ReplaceInv'
  BY DEF ReplaceInv, Free, Written
<1> QED
  BY <1>2, <1>3, <1>4, <1>5, <1>6, <1>7

LEMMA DeviceInv ==
  ASSUME IInv, NEW d \in Doc, NEW keep \in BOOLEAN, DeviceEdits(d, keep) \/ DeviceDeletesRecord(d)
  PROVE  IInv'
<1>1. gw[d] \in Record /\ gw[d].live /\ gw[d].rev > 0 /\ gw \in [Doc -> Record]
  BY DEF IInv, TypeOK, RecordInv, DeviceEdits, DeviceDeletesRecord
<1>2. PICK r \in Record : /\ gw' = [gw EXCEPT ![d] = r]
                          /\ r.rev = gw[d].rev + 1 /\ r.marker \in {gw[d].marker, NoOp}
  <2>1. CASE DeviceEdits(d, keep)
    <3> DEFINE r == [rev |-> gw[d].rev + 1, marker |-> IF keep THEN gw[d].marker ELSE NoOp, live |-> TRUE]
    <3>1. r \in Record /\ r.rev = gw[d].rev + 1 /\ r.marker \in {gw[d].marker, NoOp}
      BY <1>1 DEF Record
    <3>2. gw' = [gw EXCEPT ![d] = r]
      BY <2>1 DEF DeviceEdits
    <3> QED
      BY <3>1, <3>2
  <2>2. CASE DeviceDeletesRecord(d)
    <3> DEFINE r == [rev |-> gw[d].rev + 1, marker |-> gw[d].marker, live |-> FALSE]
    <3>1. r \in Record /\ r.rev = gw[d].rev + 1 /\ r.marker = gw[d].marker
      BY <1>1 DEF Record
    <3>2. gw' = [gw EXCEPT ![d] = r]
      BY <2>2 DEF DeviceDeletesRecord
    <3> QED
      BY <3>1, <3>2
  <2> QED
    BY <2>1, <2>2
<1>3. /\ gw' \in [Doc -> Record] /\ gw'[d] = r
      /\ \A e \in Doc \ {d} : gw'[e] = gw[e]
  BY <1>1, <1>2
<1>4. \A e \in Doc : /\ gw[e].rev <= gw'[e].rev /\ (gw'[e].live => gw'[e].rev > 0)
                     /\ gw[e].rev = 0 => gw'[e].rev = 0
                     /\ gw'[e].marker \in {gw[e].marker, NoOp}
  BY <1>1, <1>2, <1>3 DEF IInv, RecordInv, TypeOK, Record
<1> QED
  BY <1>3, <1>4, OutsideInv DEF DeviceEdits, DeviceDeletesRecord, IInv, TypeOK

LEMMA ObserveInv == ASSUME IInv, NEW d \in Doc, Observe(d) PROVE IInv'
<1>1. proj' \in [Doc -> Record]
  <2>1. gw[d] \in Record /\ Absent \in Record
    BY DEF IInv, TypeOK, Absent, Record
  <2> QED
    BY <2>1 DEF Observe, IInv, TypeOK
<1>2. \A e \in Doc : gw[e].rev \in Nat /\ (gw[e].live => gw[e].rev > 0)
  BY DEF IInv, TypeOK, Record, RecordInv
<1> QED
  BY <1>1, <1>2, OutsideInv DEF Observe, IInv, TypeOK

LEMMA ReplaceLibraryInv == ASSUME IInv, ReplaceLibrary PROVE IInv'
<1>1. \A e \in Doc : gw[e].rev \in Nat /\ (gw[e].live => gw[e].rev > 0)
  BY DEF IInv, TypeOK, Record, RecordInv
<1>2. generation' \in Nat /\ generation' > generation /\ LockFree
  BY DEF ReplaceLibrary, IInv, TypeOK
<1> QED
  BY <1>1, <1>2, OutsideInv DEF ReplaceLibrary, IInv, TypeOK

LEMMA LostInv == ASSUME IInv, NEW m \in late, Lost(m) PROVE IInv'
<1>1. \A e \in Doc : gw[e].rev \in Nat /\ (gw[e].live => gw[e].rev > 0)
  BY DEF IInv, TypeOK, Record, RecordInv
<1> QED
  BY <1>1, OutsideInv DEF Lost, IInv, TypeOK

LEMMA ArrivesInv == ASSUME IInv, NEW m \in late, Arrives(m) PROVE IInv'
<1>1. m \in Write /\ LateInv(m) /\ late' \subseteq late /\ UNCHANGED <<proj, ops, generation, purged, tx>>
  BY DEF Arrives, IInv, TypeOK, SentInv
<1>2. m.op \in Op /\ m.what \in {"record", "commit", "message"} /\ m.base \in Nat /\ ops[m.op].started
  BY <1>1 DEF Write, LateInv
<1>3. CASE m.what = "record" /\ Accepts(ops[m.op].doc, m.base)
  <2>1. Put(m.op, m.base) /\ UNCHANGED <<commits, messages>>
    BY <1>3 DEF Arrives
  <2> QED
    BY <1>1, <1>2, <1>3, <2>1, PutsInv DEF LateInv
<1>4. CASE m.what = "commit"
  <2>1. commits' = commits \cup {m.op} /\ UNCHANGED <<gw, wrote, messages>>
    BY <1>4 DEF Arrives
  <2> QED
    BY <1>1, <1>2, <1>4, <2>1, TellsInv DEF LateInv
<1>5. CASE m.what = "message"
  <2>1. messages' = messages \cup {m.op} /\ UNCHANGED <<gw, wrote, commits>>
    BY <1>5 DEF Arrives
  <2> QED
    BY <1>1, <1>2, <1>5, <2>1, TellsInv DEF LateInv
<1>6. CASE m.what = "record" /\ ~Accepts(ops[m.op].doc, m.base)
  <2>1. UNCHANGED <<gw, wrote, commits, messages>>
    BY <1>6 DEF Arrives
  <2>2. Lost(m)
    BY <2>1 DEF Arrives, Lost
  <2> QED
    BY <2>2, LostInv
<1> QED
  BY <1>2, <1>3, <1>4, <1>5, <1>6

-----------------------------------------------------------------------------
(* The invariant.                                                           *)

LEMMA InitInv == ASSUME Init PROVE IInv
<1>1. /\ Absent \in Record /\ Absent.marker = 0 /\ ~Absent.live
      /\ Present \in Record /\ Present.marker = 0 /\ Present.rev = 1
  BY DEF Absent, Present, Record
<1>2. gw \in [Doc -> {Absent, Present}]
  BY DEF Init
<1>3. gw \in [Doc -> Record] /\ \A d \in Doc : gw[d].marker = 0 /\ (gw[d].live => gw[d].rev > 0)
  <2>1. \A d \in Doc : gw[d] \in {Absent, Present}
    BY <1>2
  <2> QED
    BY <1>1, <1>2, <2>1
<1>4. Unused \in OpRow /\ \A o \in Op : ops[o] = Unused
  BY DEF Init, Unused, OpRow, States, Kinds
<1>5. TypeOK
  <2>1. Idle \in [phase : Phases, op : Op \cup {NoOp}, rev : Nat] /\ Idle.phase \notin Publishing
    BY DEF Idle, Phases, Publishing
  <2>2. \A o \in Op : ops[o].doc = NoDoc /\ Free(o)
    BY <1>4 DEF Unused, Free
  <2> QED
    BY <1>3, <1>4, <2>1, <2>2 DEF Init, TypeOK
<1>6. RowsInv
  BY <1>4 DEF Init, RowsInv, RowInv, Unused
<1>7. TxInv
  BY DEF Init, TxInv, Idle, Publishing
<1>8. SentInv
  BY <1>3, <1>4, OpFacts DEF Init, SentInv, Unused
<1>9. RecordInv
  BY <1>3, <1>4 DEF Init, RecordInv, Unused, Free
<1>10. ReplaceInv
  BY <1>4, OpFacts DEF ReplaceInv, Unused
<1> QED
  BY <1>5, <1>6, <1>7, <1>8, <1>9, <1>10 DEF IInv

LEMMA PublishInv == ASSUME IInv, Publish PROVE IInv'
<1> PICK o \in Op : \/ Start(o) \/ Open(o) \/ Read(o) \/ Lookup(o) \/ PutRecord(o)
                    \/ Reread(o) \/ PutCommit(o) \/ PutMessage(o) \/ Finish(o)
  BY DEF Publish
<1> QED
  BY StartInv, OpenInv, ReadInv, LookupInv, PutRecordInv, RereadInv, PutCommitInv, PutMessageInv, FinishInv

LEMMA OwnerInv == ASSUME IInv, Owner PROVE IInv'
<1>1. ASSUME NEW o \in Op, NEW d \in Doc,
             \/ QueueEdit(o, d) \/ QueueChange(o, d)
             \/ \E k \in {"edit", "repair"} : Preview(o, k, d)
             \/ \E k \in {"create", "shelf"} : QueueCreate(o, k, d)
             \/ \E old \in Doc : QueueReplacement(o, d, old)
      PROVE  IInv'
  BY <1>1, EditInv, ChangeInv, PreviewInv, CreateInv, ReplacementInv
<1>2. ASSUME NEW o \in Op, Execute(o) \/ Cancel(o) PROVE IInv'
  BY <1>2, ExecuteInv, CancelInv
<1>3. ASSUME NEW d \in Doc, AdmitPurge(d) PROVE IInv'
  BY <1>3, PurgeInv
<1>4. ASSUME ReplaceLibrary PROVE IInv'
  BY <1>4, ReplaceLibraryInv
<1> QED
  BY <1>1, <1>2, <1>3, <1>4 DEF Owner

LEMMA NextInv == ASSUME IInv, [Next]_vars PROVE IInv'
<1>1. CASE Device
  <2>1. \A keep \in KeepsMarker : keep \in BOOLEAN
    BY JournalAssumption DEF JournalAssumption
  <2> QED
    BY <1>1, <2>1, DeviceInv DEF Device
<1>2. CASE Owner
  BY <1>2, OwnerInv
<1>3. CASE \E d \in Doc : Observe(d)
  BY <1>3, ObserveInv
<1>4. CASE Publish
  BY <1>4, PublishInv
<1>5. CASE Trouble
  <2>1. Fails => IInv'
    BY RollbackInv DEF Fails
  <2> QED
    BY <1>5, <2>1, UnansweredInv, ArrivesInv, LostInv DEF Trouble
<1>6. CASE UNCHANGED vars
  BY <1>6, PartsSame DEF vars, IInv, TypeOK, TxInv, Free, Due, Current, Creates, Library, Fence, Written
<1> QED
  BY <1>1, <1>2, <1>3, <1>4, <1>5, <1>6 DEF Next

\* The journal's invariant: rows, open transaction, what was sent, records, replacements.
THEOREM JournalInvariant == Spec => []IInv
<1>1. Init => IInv
  BY InitInv
<1>2. IInv /\ [Next]_vars => IInv'
  BY NextInv
<1> QED
  BY <1>1, <1>2, PTL DEF Spec

\* Every record an operation replaced is the revision its owner was shown.
THEOREM NativeWinsAlways == Spec => []NativeWins
<1>1. IInv => NativeWins
  <2>1. IInv => EditsFenced
    <3> SUFFICES ASSUME IInv, NEW w \in wrote, ops[w.op].after = NoOp, ~Creates(w.op)
                 PROVE  w.base = ops[w.op].expected
      BY DEF EditsFenced
    <3> QED
      BY DEF IInv, SentInv, Fence
  <2> QED
    BY <2>1 DEF IInv, NativeWins
<1> QED
  BY <1>1, JournalInvariant, PTL

\* What the owner cancelled never reaches the tablets, not even late.
THEOREM CancelledStays == Spec => []CancelKept
<1>1. IInv => CancelKept
  <2> SUFFICES ASSUME IInv, NEW o \in Op, ops[o].withdrawn
               PROVE  ~Written(o) /\ \A m \in late : m.op # o
    BY DEF CancelKept
  <2>1. ~ops[o].started
    BY DEF IInv, RowsInv, RowInv
  <2> QED
    BY <2>1 DEF IInv, SentInv, LateInv, Written
<1> QED
  BY <1>1, JournalInvariant, PTL

\* Tablets hear of an operation after its record and its commit exist.
THEOREM NotificationOrder == Spec => []NotificationChain
<1>1. IInv => NotificationChain
  BY DEF IInv, SentInv, NotificationChain
<1> QED
  BY <1>1, JournalInvariant, PTL

\* A replaced note is retired only after its replacement was written.
THEOREM ReplacementFirst == Spec => []RetiredAfterReplacement
<1>1. IInv => RetiredAfterReplacement
  <2> SUFFICES ASSUME IInv, NEW o \in Op, ops[o].replaces # NoOp, Written(o)
               PROVE  Written(ops[o].replaces)
    BY DEF RetiredAfterReplacement
  <2>1. ops[o].replaces \in Op /\ ops[o].started
    BY RowFacts DEF IInv, SentInv, Written
  <2> QED
    BY <2>1 DEF IInv, ReplaceInv
<1> QED
  BY <1>1, JournalInvariant, PTL

\* Nothing is sent for an operation of another generation or a removed notebook.
THEOREM SendsUnderFence == Spec => SentUnderFence
<1> DEFINE Quiet == wrote' = wrote /\ commits' = commits /\ messages' = messages /\ late' \subseteq late
           Answer == \E m \in late : late' = late \ {m}
           Fenced == ops[tx.op].gen = generation /\ ops[tx.op].doc \notin purged
<1>1. ASSUME IInv, Publish PROVE Quiet \/ Fenced
  <2> PICK o \in Op : \/ Start(o) \/ Open(o) \/ Read(o) \/ Lookup(o) \/ PutRecord(o)
                      \/ Reread(o) \/ PutCommit(o) \/ PutMessage(o) \/ Finish(o)
    BY <1>1 DEF Publish
  <2>1. ASSUME PutRecord(o) \/ PutCommit(o) \/ PutMessage(o) PROVE Fenced
    <3>1. tx.op = o /\ tx.phase \in Publishing
      BY <2>1 DEF PutRecord, PutCommit, PutMessage, Publishing
    <3> QED
      BY <1>1, <3>1 DEF IInv, TxInv, Current
  <2>2. ASSUME Start(o) \/ Open(o) \/ Finish(o) PROVE Quiet
    BY <2>2 DEF Start, Open, Finish, Rollback, Block, End, Local
  <2>3. ASSUME Read(o) \/ Lookup(o) \/ Reread(o) PROVE Quiet
    BY <2>3 DEF Read, Lookup, Reread, Rollback, Block, End, Local
  <2> QED
    BY <2>1, <2>2, <2>3
<1>2. ASSUME IInv, Trouble PROVE Quiet \/ Answer \/ Fenced
  <2>1. ASSUME NEW o \in Op, Unanswered(o) PROVE Fenced
    <3>1. tx.op = o /\ tx.phase \in Publishing
      BY <2>1 DEF Unanswered, Publishing
    <3> QED
      BY <1>2, <3>1 DEF IInv, TxInv, Current
  <2>2. ASSUME NEW m \in late, Arrives(m) \/ Lost(m) PROVE Answer
    BY <2>2 DEF Arrives, Lost
  <2>3. Fails => Quiet
    BY DEF Fails, Rollback, Local
  <2> QED
    BY <1>2, <2>1, <2>2, <2>3 DEF Trouble
<1>3. Device \/ (\E d \in Doc : Observe(d)) => Quiet
  BY DEF Device, DeviceEdits, DeviceDeletesRecord, Observe
<1>4. Owner => Quiet
  <2>1. ASSUME NEW o \in Op, NEW d \in Doc,
               \/ QueueEdit(o, d) \/ QueueChange(o, d)
               \/ \E k \in Kinds : Preview(o, k, d) \/ QueueCreate(o, k, d)
               \/ \E old \in Doc : QueueReplacement(o, d, old)
        PROVE  Quiet
    BY <2>1 DEF QueueEdit, QueueChange, Preview, QueueCreate, QueueReplacement, OwnerOnly
  <2>2. ASSUME NEW o \in Op, Execute(o) \/ Cancel(o) PROVE Quiet
    BY <2>2 DEF Execute, Cancel, OwnerOnly
  <2>3. ASSUME NEW d \in Doc, AdmitPurge(d) PROVE Quiet
    BY <2>3 DEF AdmitPurge
  <2>4. ReplaceLibrary => Quiet
    BY DEF ReplaceLibrary
  <2> QED
    BY <2>1, <2>2, <2>3, <2>4 DEF Owner, Kinds
<1>5. UNCHANGED vars => Quiet
  BY DEF vars
<1>6. IInv /\ [Next]_vars => Quiet \/ Answer \/ Fenced
  BY <1>1, <1>2, <1>3, <1>4, <1>5 DEF Next
<1>7. IInv /\ [Next]_vars =>
        [wrote' # wrote \/ commits' # commits \/ messages' # messages \/ ~(late' \subseteq late) =>
           \/ \E m \in late : late' = late \ {m}
           \/ ops[tx.op].gen = generation /\ ops[tx.op].doc \notin purged]_vars
  BY <1>6
<1> QED
  BY <1>7, JournalInvariant, PTL DEF Spec, SentUnderFence

-----------------------------------------------------------------------------
(* An operation reported as blocked has changed nothing.  Its marker is the  *)
(* only trace of a write whose answer was lost, so it matters who may        *)
(* overwrite it: no operation before it in the queue, whose fence is passed  *)
(* (PassedInv), and none behind it, which waits (OrderInv).                  *)

\* Rows are taken in the order of their numbers.
AllocInv == \A p, o \in Op : p < o /\ ~Free(o) => ~Free(p)

\* Revisions only grow past what was read, expected and written.
RevInv ==
  /\ \A d \in Doc : proj[d].rev <= gw[d].rev
  /\ \A o \in Op : ~Free(o) => ops[o].expected <= gw[ops[o].doc].rev
  /\ \A w \in wrote : w.rev = w.base + 1 /\ w.rev <= gw[ops[w.op].doc].rev
  /\ \A m \in late : m.what = "record" => m.base <= gw[ops[m.op].doc].rev
  /\ tx.phase = "put" => tx.rev <= gw[ops[tx.op].doc].rev

\* Of the operations before one that has started, only those that were previewed can
\* still be published, and those are not chained.
OrderInv ==
  /\ \A o \in Op : ops[o].state = "preview" => ops[o].after = NoOp
  /\ \A p, o \in Op : p < o /\ ops[o].started /\ (Due(p) \/ ops[p].state = "preview") =>
       ops[p].after = NoOp
  /\ tx.phase # "idle" => \A o \in Op \ {tx.op} : ops[o].started /\ Due(o) => tx.op < o

\* An earlier operation on the record expects a revision before the one written.
PassedInv ==
  \A w \in wrote, q \in Op :
    q < w.op /\ ~Free(q) /\ ops[q].doc = ops[w.op].doc /\ ops[q].after = NoOp =>
      ops[q].expected < w.rev

\* A change that was written and waits to be published.
Standing(o) == Due(o) /\ Written(o) /\ ~Creates(o)

\* What others sent before it comes too late.
SpentInv ==
  \A o \in Op, m \in late :
    Standing(o) /\ m.what = "record" /\ m.op # o /\ ops[m.op].doc = ops[o].doc =>
      m.base < gw[ops[o].doc].rev

\* Its marker is still on the record.
MarkInv ==
  KeepsMarker = {TRUE} =>
    \A o \in Op : Standing(o) /\ ~Deleted(ops[o].doc) => Own(o)

\* A repair writes no record before its assets.
RepairInv ==
  \A o \in Op : ops[o].kind = "repair" /\ ops[o].state = "queued" =>
    /\ ~Written(o) /\ \A m \in late : m.op # o
    /\ tx.op = o => tx.phase \in {"selected", "read"}

\* What a blocked operation sent earlier comes too late.
StaleInv ==
  \A o \in Op : ops[o].code = "stale" =>
    /\ ops[o].state \in {"blocked", "cancelled"} /\ ~Creates(o)
    /\ \A m \in late : m.op = o /\ m.what = "record" =>
         m.base < gw[ops[o].doc].rev \/ Deleted(ops[o].doc)

BInv ==
  AllocInv /\ RevInv /\ OrderInv /\ PassedInv /\ SpentInv /\ MarkInv /\ RepairInv /\ StaleInv
  /\ BlockedUntouched

-----------------------------------------------------------------------------
(* The forms of step of that proof.                                         *)

\* A new row: its number is the first free one.
RowNew(p) ==
  /\ Free(p) /\ ops'[p].state \in {"queued", "preview"} /\ ~ops'[p].started
  /\ ops'[p].code = "none" /\ (ops'[p].state = "preview" => ops'[p].after = NoOp)
  /\ ops'[p].expected <= gw[ops'[p].doc].rev
  /\ \A q \in Op : q < p => ~Free(q)'

\* Why an operation may be blocked by a native edit.
Blockable(p) ==
  /\ ~Creates(p)
  /\ KeepsMarker = {TRUE} /\ ~Deleted(ops[p].doc) => ~Written(p)
  /\ \A m \in late : m.op = p /\ m.what = "record" =>
       m.base < gw[ops[p].doc].rev \/ Deleted(ops[p].doc)

\* A used row goes on.
RowGoes(p) ==
  /\ ~Free(p)
  /\ ops'[p].started => ops[p].started \/ (tx.phase = "idle" /\ Head(p))
  /\ ops'[p].code = "stale" =>
       \/ ops[p].code = "stale" /\ ops'[p].state \in {"blocked", "cancelled"}
       \/ ops'[p].state = "blocked" /\ Blockable(p)
  /\ ops'[p].state = "preview" => ops[p].state = "preview"
  /\ Due(p)' => Due(p) \/ ops[p].state = "preview"
  /\ ops'[p].state = "queued" => ops[p].state \in {"queued", "preview"}

\* The transaction ends, waits, is that of the head, or goes on with its operation.
TxGoes ==
  \/ tx' = Idle
  \/ UNCHANGED tx
  \/ /\ tx'.op \in Op /\ (Head(tx'.op) \/ (tx.phase # "idle" /\ tx'.op = tx.op))
     /\ tx'.phase = "put" => tx'.rev <= gw[ops[tx'.op].doc].rev
     /\ ops[tx'.op].kind = "repair" /\ ops[tx'.op].state = "queued" => tx'.phase \in {"selected", "read"}

\* Nothing reaches the records.
RowsMove ==
  /\ Kept /\ UNCHANGED <<gw, wrote>> /\ late' \subseteq late /\ TxGoes
  /\ \A d \in Doc : proj'[d].rev <= gw[d].rev
  /\ \A p \in Op : ops'[p] = ops[p] \/ RowNew(p) \/ RowGoes(p)

LEMMA WroteFacts ==
  ASSUME IInv, NEW w \in wrote
  PROVE  /\ w.op \in Op /\ w.base \in Nat /\ w.rev \in Nat /\ ops[w.op].started /\ ~Free(w.op)
         /\ ops[w.op].doc \in Doc /\ gw[ops[w.op].doc].rev \in Nat /\ Written(w.op)
<1>1. w.op \in Op /\ w.base \in Nat /\ w.rev \in Nat /\ ops[w.op].started
  BY DEF IInv, TypeOK, SentInv
<1>2. ~Free(w.op)
  BY <1>1, StartedUsed DEF IInv
<1>3. ops[w.op].doc \in Doc
  BY <1>1, <1>2, RowFacts DEF IInv
<1> QED
  BY <1>1, <1>2, <1>3 DEF IInv, TypeOK, Record, Written

LEMMA LateFacts ==
  ASSUME IInv, NEW m \in late
  PROVE  /\ m.op \in Op /\ m.base \in Nat /\ ops[m.op].started /\ ~Free(m.op)
         /\ ops[m.op].doc \in Doc /\ gw[ops[m.op].doc].rev \in Nat
<1>1. m.op \in Op /\ m.base \in Nat /\ ops[m.op].started
  BY DEF IInv, TypeOK, SentInv, LateInv, Write
<1>2. ~Free(m.op)
  BY <1>1, StartedUsed DEF IInv
<1>3. ops[m.op].doc \in Doc
  BY <1>1, <1>2, RowFacts DEF IInv
<1> QED
  BY <1>1, <1>2, <1>3 DEF IInv, TypeOK, Record

LEMMA WrittenStarted == ASSUME IInv, NEW o \in Op, Written(o) PROVE ops[o].started /\ ~Free(o)
BY WroteFacts DEF Written

\* The record an operation wrote exists.
LEMMA WrittenRev ==
  ASSUME IInv, RevInv, NEW o \in Op, Written(o)
  PROVE  gw[ops[o].doc].rev > 0
<1> PICK w \in wrote : w.op = o
  BY DEF Written
<1>1. w.rev = w.base + 1 /\ w.rev <= gw[ops[o].doc].rev /\ w.base \in Nat /\ gw[ops[o].doc].rev \in Nat
  BY WroteFacts DEF RevInv
<1> QED
  BY <1>1

\* The operation about to be written comes before every other that was written.
LEMMA PutFirst ==
  ASSUME IInv, RevInv, OrderInv, PassedInv, tx.phase = "put",
         NEW o \in Op, Standing(o), o # tx.op, ops[o].doc = ops[tx.op].doc
  PROVE  tx.rev < gw[ops[o].doc].rev
<1>1. tx.op \in Op /\ ~Free(tx.op) /\ Due(tx.op) /\ gw[ops[tx.op].doc].rev \in Nat /\ tx.phase # "idle"
  BY PhaseFacts DEF IInv, TypeOK, Publishing
<1>2. Written(o) /\ Due(o) /\ ops[o].started
  BY WrittenStarted DEF Standing
<1>3. tx.op < o /\ ops[tx.op].after = NoOp
  BY <1>1, <1>2 DEF OrderInv
<1>4. CASE Creates(tx.op)
  <2>1. tx.rev = 0
    BY <1>4 DEF IInv, TxInv
  <2> QED
    BY <1>2, <2>1, WrittenRev
<1>5. CASE ~Creates(tx.op)
  <2>1. tx.rev = ops[tx.op].expected
    BY <1>3, <1>5 DEF IInv, TxInv, Fence
  <2>2. PICK w \in wrote : w.op = o
    BY <1>2 DEF Written
  <2>3. ops[tx.op].expected < w.rev
    BY <1>1, <1>3, <2>2 DEF PassedInv
  <2>4. w.rev <= gw[ops[o].doc].rev /\ w.rev \in Nat
    BY <2>2, WroteFacts DEF RevInv
  <2>5. ops[tx.op].expected \in Nat
    BY <1>1, RowFacts DEF IInv
  <2> QED
    BY <1>1, <2>1, <2>3, <2>4, <2>5
<1> QED
  BY <1>4, <1>5

-----------------------------------------------------------------------------
(* Steps that reach no record.                                              *)

LEMMA MoveFacts ==
  ASSUME IInv, BInv, RowsMove, NEW p \in Op
  PROVE  /\ ~Free(p) => /\ ~Free(p)' /\ ops'[p].kind = ops[p].kind /\ ops'[p].doc = ops[p].doc
                        /\ ops'[p].expected = ops[p].expected /\ ops'[p].after = ops[p].after
                        /\ ops[p].doc \in Doc
         /\ Written(p)' <=> Written(p)
         /\ ~Free(p) => (Due(p)' => Due(p) \/ ops[p].state = "preview")
         /\ ~Free(p) => (ops'[p].state = "preview" => ops[p].state = "preview")
         /\ ~Free(p) => (ops'[p].state = "queued" => ops[p].state \in {"queued", "preview"})
         /\ ops'[p].started => ops[p].started \/ (tx.phase = "idle" /\ Head(p))
         /\ Free(p) => ops'[p] = ops[p] \/ RowNew(p)
<1>1. ~Free(p) => ops[p].doc \in Doc
  BY RowFacts DEF IInv
<1>2. ~Free(p) => /\ ~Free(p)' /\ ops'[p].kind = ops[p].kind /\ ops'[p].doc = ops[p].doc
                  /\ ops'[p].expected = ops[p].expected /\ ops'[p].after = ops[p].after
  BY DEF RowsMove, Kept
<1>3. Written(p)' <=> Written(p)
  BY DEF RowsMove, Written
<1>4. ops'[p] = ops[p] \/ RowNew(p) \/ RowGoes(p)
  BY DEF RowsMove
<1>5. ASSUME ops'[p] = ops[p] PROVE Due(p)' <=> Due(p)
  BY <1>5 DEF Due
<1> QED
  BY <1>1, <1>2, <1>3, <1>4, <1>5 DEF RowNew, RowGoes

\* The records operations deleted or wrote stay as they are.
LEMMA DeletedSame ==
  ASSUME IInv, Kept, UNCHANGED <<gw, wrote>>, NEW d \in Doc
  PROVE  (~gw[d].live \/ \E w \in wrote : ops[w.op].doc = d /\ Creates(w.op) /\ w.base # 0)' <=> Deleted(d)
<1>1. \A w \in wrote : ops'[w.op].doc = ops[w.op].doc /\ (Creates(w.op)' <=> Creates(w.op))
  BY WroteFacts DEF Kept, Creates
<1> QED
  BY <1>1 DEF Deleted

LEMMA MoveAlloc == ASSUME IInv, BInv, RowsMove PROVE AllocInv'
<1> SUFFICES ASSUME NEW p \in Op, NEW o \in Op, p < o, ~Free(o)' PROVE ~Free(p)'
  BY DEF AllocInv
<1>1. CASE Free(o)
  <2>1. RowNew(o)
    BY <1>1, MoveFacts DEF Free
  <2> QED
    BY <2>1 DEF RowNew
<1>2. CASE ~Free(o)
  BY <1>2, MoveFacts DEF BInv, AllocInv
<1> QED
  BY <1>1, <1>2

LEMMA MoveRev == ASSUME IInv, BInv, RowsMove PROVE RevInv'
<1> USE DEF BInv
<1>1. gw' = gw /\ wrote' = wrote /\ late' \subseteq late /\ \A d \in Doc : proj'[d].rev <= gw'[d].rev
  BY DEF RowsMove
<1>2. ASSUME NEW o \in Op, ~Free(o)' PROVE ops'[o].expected <= gw'[ops'[o].doc].rev
  <2>1. CASE Free(o)
    BY <1>1, <1>2, <2>1, MoveFacts DEF RowNew, Free
  <2>2. CASE ~Free(o)
    BY <1>1, <2>2, MoveFacts DEF RevInv
  <2> QED
    BY <2>1, <2>2
<1>3. ASSUME NEW w \in wrote' PROVE w.rev = w.base + 1 /\ w.rev <= gw'[ops'[w.op].doc].rev
  BY <1>1, WroteFacts, MoveFacts DEF RevInv
<1>4. ASSUME NEW m \in late', m.what = "record" PROVE m.base <= gw'[ops'[m.op].doc].rev
  BY <1>1, <1>4, LateFacts, MoveFacts DEF RevInv
<1>5. ASSUME tx'.phase = "put" PROVE tx'.rev <= gw'[ops'[tx'.op].doc].rev
  <2>1. tx' # Idle
    BY <1>5 DEF Idle
  <2>2. CASE UNCHANGED tx
    <3>1. tx.op \in Op /\ ~Free(tx.op)
      BY <1>5, <2>2, PhaseFacts DEF IInv, TypeOK, Publishing
    <3> QED
      BY <1>1, <1>5, <2>2, <3>1, MoveFacts DEF RevInv
  <2>3. CASE /\ tx'.op \in Op /\ (Head(tx'.op) \/ (tx.phase # "idle" /\ tx'.op = tx.op))
             /\ tx'.rev <= gw[ops[tx'.op].doc].rev
    <3>1. ~Free(tx'.op)
      BY <2>3, StartedUsed DEF IInv, TxInv, Head, Due, Free
    <3> QED
      BY <1>1, <2>3, <3>1 DEF RowsMove, Kept
  <2> QED
    BY <1>5, <2>1, <2>2, <2>3 DEF RowsMove, TxGoes
<1> QED
  BY <1>1, <1>2, <1>3, <1>4, <1>5 DEF RevInv

LEMMA MoveOrder == ASSUME IInv, BInv, RowsMove PROVE OrderInv'
<1> USE DEF BInv
<1>1. ASSUME NEW o \in Op, ops'[o].state = "preview" PROVE ops'[o].after = NoOp
  <2>1. CASE Free(o)
    BY <1>1, <2>1, MoveFacts DEF RowNew, Free
  <2>2. CASE ~Free(o)
    BY <1>1, <2>2, MoveFacts DEF OrderInv
  <2> QED
    BY <2>1, <2>2
<1>2. ASSUME NEW p \in Op, NEW o \in Op, p < o, ops'[o].started, Due(p)' \/ ops'[p].state = "preview"
      PROVE  ops'[p].after = NoOp
  <2>1. ops[o].started \/ Head(o)
    BY <1>2, MoveFacts
  <2>2. ~Free(o)
    BY <2>1, StartedUsed DEF IInv, Head, Due, Free
  <2>3. ~Free(p)
    BY <1>2, <2>2 DEF AllocInv
  <2>4. Due(p) \/ ops[p].state = "preview"
    BY <1>2, <2>3, MoveFacts
  <2>5. Head(o) => ~Due(p)
    BY <1>2, OpFacts DEF Head
  <2>6. ops[p].after = NoOp
    BY <1>2, <2>1, <2>4, <2>5 DEF OrderInv
  <2> QED
    BY <2>3, <2>6, MoveFacts
<1>3. ASSUME tx'.phase # "idle", NEW o \in Op \ {tx'.op}, ops'[o].started, Due(o)'
      PROVE  tx'.op < o
  <2>1. ops[o].started \/ (tx.phase = "idle" /\ Head(o))
    BY <1>3, MoveFacts
  <2>2. ~Free(o) /\ (ops[o].started => ops[o].state # "preview")
    BY <2>1, StartedUsed DEF IInv, RowsInv, RowInv, Head, Due, Free
  <2>3. Due(o)
    BY <1>3, <2>1, <2>2, MoveFacts DEF Head
  <2>4. CASE Head(tx'.op) /\ tx'.op \in Op
    <3>1. tx'.op \in Nat /\ o \in Nat /\ o # tx'.op
      BY <2>4, OpFacts
    <3>2. o >= tx'.op
      BY <2>3, <2>4 DEF Head
    <3> QED
      BY <3>1, <3>2
  <2>5. CASE tx.phase # "idle" /\ tx'.op = tx.op
    BY <1>3, <2>1, <2>3, <2>5 DEF OrderInv
  <2>6. tx' # Idle
    BY <1>3 DEF Idle
  <2> QED
    BY <1>3, <2>4, <2>5, <2>6 DEF RowsMove, TxGoes
<1> QED
  BY <1>1, <1>2, <1>3 DEF OrderInv

LEMMA MovePassed == ASSUME IInv, BInv, RowsMove PROVE PassedInv'
<1> SUFFICES ASSUME NEW w \in wrote, NEW q \in Op, q < w.op, ~Free(q)', ops'[q].doc = ops'[w.op].doc,
                    ops'[q].after = NoOp
             PROVE  ops'[q].expected < w.rev
  BY DEF PassedInv, RowsMove
<1>1. w.op \in Op /\ ~Free(w.op)
  BY WroteFacts
<1>2. ~Free(q)
  BY <1>1 DEF BInv, AllocInv
<1> QED
  BY <1>1, <1>2, MoveFacts DEF BInv, PassedInv

\* An operation that was written is due as long as it was.
LEMMA MoveStanding ==
  ASSUME IInv, BInv, RowsMove, NEW o \in Op, Standing(o)'
  PROVE  Standing(o) /\ ~Free(o)
<1>1. Written(o) /\ Due(o)'
  BY MoveFacts DEF Standing
<1>2. ~Free(o) /\ ops[o].started
  BY <1>1, WrittenStarted
<1>3. ops[o].state # "preview"
  BY <1>2 DEF IInv, RowsInv, RowInv
<1> QED
  BY <1>1, <1>2, <1>3, MoveFacts DEF Standing, Creates

LEMMA MoveSpent == ASSUME IInv, BInv, RowsMove PROVE SpentInv'
<1> SUFFICES ASSUME NEW o \in Op, NEW m \in late, Standing(o)', m.what = "record", m.op # o,
                    ops'[m.op].doc = ops'[o].doc
             PROVE  m.base < gw[ops'[o].doc].rev
  BY DEF SpentInv, RowsMove
<1>1. Standing(o) /\ ~Free(o)
  BY MoveStanding
<1>2. m.op \in Op /\ ~Free(m.op)
  BY LateFacts
<1> QED
  BY <1>1, <1>2, MoveFacts DEF BInv, SpentInv

LEMMA MoveMark == ASSUME IInv, BInv, RowsMove PROVE MarkInv'
<1>1. gw' = gw /\ wrote' = wrote /\ Kept
  BY DEF RowsMove
<1> SUFFICES ASSUME KeepsMarker = {TRUE}, NEW o \in Op, Standing(o)', ~Deleted(ops[o].doc)'
             PROVE  Own(o)'
  BY DEF MarkInv
<1>2. Standing(o) /\ ~Free(o)
  BY MoveStanding
<1>3. ops'[o].doc = ops[o].doc /\ ops[o].doc \in Doc
  BY <1>2, MoveFacts
<1>4. ~Deleted(ops[o].doc)
  BY <1>1, <1>3, DeletedSame DEF Deleted
<1>5. Own(o)
  BY <1>2, <1>4 DEF BInv, MarkInv
<1> QED
  BY <1>1, <1>3, <1>5 DEF Own

LEMMA MoveRepair == ASSUME IInv, BInv, RowsMove PROVE RepairInv'
<1> SUFFICES ASSUME NEW o \in Op, ops'[o].kind = "repair", ops'[o].state = "queued"
             PROVE  /\ ~Written(o)' /\ \A m \in late' : m.op # o
                    /\ tx'.op = o => tx'.phase \in {"selected", "read"}
  BY DEF RepairInv
<1>1. late' \subseteq late /\ (Written(o)' <=> Written(o))
  BY MoveFacts DEF RowsMove
<1>2. CASE ~Free(o) /\ ops[o].state = "queued"
  <2>1. ops[o].kind = "repair"
    BY <1>2, MoveFacts
  <2>2. ~Written(o) /\ (\A m \in late : m.op # o) /\ (tx.op = o => tx.phase \in {"selected", "read"})
    BY <1>2, <2>1 DEF BInv, RepairInv
  <2>3. tx' = Idle => tx'.op # o
    BY OpFacts DEF Idle
  <2> QED
    BY <1>1, <1>2, <2>1, <2>2, <2>3 DEF RowsMove, TxGoes
<1>3. CASE Free(o) \/ ops[o].state = "preview"
  <2>1. ~ops[o].started /\ ~Due(o)
    BY <1>3, StartedUsed DEF IInv, RowsInv, RowInv, Due, Free
  <2>2. ~Written(o) /\ \A m \in late : m.op # o
    BY <2>1, WrittenStarted, LateFacts
  <2>3. tx.op # o
    BY <2>1, OpFacts DEF IInv, TxInv, Idle
  <2>4. tx'.op # o
    BY <2>1, <2>3, OpFacts DEF RowsMove, TxGoes, Idle, Head
  <2> QED
    BY <1>1, <2>2, <2>4
<1> QED
  BY <1>2, <1>3, MoveFacts

LEMMA MoveStale == ASSUME IInv, BInv, RowsMove PROVE StaleInv' /\ BlockedUntouched'
<1>1. gw' = gw /\ wrote' = wrote /\ Kept /\ late' \subseteq late
  BY DEF RowsMove
<1>2. ASSUME NEW o \in Op, ops'[o].code = "stale"
      PROVE  /\ ~Free(o) /\ ops'[o].state \in {"blocked", "cancelled"} /\ Blockable(o)
  <2>1. ASSUME ops[o].code = "stale"
        PROVE  ~Free(o) /\ ops[o].state \in {"blocked", "cancelled"} /\ Blockable(o)
    <3>1. /\ ops[o].state \in {"blocked", "cancelled"} /\ ~Creates(o)
          /\ \A m \in late : m.op = o /\ m.what = "record" =>
               m.base < gw[ops[o].doc].rev \/ Deleted(ops[o].doc)
      BY <2>1 DEF BInv, StaleInv
    <3>2. KeepsMarker = {TRUE} /\ ~Deleted(ops[o].doc) => ~Written(o)
      BY <2>1 DEF BInv, BlockedUntouched
    <3> QED
      BY <3>1, <3>2 DEF Blockable, Free
  <2> QED
    BY <1>2, <2>1 DEF RowsMove, RowNew, RowGoes
<1>3. ASSUME NEW o \in Op, ops'[o].code = "stale"
      PROVE  /\ ops'[o].doc = ops[o].doc /\ ops[o].doc \in Doc
             /\ Deleted(ops[o].doc)' <=> Deleted(ops[o].doc)
             /\ Creates(o)' <=> Creates(o)
             /\ Written(o)' <=> Written(o)
  <2>1. ~Free(o)
    BY <1>2, <1>3
  <2>2. ops'[o].doc = ops[o].doc /\ ops[o].doc \in Doc /\ ops'[o].kind = ops[o].kind /\ (Written(o)' <=> Written(o))
    BY <2>1, MoveFacts
  <2>3. Deleted(ops[o].doc)' <=> Deleted(ops[o].doc)
    BY <1>1, <2>2, DeletedSame DEF Deleted
  <2> QED
    BY <2>2, <2>3 DEF Creates
<1>4. StaleInv'
  BY <1>1, <1>2, <1>3 DEF StaleInv, Blockable
<1>5. BlockedUntouched'
  BY <1>1, <1>2, <1>3 DEF BlockedUntouched, Blockable
<1> QED
  BY <1>4, <1>5

LEMMA MovesKeep == ASSUME IInv, BInv, RowsMove PROVE BInv'
BY MoveAlloc, MoveRev, MoveOrder, MovePassed, MoveSpent, MoveMark, MoveRepair, MoveStale DEF BInv

-----------------------------------------------------------------------------
(* Steps that reach a record.                                               *)

\* Parts that only look at the rows and the transaction's operation.
LEMMA RowsRest ==
  ASSUME IInv, AllocInv, OrderInv, UNCHANGED ops, tx'.phase # "idle" => tx.phase # "idle" /\ tx'.op = tx.op
  PROVE  AllocInv' /\ OrderInv'
<1>1. \A o \in Op : (Free(o)' <=> Free(o)) /\ (Due(o)' <=> Due(o))
  BY DEF Free, Due
<1> QED
  BY <1>1 DEF AllocInv, OrderInv

\* A device changes one record and keeps the marker if devices do.
Edited(d) ==
  /\ UNCHANGED <<proj, ops, tx, late, wrote>>
  /\ gw[d].live /\ gw'[d].rev = gw[d].rev + 1
  /\ KeepsMarker = {TRUE} => gw'[d].marker = gw[d].marker
  /\ \A e \in Doc \ {d} : gw'[e] = gw[e]

LEMMA EditedKeeps == ASSUME IInv, BInv, NEW d \in Doc, Edited(d) PROVE BInv'
<1> USE DEF BInv
<1>1. \A e \in Doc : gw[e].rev \in Nat /\ gw'[e].rev \in Nat /\ gw[e].rev <= gw'[e].rev
                     /\ (e = d => gw[e].rev < gw'[e].rev)
  BY DEF Edited, IInv, TypeOK, Record
<1>2. \A o : /\ Written(o)' <=> Written(o)
             /\ Creates(o)' <=> Creates(o)
             /\ Due(o)' <=> Due(o)
             /\ Free(o)' <=> Free(o)
             /\ Standing(o)' <=> Standing(o)
  BY DEF Edited, Written, Creates, Due, Free, Standing
<1>3. UNCHANGED <<proj, ops, tx, late, wrote>>
  BY DEF Edited
<1>4. ASSUME NEW e \in Doc, Deleted(e)
      PROVE  ~gw'[e].live \/ \E w \in wrote : ops[w.op].doc = e /\ Creates(w.op) /\ w.base # 0
  BY <1>4 DEF Edited, Deleted
<1>5. AllocInv' /\ OrderInv'
  BY <1>3, RowsRest
<1>6. RevInv'
  <2>1. \A e \in Doc : proj[e].rev \in Nat
    BY DEF IInv, TypeOK, Record
  <2>2. ASSUME NEW o \in Op, ~Free(o)
        PROVE  ops[o].doc \in Doc /\ ops[o].expected \in Nat
    BY <2>2, RowFacts DEF IInv
  <2>3. tx.phase = "put" => tx.op \in Op /\ ~Free(tx.op) /\ tx.rev \in Nat
    BY PhaseFacts DEF IInv, TypeOK, Publishing
  <2>4. \A e \in Doc : proj[e].rev <= gw'[e].rev
    BY <1>1, <2>1 DEF RevInv
  <2>5. \A o \in Op : ~Free(o) => ops[o].expected <= gw'[ops[o].doc].rev
    BY <1>1, <2>2 DEF RevInv
  <2>6. \A w \in wrote : w.rev = w.base + 1 /\ w.rev <= gw'[ops[w.op].doc].rev
    BY <1>1, WroteFacts DEF RevInv
  <2>7. \A m \in late : m.what = "record" => m.base <= gw'[ops[m.op].doc].rev
    BY <1>1, LateFacts DEF RevInv
  <2>8. tx.phase = "put" => tx.rev <= gw'[ops[tx.op].doc].rev
    BY <1>1, <2>2, <2>3 DEF RevInv
  <2> QED
    BY <1>2, <1>3, <2>4, <2>5, <2>6, <2>7, <2>8 DEF RevInv
<1>7. PassedInv'
  BY <1>2, <1>3 DEF PassedInv
<1>8. SpentInv'
  <2>1. \A o \in Op : Standing(o) => ops[o].doc \in Doc
    BY WrittenStarted, RowFacts DEF IInv, Standing
  <2> SUFFICES ASSUME NEW o \in Op, NEW m \in late, Standing(o), m.what = "record", m.op # o,
                      ops[m.op].doc = ops[o].doc
               PROVE  m.base < gw'[ops[o].doc].rev
    BY <1>2, <1>3 DEF SpentInv
  <2>2. m.base < gw[ops[o].doc].rev /\ m.base \in Nat
    BY LateFacts DEF SpentInv
  <2> QED
    BY <1>1, <2>1, <2>2
<1>9. MarkInv'
  <2> SUFFICES ASSUME KeepsMarker = {TRUE}, NEW o \in Op, Standing(o), ~Deleted(ops[o].doc)'
               PROVE  gw'[ops[o].doc].marker = o
    BY <1>2, <1>3 DEF MarkInv, Own
  <2>1. ops[o].doc \in Doc
    BY WrittenStarted, RowFacts DEF IInv, Standing
  <2>2. ~Deleted(ops[o].doc)
    BY <1>2, <1>3, <1>4, <2>1 DEF Deleted
  <2> QED
    BY <2>1, <2>2 DEF MarkInv, Own, Edited
<1>10. RepairInv'
  BY <1>2, <1>3 DEF RepairInv
<1>11. ASSUME NEW o \in Op, ops[o].code = "stale" PROVE ops[o].doc \in Doc
  BY <1>11, RowFacts DEF IInv, StaleInv, Free
<1>12. StaleInv'
  <2> SUFFICES ASSUME NEW o \in Op, ops[o].code = "stale"
               PROVE  /\ ops[o].state \in {"blocked", "cancelled"} /\ ~Creates(o)
                      /\ \A m \in late : m.op = o /\ m.what = "record" =>
                           m.base < gw'[ops[o].doc].rev \/ Deleted(ops[o].doc)'
    BY <1>2, <1>3 DEF StaleInv
  <2>1. ASSUME NEW m \in late, m.op = o, m.what = "record"
        PROVE  m.base < gw'[ops[o].doc].rev \/ Deleted(ops[o].doc)'
    <3>1. m.base < gw[ops[o].doc].rev \/ Deleted(ops[o].doc)
      BY <2>1 DEF StaleInv
    <3>2. m.base \in Nat /\ ops[o].doc \in Doc
      BY <1>11, LateFacts
    <3>3. Deleted(ops[o].doc) => Deleted(ops[o].doc)'
      BY <1>2, <1>3, <1>4, <3>2 DEF Deleted
    <3> QED
      BY <1>1, <3>1, <3>2, <3>3
  <2> QED
    BY <2>1 DEF StaleInv
<1>13. BlockedUntouched'
  <2> SUFFICES ASSUME KeepsMarker = {TRUE}, NEW o \in Op, ops[o].code = "stale", ~Deleted(ops[o].doc)'
               PROVE  ~Written(o)
    BY <1>2, <1>3 DEF BlockedUntouched
  <2>1. ~Deleted(ops[o].doc)
    BY <1>2, <1>3, <1>4, <1>11 DEF Deleted
  <2> QED
    BY <2>1 DEF BlockedUntouched
<1> QED
  BY <1>5, <1>6, <1>7, <1>8, <1>9, <1>10, <1>12, <1>13

\* The request of an open transaction is left to arrive later.
LEMMA UnansweredKeeps == ASSUME IInv, BInv, NEW o \in Op, Unanswered(o) PROVE BInv'
<1> USE DEF BInv
<1>1. /\ tx.op = o /\ tx.phase \in {"put", "commit", "message"} /\ tx.phase \in Publishing
      /\ tx' = Idle /\ UNCHANGED <<gw, proj, ops, wrote>>
  BY DEF Unanswered, Publishing
<1>2. Due(o) /\ ~Free(o) /\ tx.rev \in Nat
  BY <1>1, PhaseFacts
<1>3. ASSUME NEW m \in late' \ late
      PROVE  m.op = o /\ (m.what = "record" => tx.phase = "put" /\ m.base = tx.rev)
  BY DEF Unanswered
<1>4. \A p : /\ Written(p)' <=> Written(p)
             /\ Creates(p)' <=> Creates(p)
             /\ Due(p)' <=> Due(p)
             /\ Free(p)' <=> Free(p)
             /\ Standing(p)' <=> Standing(p)
             /\ Own(p)' <=> Own(p)
  BY <1>1 DEF Written, Creates, Due, Free, Standing, Own
<1>5. \A d : Deleted(d)' <=> Deleted(d)
  BY <1>1, <1>4 DEF Deleted
<1>6. \A p : Deleted(ops[p].doc)' <=> Deleted(ops[p].doc)
  BY <1>1, <1>4 DEF Deleted
<1>7. tx'.phase = "idle" /\ tx'.op = 0
  BY <1>1 DEF Idle
<1>8. AllocInv' /\ OrderInv'
  BY <1>1, <1>7, RowsRest
<1>9. RevInv'
  <2>1. \A m \in late' : m.what = "record" => m.base <= gw[ops[m.op].doc].rev
    BY <1>1, <1>3 DEF RevInv
  <2> QED
    BY <1>1, <1>4, <1>7, <2>1 DEF RevInv
<1>10. PassedInv'
  BY <1>1, <1>4 DEF PassedInv
<1>11. SpentInv'
  <2> SUFFICES ASSUME NEW p \in Op, NEW m \in late', Standing(p), m.what = "record", m.op # p,
                      ops[m.op].doc = ops[p].doc
               PROVE  m.base < gw[ops[p].doc].rev
    BY <1>1, <1>4 DEF SpentInv
  <2>1. CASE m \in late
    BY <2>1 DEF SpentInv
  <2>2. CASE m \notin late
    BY <1>1, <1>3, <2>2, PutFirst
  <2> QED
    BY <2>1, <2>2
<1>12. MarkInv'
  BY <1>1, <1>4, <1>6 DEF MarkInv
<1>13. RepairInv'
  <2>1. ASSUME NEW p \in Op, ops[p].kind = "repair", ops[p].state = "queued"
        PROVE  p # o /\ ~Written(p) /\ (\A m \in late : m.op # p)
    BY <1>1, <2>1 DEF RepairInv
  <2> QED
    BY <1>1, <1>3, <1>4, <1>7, <2>1, OpFacts DEF RepairInv
<1>14. StaleInv'
  <2>1. ops[o].code # "stale"
    BY <1>2 DEF StaleInv, Due
  <2> QED
    BY <1>1, <1>3, <1>4, <1>6, <2>1 DEF StaleInv
<1>15. BlockedUntouched'
  BY <1>1, <1>4, <1>6 DEF BlockedUntouched
<1> QED
  BY <1>8, <1>9, <1>10, <1>11, <1>12, <1>13, <1>14, <1>15

\* The Gateway takes a record from the open transaction or a late request.
LEMMA PutKeeps ==
  ASSUME IInv, BInv, NEW o \in Op, ops[o].started, NEW base \in Nat, Accepts(ops[o].doc, base),
         IF Creates(o) THEN base = 0 ELSE base = Fence(o) /\ base # 0,
         Put(o, base), UNCHANGED <<proj, ops>>, late' \subseteq late,
         \/ tx.phase = "put" /\ tx.op = o /\ tx.rev = base /\ tx'.phase \in {"commit", "reread"} /\ tx'.op = o
         \/ tx' = tx /\ \E m \in late : m.op = o /\ m.what = "record" /\ m.base = base
  PROVE  BInv'
<1> USE DEF BInv
<1> DEFINE d == ops[o].doc
           r == gw[d].rev
           v == [op |-> o, base |-> r, rev |-> r + 1]
           record == [rev |-> r + 1, marker |-> o, live |-> TRUE]
<1>1. ~Free(o) /\ d \in Doc /\ gw \in [Doc -> Record] /\ r \in Nat
  BY StartedUsed, RowFacts DEF IInv, TypeOK, Record
<1>2. gw' = [gw EXCEPT ![d] = record] /\ wrote' = wrote \cup {v}
  BY DEF Put
<1>3. gw'[d].rev = r + 1 /\ gw'[d].marker = o /\ gw'[d].live /\ \A e \in Doc \ {d} : gw'[e] = gw[e]
  BY <1>1, <1>2
<1>4. v \in wrote' /\ v.op = o /\ v.base = r /\ v.rev = r + 1
  BY <1>2
<1> HIDE DEF v, record
<1>5. \A e \in Doc : gw[e].rev \in Nat /\ gw'[e].rev \in Nat /\ gw[e].rev <= gw'[e].rev
                     /\ (e = d => gw[e].rev < gw'[e].rev)
  BY <1>1, <1>3 DEF Record
<1>6. \A p : /\ Creates(p)' <=> Creates(p)
             /\ Due(p)' <=> Due(p)
             /\ Free(p)' <=> Free(p)
             /\ Written(p)' <=> Written(p) \/ p = o
  BY <1>2, <1>4 DEF Creates, Due, Free, Written
<1>7. \A p : p # o => (Standing(p)' <=> Standing(p))
  BY <1>6 DEF Standing
<1>8. ASSUME Creates(o), r # 0
      PROVE  \E w \in wrote' : ops[w.op].doc = d /\ Creates(w.op) /\ w.base # 0
  BY <1>4, <1>8
<1>9. ASSUME NEW p \in Op, ops[p].doc \in Doc,
             \/ ops[p].doc # d
             \/ \E w \in wrote : ops[w.op].doc = d /\ Creates(w.op) /\ w.base # 0
             \/ Creates(o) /\ r # 0
      PROVE  Deleted(ops[p].doc) => Deleted(ops[p].doc)'
  BY <1>2, <1>3, <1>4, <1>6, <1>8, <1>9 DEF Deleted
<1>10. ~Creates(o) => gw[d].live /\ r = base
  BY DEF Accepts
<1>11. tx'.op = tx.op /\ (tx'.phase # "idle" => tx.phase # "idle") /\ (tx'.phase = "put" => tx' = tx)
  OBVIOUS
<1>12. AllocInv' /\ OrderInv'
  BY <1>11, RowsRest
<1>13. RevInv'
  <2>1. \A e \in Doc : proj[e].rev \in Nat
    BY DEF IInv, TypeOK, Record
  <2>2. ASSUME NEW p \in Op, ~Free(p)
        PROVE  ops[p].doc \in Doc /\ ops[p].expected \in Nat
    BY <2>2, RowFacts DEF IInv
  <2>3. tx.phase = "put" => tx.op \in Op /\ ~Free(tx.op) /\ tx.rev \in Nat
    BY PhaseFacts DEF IInv, TypeOK, Publishing
  <2>4. \A e \in Doc : proj[e].rev <= gw'[e].rev
    BY <1>5, <2>1 DEF RevInv
  <2>5. \A p \in Op : ~Free(p) => ops[p].expected <= gw'[ops[p].doc].rev
    BY <1>5, <2>2 DEF RevInv
  <2>6. \A w \in wrote : w.rev = w.base + 1 /\ w.rev <= gw'[ops[w.op].doc].rev
    BY <1>5, WroteFacts DEF RevInv
  <2>7. \A m \in late : m.what = "record" => m.base <= gw'[ops[m.op].doc].rev
    BY <1>5, LateFacts DEF RevInv
  <2>8. tx.phase = "put" => tx.rev <= gw'[ops[tx.op].doc].rev
    BY <1>5, <2>2, <2>3 DEF RevInv
  <2>9. \A w \in wrote' : w.rev = w.base + 1 /\ w.rev <= gw'[ops[w.op].doc].rev
    BY <1>1, <1>2, <1>3, <1>4, <2>6
  <2>10. \A m \in late' : m.what = "record" => m.base <= gw'[ops[m.op].doc].rev
    BY <2>7
  <2>11. tx'.phase = "put" => tx'.rev <= gw'[ops[tx'.op].doc].rev
    BY <1>11, <2>8
  <2> QED
    BY <1>6, <2>4, <2>5, <2>9, <2>10, <2>11 DEF RevInv
<1>14. PassedInv'
  <2> SUFFICES ASSUME NEW w \in wrote', NEW q \in Op, q < w.op, ~Free(q), ops[q].doc = ops[w.op].doc,
                      ops[q].after = NoOp
               PROVE  ops[q].expected < w.rev
    BY <1>6 DEF PassedInv
  <2>1. CASE w \in wrote
    BY <2>1 DEF PassedInv
  <2>2. CASE w = v
    <3>1. ops[q].expected <= r /\ ops[q].expected \in Nat
      BY <1>4, <2>2, RowFacts DEF RevInv, IInv
    <3> QED
      BY <1>1, <1>4, <2>2, <3>1
  <2> QED
    BY <1>2, <2>1, <2>2
<1>15. SpentInv'
  <2> SUFFICES ASSUME NEW p \in Op, NEW m \in late, Standing(p)', m.what = "record", m.op # p,
                      ops[m.op].doc = ops[p].doc
               PROVE  m.base < gw'[ops[p].doc].rev
    BY <1>6 DEF SpentInv
  <2>1. m.base \in Nat /\ m.base <= gw[ops[p].doc].rev /\ ops[p].doc \in Doc
    BY LateFacts DEF RevInv
  <2>2. CASE ops[p].doc = d
    BY <1>1, <1>3, <2>1, <2>2
  <2>3. CASE ops[p].doc # d
    BY <1>3, <1>7, <2>1, <2>3 DEF SpentInv
  <2> QED
    BY <2>2, <2>3
\* A change that was written stands behind what is written now, or its record was created again.
<1>16. ASSUME NEW p \in Op, Standing(p), p # o, ops[p].doc = d
       PROVE  Creates(o) /\ r # 0
  <2>1. r > 0
    BY <1>16, WrittenRev DEF Standing
  <2>2. base = r => FALSE
    <3>1. base < r
      BY <1>1, <1>16, PutFirst DEF SpentInv
    <3> QED
      BY <1>1, <3>1
  <2> QED
    BY <1>1, <1>10, <2>1, <2>2
<1>17. MarkInv'
  <2> SUFFICES ASSUME KeepsMarker = {TRUE}, NEW p \in Op, Standing(p)', ~Deleted(ops[p].doc)'
               PROVE  gw'[ops[p].doc].marker = p
    BY <1>6 DEF MarkInv, Own
  <2>1. CASE p = o
    BY <1>3, <2>1
  <2>2. CASE p # o
    <3>1. Standing(p) /\ ops[p].doc \in Doc
      BY <1>7, <2>2, WrittenStarted, RowFacts DEF IInv, Standing
    <3>2. ops[p].doc # d
      BY <1>6, <1>8, <1>16, <2>2, <3>1 DEF Deleted
    <3>3. ~Deleted(ops[p].doc)
      BY <1>9, <3>1, <3>2
    <3> QED
      BY <1>3, <3>1, <3>2, <3>3 DEF MarkInv, Own
  <2> QED
    BY <2>1, <2>2
<1>18. RepairInv'
  <2>1. ASSUME NEW p \in Op, ops[p].kind = "repair", ops[p].state = "queued"
        PROVE  p # o /\ ~Written(p) /\ (\A m \in late : m.op # p) /\ (tx.op = p => tx.phase \in {"selected", "read"})
    BY <2>1 DEF RepairInv
  <2> QED
    BY <1>6, <2>1 DEF RepairInv
<1>19. ASSUME NEW p \in Op, ops[p].code = "stale" PROVE ops[p].doc \in Doc
  BY <1>19, RowFacts DEF IInv, StaleInv, Free
<1>20. StaleInv'
  <2> SUFFICES ASSUME NEW p \in Op, ops[p].code = "stale"
               PROVE  /\ ops[p].state \in {"blocked", "cancelled"} /\ ~Creates(p)
                      /\ \A m \in late : m.op = p /\ m.what = "record" =>
                           m.base < gw'[ops[p].doc].rev \/ Deleted(ops[p].doc)'
    BY <1>6 DEF StaleInv
  <2>1. ASSUME NEW m \in late, m.op = p, m.what = "record"
        PROVE  m.base < gw'[ops[p].doc].rev \/ Deleted(ops[p].doc)'
    <3>1. m.base \in Nat /\ m.base <= gw[ops[p].doc].rev /\ ops[p].doc \in Doc
      BY <2>1, LateFacts DEF RevInv
    <3>2. CASE ops[p].doc = d
      BY <1>1, <1>3, <3>1, <3>2
    <3>3. CASE ops[p].doc # d
      BY <1>3, <1>9, <2>1, <3>1, <3>3 DEF StaleInv
    <3> QED
      BY <3>2, <3>3
  <2> QED
    BY <2>1 DEF StaleInv
<1>21. BlockedUntouched'
  <2> SUFFICES ASSUME KeepsMarker = {TRUE}, NEW p \in Op, ops[p].code = "stale", ~Deleted(ops[p].doc)'
               PROVE  ~Written(p)'
    BY <1>6 DEF BlockedUntouched
  <2>1. ops[p].doc \in Doc
    BY <1>19
  <2>2. CASE ops[p].doc # d
    <3>1. ~Deleted(ops[p].doc) /\ p # o
      BY <1>9, <2>1, <2>2
    <3> QED
      BY <1>6, <3>1 DEF BlockedUntouched
  <2>3. CASE ops[p].doc = d
    <3>1. ~(\E w \in wrote : ops[w.op].doc = d /\ Creates(w.op) /\ w.base # 0) /\ ~(Creates(o) /\ r # 0)
      BY <1>2, <1>6, <1>8, <2>3 DEF Deleted
    <3>2. CASE ~Creates(o)
      <4>1. ~Deleted(d)
        BY <1>10, <3>1, <3>2 DEF Deleted
      <4>2. p # o
        <5>1. ~Due(p)
          BY DEF StaleInv, Due
        <5>2. tx.phase = "put" => tx.op # p
          BY <5>1, PhaseFacts DEF Publishing
        <5>3. \A m \in late : m.op = p /\ m.what = "record" => m.base < r
          BY <2>3, <4>1 DEF StaleInv
        <5> QED
          BY <1>1, <1>10, <3>2, <5>2, <5>3
      <4> QED
        BY <1>6, <2>3, <4>1, <4>2 DEF BlockedUntouched
    <3>3. CASE Creates(o)
      <4>1. r = 0 /\ p # o
        BY <3>1, <3>3 DEF StaleInv
      <4>2. ~Written(p)
        BY <2>3, <4>1, WrittenRev
      <4> QED
        BY <1>6, <4>1, <4>2
    <3> QED
      BY <3>2, <3>3
  <2> QED
    BY <2>2, <2>3
<1> QED
  BY <1>12, <1>13, <1>14, <1>15, <1>17, <1>18, <1>20, <1>21

-----------------------------------------------------------------------------
(* Every action is one of the forms.                                        *)

\* The projection never runs ahead of the Gateway.
LEMMA Unmoved ==
  ASSUME IInv, BInv, UNCHANGED <<gw, proj, ops, wrote>>, late' \subseteq late, TxGoes
  PROVE  BInv'
<1>1. RowsMove
  BY Same DEF RowsMove, BInv, RevInv, IInv
<1> QED
  BY <1>1, MovesKeep

LEMMA RollbackKeeps == ASSUME IInv, BInv, Rollback PROVE BInv'
BY Unmoved DEF Rollback, Local, TxGoes

\* A transaction ends with a new state of an operation that waits.
LEMMA ClosesKeeps ==
  ASSUME IInv, BInv, NEW o \in Op, NEW s, NEW c, NEW n, Closes(o, s, c, n), Due(o),
         s \in {"assets_published", "published", "blocked", "superseded", "cancelled"},
         c = "stale" => ops[o].code = "stale" \/ (s = "blocked" /\ Blockable(o))
  PROVE  BInv'
<1>1. ~Free(o) /\ ops[o].code # "stale"
  BY DEF Due, Free, BInv, StaleInv
<1>2. RowGoes(o)
  BY <1>1 DEF RowGoes, Closes
<1>3. RowsMove
  BY <1>2 DEF Closes, Local, RowsMove, TxGoes, BInv, RevInv
<1> QED
  BY <1>3, MovesKeep

LEMMA BlockKeeps ==
  ASSUME IInv, BInv, NEW o \in Op, Due(o), NEW c \in {"none", "stale", "replaced"}, Block(o, c),
         c = "stale" => Blockable(o)
  PROVE  BInv'
<1>1. ~Free(o)
  BY DEF Due, Free
<1> QED
  BY <1>1, BlockCloses, ClosesKeeps DEF IInv

\* A new row with the first free number.
LEMMA AddsKeeps ==
  ASSUME IInv, BInv, ~Overtaking, NEW o \in Op, NextFree(o), NEW row \in OpRow, OwnerOnly,
         ops' = [ops EXCEPT ![o] = row],
         row.state \in {"queued", "preview"}, ~row.started, row.code = "none", row.doc \in Doc,
         row.state = "preview" => row.after = 0,
         row.expected = 0 \/ row.expected = proj[row.doc].rev
  PROVE  BInv'
<1>1. Free(o) /\ \A p \in Op : p < o => ~Free(p)
  BY DEF NextFree
<1>2. Kept /\ ops'[o] = row /\ \A p \in Op \ {o} : ops'[p] = ops[p]
  BY <1>1, RowSet DEF IInv
<1>3. gw[row.doc].rev \in Nat /\ proj[row.doc].rev <= gw[row.doc].rev
  BY DEF IInv, TypeOK, Record, BInv, RevInv
<1>4. row.expected <= gw[row.doc].rev
  BY <1>3
<1>5. RowNew(o)
  BY <1>1, <1>2, <1>4 DEF RowNew, Kept
<1>6. RowsMove
  BY <1>2, <1>5 DEF RowsMove, OwnerOnly, TxGoes, BInv, RevInv
<1> QED
  BY <1>6, MovesKeep

\* The owner's new rows.
LEMMA NewRowsKeep ==
  ASSUME IInv, BInv, ~Overtaking, NEW o \in Op, NEW d \in Doc,
         \/ QueueEdit(o, d) \/ QueueChange(o, d)
         \/ \E k \in {"edit", "repair"} : Preview(o, k, d)
         \/ \E k \in {"create", "shelf"} : QueueCreate(o, k, d)
  PROVE  BInv'
<1> DEFINE new(k, state) == New(k, d, state)
           shown(k, state) == [new(k, state) EXCEPT !.expected = proj[d].rev]
           behind(p) == [new("change", "queued") EXCEPT !.after = p]
<1>1. ASSUME NEW k \in Kinds, NEW state \in {"queued", "preview"}
      PROVE  /\ new(k, state) \in OpRow /\ new(k, state).state = state /\ new(k, state).doc = d
             /\ new(k, state).after = 0 /\ new(k, state).expected = 0
             /\ ~new(k, state).started /\ new(k, state).code = "none"
  <2>1. state \in States
    BY DEF States
  <2> QED
    BY <2>1, NewRow DEF IInv
<1>2. proj[d].rev \in Nat
  BY DEF IInv, TypeOK, Record
<1>3. OwnerOnly /\ NextFree(o)
  BY DEF QueueEdit, QueueChange, Preview, QueueCreate
<1>4. \/ \E k \in Kinds, state \in {"queued", "preview"} :
           ops' \in {[ops EXCEPT ![o] = new(k, state)], [ops EXCEPT ![o] = shown(k, state)]}
      \/ \E p \in Op : ops' = [ops EXCEPT ![o] = behind(p)]
  <2>1. CASE QueueEdit(o, d)
    BY <2>1 DEF QueueEdit, Kinds
  <2>2. CASE QueueChange(o, d)
    BY <2>2 DEF QueueChange, Kinds
  <2>3. CASE \E k \in {"edit", "repair"} : Preview(o, k, d)
    BY <2>3 DEF Preview, Kinds
  <2>4. CASE \E k \in {"create", "shelf"} : QueueCreate(o, k, d)
    BY <2>4 DEF QueueCreate, Kinds
  <2> QED
    BY <2>1, <2>2, <2>3, <2>4
<1> HIDE DEF new
<1>5. ASSUME NEW k \in Kinds, NEW state \in {"queued", "preview"}
      PROVE  /\ shown(k, state) \in OpRow /\ shown(k, state).state = state /\ shown(k, state).doc = d
             /\ shown(k, state).after = 0 /\ shown(k, state).expected = proj[d].rev
             /\ ~shown(k, state).started /\ shown(k, state).code = "none"
  BY <1>1, <1>2 DEF OpRow
<1>6. ASSUME NEW p \in Op
      PROVE  /\ behind(p) \in OpRow /\ behind(p).state = "queued" /\ behind(p).doc = d
             /\ behind(p).expected = 0 /\ ~behind(p).started /\ behind(p).code = "none"
  <2>1. "change" \in Kinds
    BY DEF Kinds
  <2> QED
    BY <1>1, <2>1 DEF OpRow
<1> HIDE DEF shown, behind
<1>7. ASSUME NEW k \in Kinds, NEW state \in {"queued", "preview"}, ops' = [ops EXCEPT ![o] = new(k, state)]
      PROVE  BInv'
  BY <1>1, <1>3, <1>7, AddsKeeps
<1>8. ASSUME NEW k \in Kinds, NEW state \in {"queued", "preview"}, ops' = [ops EXCEPT ![o] = shown(k, state)]
      PROVE  BInv'
  BY <1>3, <1>5, <1>8, AddsKeeps
<1>9. ASSUME NEW p \in Op, ops' = [ops EXCEPT ![o] = behind(p)] PROVE BInv'
  BY <1>3, <1>6, <1>9, AddsKeeps
<1> QED
  BY <1>4, <1>7, <1>8, <1>9

LEMMA ReplacementKeeps ==
  ASSUME IInv, BInv, ~Overtaking, NEW o \in Op, NEW d \in Doc, NEW old \in Doc, QueueReplacement(o, d, old)
  PROVE  BInv'
<1> DEFINE new == New("create", d, "queued")
           plain == New("edit", old, "queued")
           retired == [plain EXCEPT !.expected = proj[old].rev, !.replaces = o]
<1>1. /\ new \in OpRow /\ new.state = "queued" /\ new.doc = d /\ new.expected = 0
      /\ ~new.started /\ new.code = "none"
  BY NewRow DEF Kinds, States, IInv
<1>2. /\ plain \in OpRow /\ plain.state = "queued" /\ plain.doc = old
      /\ ~plain.started /\ plain.code = "none"
  BY NewRow DEF Kinds, States, IInv
<1>3. /\ proj[old].rev \in Nat /\ gw[old].rev \in Nat /\ gw[d].rev \in Nat /\ proj[old].rev <= gw[old].rev
  BY DEF IInv, TypeOK, Record, BInv, RevInv
<1>4. /\ o + 1 \in Op /\ Free(o) /\ Free(o + 1) /\ OwnerOnly /\ \A p \in Op : p < o => ~Free(p)
      /\ ops' = [ops EXCEPT ![o] = new, ![o + 1] = retired]
  BY DEF QueueReplacement, NextFree, RetireLast
<1> HIDE DEF new, plain
<1>5. /\ retired \in OpRow /\ retired.state = "queued" /\ retired.doc = old
      /\ retired.expected = proj[old].rev /\ ~retired.started /\ retired.code = "none"
  BY <1>2, <1>3 DEF OpRow
<1> HIDE DEF retired
<1>6. o \in Nat /\ o + 1 # o /\ \A q \in Op : q < o + 1 => q < o \/ q = o
  BY OpFacts
<1>7. /\ ops' \in [Op -> OpRow] /\ ops'[o] = new /\ ops'[o + 1] = retired
      /\ \A p \in Op \ {o, o + 1} : ops'[p] = ops[p]
  BY <1>1, <1>4, <1>5, <1>6 DEF IInv, TypeOK
<1>8. Kept
  BY <1>4, <1>7 DEF Kept, Free
<1>9. RowNew(o)
  <2>1. \A q \in Op : q < o => ~Free(q)'
    BY <1>4, <1>8 DEF Kept
  <2> QED
    BY <1>1, <1>3, <1>4, <1>7, <2>1 DEF RowNew
<1>10. RowNew(o + 1)
  <2>1. ~Free(o)'
    BY <1>1, <1>7 DEF Free
  <2>2. \A q \in Op : q < o + 1 => ~Free(q)'
    BY <1>4, <1>6, <1>8, <2>1 DEF Kept
  <2> QED
    BY <1>3, <1>4, <1>5, <1>7, <2>2 DEF RowNew
<1>11. RowsMove
  BY <1>4, <1>7, <1>8, <1>9, <1>10 DEF RowsMove, OwnerOnly, TxGoes, BInv, RevInv
<1> QED
  BY <1>11, MovesKeep

\* The owner lets a previewed operation start, cancels one or removes the notebook.
LEMMA StatesKeep ==
  ASSUME IInv, BInv, NEW o, NEW d, (o \in Op /\ (Execute(o) \/ Cancel(o))) \/ AdmitPurge(d)
  PROVE  BInv'
<1> DEFINE queued(p) == [ops[p] EXCEPT !.state = "queued"]
           withdrawn == [ops[o] EXCEPT !.state = "cancelled", !.withdrawn = TRUE]
           cancelled(p) == [ops[p] EXCEPT !.state = "cancelled"]
           Goes(p, row) == /\ row.kind = ops[p].kind /\ row.doc = ops[p].doc
                           /\ row.gen = ops[p].gen /\ row.expected = ops[p].expected
                           /\ row.after = ops[p].after /\ row.replaces = ops[p].replaces
                           /\ row.started = ops[p].started /\ row.published = ops[p].published
                           /\ row.code = ops[p].code
<1>1. ops \in [Op -> OpRow] /\ \A p \in Op : ops[p] \in OpRow
  BY RowFacts DEF IInv, TypeOK
<1>2. ASSUME NEW p \in Op
      PROVE  /\ ops[p].state = "preview" => Goes(p, queued(p)) /\ queued(p).state = "queued"
             /\ p = o => Goes(p, withdrawn) /\ withdrawn.state = "cancelled"
             /\ Goes(p, cancelled(p)) /\ cancelled(p).state = "cancelled"
  <2>1. Goes(p, queued(p)) /\ queued(p).state = "queued"
    BY <1>1 DEF OpRow
  <2>2. Goes(p, cancelled(p)) /\ cancelled(p).state = "cancelled"
    BY <1>1 DEF OpRow
  <2>3. p = o => Goes(p, withdrawn) /\ withdrawn.state = "cancelled"
    BY <1>1 DEF OpRow
  <2> HIDE DEF queued, cancelled, withdrawn, Goes
  <2> QED
    BY <2>1, <2>2, <2>3
<1>3. \A p \in Op : queued(p) \in OpRow /\ cancelled(p) \in OpRow
  BY <1>1, RowWith DEF States
<1>4. o \in Op => withdrawn \in OpRow
  BY <1>1, RowWith DEF States
<1>5. /\ ops' \in [Op -> OpRow]
      /\ \A p \in Op : \/ ops'[p] = ops[p]
                       \/ ops'[p] = queued(p) /\ ops[p].state = "preview"
                       \/ p = o /\ ops'[p] = withdrawn /\ ops[p].state = "queued"
                       \/ ops'[p] = cancelled(p) /\ ~Free(p)
  <2>1. CASE o \in Op /\ Execute(o)
    <3>1. ops' = [ops EXCEPT ![o] = queued(o)] /\ ops[o].state = "preview"
      BY <2>1 DEF Execute
    <3> QED
      BY <1>1, <1>3, <2>1, <3>1
  <2>2. CASE o \in Op /\ Cancel(o)
    <3>1. ops' = [ops EXCEPT ![o] = withdrawn] /\ ops[o].state = "queued"
      BY <2>2 DEF Cancel, Cancellable
    <3> QED
      BY <1>1, <1>4, <2>2, <3>1
  <2>3. CASE AdmitPurge(d)
    <3>1. ops' = [p \in Op |-> IF ops[p].doc = d /\ ops[p].state \notin {"none", "cancelled"}
                               THEN cancelled(p) ELSE ops[p]]
      BY <2>3 DEF AdmitPurge
    <3> QED
      BY <1>1, <1>3, <3>1 DEF Free
  <2> QED
    BY <2>1, <2>2, <2>3
<1> HIDE DEF queued, withdrawn, cancelled
<1>6. ASSUME NEW p \in Op
      PROVE  \/ ops'[p] = ops[p]
             \/ /\ ~Free(p) /\ Goes(p, ops'[p])
                /\ \/ ops'[p].state = "queued" /\ ops[p].state = "preview"
                   \/ ops'[p].state = "cancelled"
  BY <1>2, <1>5 DEF Free
<1>7. Kept
  BY <1>5, <1>6 DEF Kept, Free
<1>8. ASSUME NEW p \in Op PROVE ops'[p] = ops[p] \/ RowGoes(p)
  <2>1. ops[p].code = "stale" => ops[p].state \in {"blocked", "cancelled"}
    BY DEF BInv, StaleInv
  <2> QED
    BY <1>6, <2>1 DEF RowGoes, Due
<1>9. UNCHANGED <<gw, proj, tx, late, wrote>>
  BY DEF Execute, Cancel, AdmitPurge, OwnerOnly
<1>10. RowsMove
  BY <1>7, <1>8, <1>9 DEF RowsMove, TxGoes, BInv, RevInv
<1> QED
  BY <1>10, MovesKeep

LEMMA StartKeeps == ASSUME IInv, BInv, NEW o \in Op, Start(o) PROVE BInv'
<1>1. tx = Idle /\ Head(o) /\ Due(o) /\ ~Free(o) /\ ops[o].code # "stale"
  BY DEF Start, Head, Due, Free, BInv, StaleInv
<1>2. CASE ~Current(o)
  BY <1>1, <1>2, BlockKeeps DEF Start
<1>3. CASE Current(o)
  <2> DEFINE row == [ops[o] EXCEPT !.started = TRUE]
  <2>1. ops[o] \in OpRow
    BY RowFacts DEF IInv
  <2>2. row \in OpRow
    BY <2>1, RowWith DEF States
  <2>3. /\ row.state = ops[o].state /\ row.published = ops[o].published /\ row.code = ops[o].code
        /\ row.kind = ops[o].kind /\ row.doc = ops[o].doc /\ row.gen = ops[o].gen
        /\ row.expected = ops[o].expected /\ row.after = ops[o].after /\ row.replaces = ops[o].replaces
        /\ row.started
    BY <2>1 DEF OpRow
  <2>4. ops' = [ops EXCEPT ![o] = row] /\ Local /\ tx' = [Idle EXCEPT !.phase = "selected", !.op = o]
    BY <1>3 DEF Start
  <2> HIDE DEF row
  <2>5. Kept /\ ops'[o] = row /\ \A p \in Op \ {o} : ops'[p] = ops[p]
    BY <1>1, <2>2, <2>3, <2>4, RowSet DEF Free, IInv
  <2>6. tx'.phase = "selected" /\ tx'.op = o /\ tx.phase = "idle"
    BY <1>1, <2>4 DEF Idle
  <2>7. RowGoes(o)
    BY <1>1, <2>3, <2>5, <2>6 DEF RowGoes, Due
  <2>8. TxGoes
    BY <1>1, <2>6 DEF TxGoes
  <2>9. RowsMove
    BY <2>4, <2>5, <2>7, <2>8 DEF RowsMove, Local, BInv, RevInv
  <2> QED
    BY <2>9, MovesKeep
<1> QED
  BY <1>2, <1>3

\* The transaction goes on.
LEMMA GoesOn ==
  ASSUME IInv, BInv, NEW o \in Op, UNCHANGED <<gw, proj, ops, late, wrote>>, tx'.op = o,
         Head(o) \/ (tx.phase # "idle" /\ tx.op = o),
         tx'.phase = "put" => tx'.rev <= gw[ops[o].doc].rev,
         ops[o].kind = "repair" /\ ops[o].state = "queued" => tx'.phase \in {"selected", "read"}
  PROVE  BInv'
<1>1. TxGoes
  BY DEF TxGoes
<1> QED
  BY <1>1, Unmoved

LEMMA OpenKeeps == ASSUME IInv, BInv, NEW o \in Op, Open(o) PROVE BInv'
<1>1. CASE ~Due(o)
  BY <1>1, RollbackKeeps DEF Open
<1>2. CASE Due(o) /\ ~Current(o)
  BY <1>2, BlockKeeps DEF Open
<1>3. CASE Due(o) /\ Current(o) /\ ops[o].doc \in purged
  <2>1. ~Free(o) /\ "cancelled" \in States \ {"none"} /\ End(o, [ops[o] EXCEPT !.state = "cancelled"])
    BY <1>3 DEF Open, States, Due, Free
  <2>2. "none" \in {"none", "stale", "replaced"} /\ ops[o].published \in Nat
    BY RowFacts DEF IInv
  <2>3. Closes(o, "cancelled", ops[o].code, ops[o].published)
    BY <2>1, <2>2, EndCloses DEF IInv
  <2> QED
    BY <1>3, <2>3, ClosesKeeps
<1>4. CASE Due(o) /\ Current(o) /\ ops[o].doc \notin purged
  <2>1. /\ tx' = [op |-> o, rev |-> 0, phase |-> IF Creates(o) THEN "lookup" ELSE "read"]
        /\ UNCHANGED ops /\ Local
    BY <1>4 DEF Open
  <2>2. tx'.op = o /\ tx'.phase # "put" /\ (ops[o].kind = "repair" => tx'.phase = "read")
    BY <2>1 DEF Creates
  <2>3. Head(o) \/ (tx.phase # "idle" /\ tx.op = o)
    BY DEF Open
  <2> QED
    BY <2>1, <2>2, <2>3, GoesOn DEF Local
<1> QED
  BY <1>1, <1>2, <1>3, <1>4

\* Whoever finds another revision and another's marker has written nothing.
LEMMA StaleBlockable ==
  ASSUME IInv, BInv, NEW o \in Op, Due(o), ~Creates(o),
         ~gw[ops[o].doc].live \/ Stale(o),
         \/ ~gw[ops[o].doc].live
         \/ ops[o].kind = "repair" /\ ops[o].state = "queued"
         \/ ~Own(o)
  PROVE  Blockable(o)
<1>1. ASSUME KeepsMarker = {TRUE}, ~Deleted(ops[o].doc) PROVE ~Written(o)
  <2>1. gw[ops[o].doc].live
    BY <1>1 DEF Deleted
  <2>2. CASE ops[o].kind = "repair" /\ ops[o].state = "queued"
    BY <2>2 DEF BInv, RepairInv
  <2>3. CASE ~Own(o)
    BY <1>1, <2>3 DEF BInv, MarkInv, Standing
  <2> QED
    BY <2>1, <2>2, <2>3
<1>2. ASSUME NEW m \in late, m.op = o, m.what = "record", ~Deleted(ops[o].doc)
      PROVE  m.base < gw[ops[o].doc].rev
  <2>1. Stale(o)
    BY <1>2 DEF Deleted
  <2>2. m.base = Fence(o) /\ m.base # 0
    BY <1>2 DEF IInv, SentInv, LateInv
  <2>3. m.base <= gw[ops[o].doc].rev /\ m.base \in Nat /\ gw[ops[o].doc].rev \in Nat
    BY <1>2, LateFacts DEF BInv, RevInv
  <2> QED
    BY <2>1, <2>2, <2>3 DEF Stale
<1> QED
  BY <1>1, <1>2 DEF Blockable

LEMMA ReadKeeps == ASSUME IInv, BInv, NEW o \in Op, Read(o) PROVE BInv'
<1> DEFINE d == ops[o].doc
           first == ops[o].kind = "repair" /\ ops[o].state = "queued"
<1>1. tx.op = o /\ tx.phase = "read" /\ tx.phase \in Publishing /\ ~Creates(o) /\ tx.phase # "idle"
  BY DEF Read, Publishing, IInv, TxInv
<1>2. Due(o) /\ ~Free(o) /\ ops[o].published = 0 /\ gw[d].rev \in Nat /\ tx.rev \in Nat
  BY <1>1, PhaseFacts
<1>3. ASSUME Block(o, "none") PROVE BInv'
  BY <1>2, <1>3, BlockKeeps
<1>4. ASSUME ~gw[d].live \/ (Stale(o) /\ (first \/ ~Own(o))), Block(o, "stale") PROVE BInv'
  <2>1. Blockable(o)
    BY <1>1, <1>2, <1>4, StaleBlockable
  <2> QED
    BY <1>2, <1>4, <2>1, BlockKeeps
<1>5. ASSUME Rollback PROVE BInv'
  BY <1>5, RollbackKeeps
<1>6. ASSUME End(o, [ops[o] EXCEPT !.state = "assets_published"]) PROVE BInv'
  <2>1. "assets_published" \in States \ {"none"}
    BY DEF States
  <2>2. Closes(o, "assets_published", ops[o].code, 0)
    BY <1>2, <1>6, <2>1, EndCloses DEF IInv
  <2> QED
    BY <1>2, <2>2, ClosesKeeps
<1>7. ASSUME ~first, UNCHANGED ops, Local,
             \/ To("reread") \/ Holding(gw[d].rev, "commit") \/ Holding(gw[d].rev, "put")
      PROVE  BInv'
  <2>1. \E rev, phase : /\ Moves(o, rev, phase) /\ phase \in {"reread", "commit", "put"}
                        /\ phase = "put" => rev = gw[d].rev
    BY <1>1, <1>2, <1>7, MovesTo DEF Phases, Publishing
  <2> QED
    BY <1>1, <1>2, <1>7, <2>1, GoesOn DEF Moves, Local
<1> QED
  BY <1>1, <1>3, <1>4, <1>5, <1>6, <1>7 DEF Read

LEMMA LookupKeeps == ASSUME IInv, BInv, NEW o \in Op, Lookup(o) PROVE BInv'
<1> DEFINE d == ops[o].doc
<1>1. tx.op = o /\ tx.phase = "lookup" /\ tx.phase \in Publishing /\ ops[o].kind # "repair" /\ tx.phase # "idle"
  BY DEF Lookup, Publishing, IInv, TxInv, Creates
<1>2. Due(o) /\ gw[d].rev \in Nat /\ tx.rev \in Nat
  BY <1>1, PhaseFacts
<1>3. ASSUME Block(o, "none") PROVE BInv'
  BY <1>2, <1>3, BlockKeeps
<1>4. ASSUME Rollback PROVE BInv'
  BY <1>4, RollbackKeeps
<1>5. ASSUME To("reread") \/ Holding(0, "put"), UNCHANGED ops, Local PROVE BInv'
  <2>1. \E rev, phase : Moves(o, rev, phase) /\ (phase = "put" => rev = 0)
    BY <1>1, <1>2, <1>5, MovesTo DEF Phases, Publishing
  <2> QED
    BY <1>1, <1>2, <1>5, <2>1, GoesOn DEF Moves, Local
<1> QED
  BY <1>3, <1>4, <1>5 DEF Lookup

\* A phase after the record: not of a repair whose assets are still to be written.
LEMMA LaterPhase ==
  ASSUME IInv, BInv, NEW o \in Op, tx.op = o, tx.phase \in Publishing \ {"read"}
  PROVE  ~(ops[o].kind = "repair" /\ ops[o].state = "queued") /\ tx.phase # "idle"
BY DEF BInv, RepairInv, Publishing

LEMMA RereadKeeps == ASSUME IInv, BInv, NEW o \in Op, Reread(o) PROVE BInv'
<1> DEFINE d == ops[o].doc
<1>1. tx.op = o /\ tx.phase = "reread" /\ tx.phase \in Publishing \ {"read"}
  BY DEF Reread, Publishing
<1>2. Due(o) /\ ~Free(o) /\ ops[o].published = 0 /\ gw[d].rev \in Nat
  BY <1>1, PhaseFacts
<1>3. ASSUME Rollback PROVE BInv'
  BY <1>3, RollbackKeeps
<1>4. ASSUME NEW phase \in IF Library(o) THEN {"commit", "message"} ELSE {"commit"},
             Holding(gw[d].rev, phase), UNCHANGED ops, Local
      PROVE  BInv'
  <2>1. phase \in {"commit", "message"}
    OBVIOUS
  <2>2. Moves(o, gw[d].rev, phase)
    BY <1>1, <1>2, <1>4, <2>1, MovesTo DEF Phases, Publishing
  <2> QED
    BY <1>1, <1>4, <2>1, <2>2, LaterPhase, GoesOn DEF Moves, Local
<1>5. ASSUME End(o, [ops[o] EXCEPT !.state = "superseded", !.published = gw[d].rev]) PROVE BInv'
  <2>1. "superseded" \in States \ {"none"}
    BY DEF States
  <2>2. Closes(o, "superseded", ops[o].code, gw[d].rev)
    BY <1>2, <1>5, <2>1, EndCloses DEF IInv
  <2> QED
    BY <1>2, <2>2, ClosesKeeps
<1> QED
  BY <1>3, <1>4, <1>5 DEF Reread

LEMMA TellsKeeps == ASSUME IInv, BInv, NEW o \in Op, PutCommit(o) \/ PutMessage(o) PROVE BInv'
<1>1. tx.op = o /\ tx.phase \in {"commit", "message"} /\ tx.phase \in Publishing \ {"read"}
  BY DEF PutCommit, PutMessage, Publishing
<1>2. tx \in [phase : Phases, op : Op \cup {NoOp}, rev : Nat]
  BY DEF IInv, TypeOK
<1>3. tx'.phase \in {"message", "finish"} /\ tx'.op = o
  BY <1>1, <1>2 DEF PutCommit, PutMessage, To
<1> QED
  BY <1>1, <1>3, LaterPhase, GoesOn DEF PutCommit, PutMessage

LEMMA FinishKeeps == ASSUME IInv, BInv, NEW o \in Op, Finish(o) PROVE BInv'
<1>1. tx.op = o /\ tx.phase \in Publishing
  BY DEF Finish, Publishing
<1>2. Due(o) /\ ~Free(o) /\ ops[o].published = 0 /\ tx.rev \in Nat
  BY <1>1, PhaseFacts
<1>3. "published" \in States \ {"none"} /\ End(o, [ops[o] EXCEPT !.state = "published", !.published = tx.rev])
  BY DEF States, Finish
<1>4. Closes(o, "published", ops[o].code, tx.rev)
  BY <1>2, <1>3, EndCloses DEF IInv
<1> QED
  BY <1>2, <1>4, ClosesKeeps

LEMMA PutRecordKeeps == ASSUME IInv, BInv, NEW o \in Op, PutRecord(o) PROVE BInv'
<1>1. tx.op = o /\ tx.phase = "put" /\ tx.phase \in Publishing
      /\ IF Creates(o) THEN tx.rev = 0 ELSE tx.rev = Fence(o) /\ tx.rev # 0
  BY DEF PutRecord, Publishing, IInv, TxInv
<1>2. ops[o].started /\ tx.rev \in Nat
  BY <1>1, PhaseFacts
<1>3. CASE ~Accepts(ops[o].doc, tx.rev)
  BY <1>3, RollbackKeeps DEF PutRecord
<1>4. CASE Accepts(ops[o].doc, tx.rev)
  <2>1. /\ Put(o, tx.rev) /\ UNCHANGED <<proj, ops, late>>
        /\ Holding(gw[ops[o].doc].rev + 1, "commit") \/ To("reread")
    BY <1>4 DEF PutRecord
  <2>2. tx \in [phase : Phases, op : Op \cup {NoOp}, rev : Nat]
    BY DEF IInv, TypeOK
  <2>3. tx'.phase \in {"commit", "reread"} /\ tx'.op = o
    BY <1>1, <2>1, <2>2 DEF Holding, To
  <2> QED
    BY <1>1, <1>2, <1>4, <2>1, <2>3, PutKeeps
<1> QED
  BY <1>3, <1>4

LEMMA ArrivesKeeps == ASSUME IInv, BInv, NEW m \in late, Arrives(m) \/ Lost(m) PROVE BInv'
<1>1. late' \subseteq late /\ UNCHANGED <<proj, ops, tx>>
  BY DEF Arrives, Lost
<1>2. CASE UNCHANGED <<gw, wrote>>
  BY <1>1, <1>2, Unmoved DEF TxGoes
<1>3. CASE m.what = "record" /\ Accepts(ops[m.op].doc, m.base) /\ Put(m.op, m.base)
  <2>1. IF Creates(m.op) THEN m.base = 0 ELSE m.base = Fence(m.op) /\ m.base # 0
    BY <1>3 DEF IInv, SentInv, LateInv
  <2>2. m.op \in Op /\ m.base \in Nat /\ ops[m.op].started
    BY LateFacts
  <2> QED
    BY <1>1, <1>3, <2>1, <2>2, PutKeeps
<1>4. m.what \in {"record", "commit", "message"}
  BY DEF IInv, TypeOK, Write
<1> QED
  BY <1>2, <1>3, <1>4 DEF Arrives, Lost

LEMMA DeviceKeeps ==
  ASSUME IInv, BInv, NEW d \in Doc, NEW keep \in KeepsMarker, DeviceEdits(d, keep) \/ DeviceDeletesRecord(d)
  PROVE  BInv'
<1>1. gw \in [Doc -> Record] /\ gw[d].live
  BY DEF IInv, TypeOK, DeviceEdits, DeviceDeletesRecord
<1>2. PICK marker, live : gw' = [gw EXCEPT ![d] = [rev |-> gw[d].rev + 1, marker |-> marker, live |-> live]]
                          /\ (KeepsMarker = {TRUE} => marker = gw[d].marker)
  <2>1. CASE DeviceEdits(d, keep)
    <3> DEFINE kept == IF keep THEN gw[d].marker ELSE NoOp
    <3>1. gw' = [gw EXCEPT ![d] = [rev |-> gw[d].rev + 1, marker |-> kept, live |-> TRUE]]
      BY <2>1 DEF DeviceEdits
    <3>2. KeepsMarker = {TRUE} => kept = gw[d].marker
      OBVIOUS
    <3> QED
      BY <3>1, <3>2
  <2>2. CASE DeviceDeletesRecord(d)
    BY <2>2 DEF DeviceDeletesRecord
  <2> QED
    BY <2>1, <2>2
<1>3. Edited(d)
  BY <1>1, <1>2 DEF Edited, DeviceEdits, DeviceDeletesRecord
<1> QED
  BY <1>3, EditedKeeps

LEMMA ObserveKeeps == ASSUME IInv, BInv, NEW d \in Doc, Observe(d) PROVE BInv'
<1>1. \A e \in Doc : proj'[e].rev <= gw[e].rev
  <2>1. gw[d].rev \in Nat /\ Absent.rev = 0 /\ proj \in [Doc -> Record]
    BY DEF IInv, TypeOK, Record, Absent
  <2>2. proj'[d].rev <= gw[d].rev /\ \A e \in Doc \ {d} : proj'[e] = proj[e]
    BY <2>1 DEF Observe
  <2> QED
    BY <2>2 DEF BInv, RevInv
<1>2. RowsMove
  BY <1>1, Same DEF Observe, RowsMove, TxGoes, IInv
<1> QED
  BY <1>2, MovesKeep

LEMMA BInit == ASSUME Init PROVE BInv
<1>1. \A o \in Op : Free(o) /\ ~Due(o) /\ ~ops[o].started /\ ops[o].state = "none" /\ ops[o].code = "none"
  BY DEF Init, Unused, Free, Due
<1>2. \A d \in Doc : gw[d].rev \in Nat /\ proj[d] = gw[d]
  BY InitInv DEF Init, IInv, TypeOK, Record
<1>3. AllocInv /\ RevInv
  BY <1>1, <1>2 DEF AllocInv, RevInv, Init, Idle
<1>4. OrderInv /\ PassedInv /\ SpentInv /\ MarkInv
  BY <1>1 DEF OrderInv, PassedInv, SpentInv, MarkInv, Standing, Init, Idle
<1>5. RepairInv /\ StaleInv /\ BlockedUntouched
  BY <1>1 DEF RepairInv, StaleInv, BlockedUntouched
<1> QED
  BY <1>3, <1>4, <1>5 DEF BInv

LEMMA BNext == ASSUME IInv, BInv, ~Overtaking, [Next]_vars PROVE BInv'
<1>1. CASE Device
  <2>1. ASSUME NEW d \in Doc, DeviceDeletesRecord(d) PROVE BInv'
    <3>1. Edited(d)
      <4>1. gw \in [Doc -> Record]
        BY DEF IInv, TypeOK
      <4> QED
        BY <2>1, <4>1 DEF DeviceDeletesRecord, Edited
    <3> QED
      BY <3>1, EditedKeeps
  <2> QED
    BY <1>1, <2>1, DeviceKeeps DEF Device
<1>2. CASE Owner
  <2>1. ASSUME NEW o \in Op, NEW d \in Doc,
               \/ QueueEdit(o, d) \/ QueueChange(o, d)
               \/ \E k \in {"edit", "repair"} : Preview(o, k, d)
               \/ \E k \in {"create", "shelf"} : QueueCreate(o, k, d)
               \/ \E old \in Doc : QueueReplacement(o, d, old)
        PROVE  BInv'
    BY <2>1, NewRowsKeep, ReplacementKeeps
  <2>2. ASSUME ReplaceLibrary PROVE BInv'
    BY <2>2, Unmoved DEF ReplaceLibrary, TxGoes
  <2> QED
    BY <1>2, <2>1, <2>2, StatesKeep DEF Owner
<1>3. CASE \E d \in Doc : Observe(d)
  BY <1>3, ObserveKeeps
<1>4. CASE Publish
  BY <1>4, StartKeeps, OpenKeeps, ReadKeeps, LookupKeeps, PutRecordKeeps, RereadKeeps, TellsKeeps, FinishKeeps
     DEF Publish
<1>5. CASE Trouble
  <2>1. Fails => BInv'
    BY RollbackKeeps DEF Fails
  <2> QED
    BY <1>5, <2>1, UnansweredKeeps, ArrivesKeeps DEF Trouble
<1>6. CASE UNCHANGED vars
  BY <1>6, Unmoved DEF vars, TxGoes
<1> QED
  BY <1>1, <1>2, <1>3, <1>4, <1>5, <1>6 DEF Next

\* While transactions commit in the order they began, an operation reported as blocked by a
\* native edit has not changed the record (the marker check of publishOne).
THEOREM BlockedStaysUntouched == ASSUME ~Overtaking PROVE Spec => []BlockedUntouched
<1>1. Init => IInv /\ BInv
  BY InitInv, BInit
<1>2. IInv /\ BInv /\ [Next]_vars => (IInv /\ BInv)'
  BY NextInv, BNext
<1>3. IInv /\ BInv => BlockedUntouched
  BY DEF BInv
<1> QED
  BY <1>1, <1>2, <1>3, PTL DEF Spec
=============================================================================
