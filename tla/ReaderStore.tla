----------------------------- MODULE ReaderStore -----------------------------
(***************************************************************************)
(* internal/alexandria/reader, contract/domain.go: what readers write about *)
(* books.  The relay puts each op of a device into an inbox; sweeps of any  *)
(* number of processes pass the inbox, page by page, through the domain's   *)
(* rules into mirrors that hold the winner of each row.  Ops arrive in any  *)
(* order, so a row may come before what it refers to.                       *)
(*                                                                          *)
(* An op is a record: table, id, by (its author), at (its place in the      *)
(* order of versions), and what the rules look at: creator of an annotation,*)
(* annotation, owner and state of a session, annotation and session of a    *)
(* stroke, session and stroke of an erase claim.                            *)
(***************************************************************************)
EXTENDS Naturals, Sequences, FiniteSets, Functions

CONSTANTS
  Authored, \* the ops devices author, each with its own version
  Sweeper,  \* processes
  PageSize, \* rows of a page (32)
  MaxPages, \* pages of a sweep (64)
  NoRow

VARIABLES
  inbox,  \* reader_store_incoming: the ops received, in order of arrival
  state,  \* the state of each
  mirror, \* the fn_reader_ tables: the winner of each row
  sweep   \* the locals of each Sweep

rvars == <<inbox, state, mirror, sweep>>

KeyOf(o) == <<o.table, o.id>>
Key == {KeyOf(o) : o \in Authored}
Idle == [phase |-> "idle"]
States == {"absent", "pending", "applied", "quarantined"}

Place == {0} \cup DOMAIN inbox
Pass ==
  {Idle}
  \cup [phase : {"read"}, after : Place, pages : Nat, progress : BOOLEAN, quiet : BOOLEAN]
  \cup [phase : {"apply"}, page : SUBSET DOMAIN inbox, next : Place, pages : Nat,
        progress : BOOLEAN, quiet : BOOLEAN]
  \cup [phase : {"done"}, quiet : BOOLEAN, cut : BOOLEAN]

TypeOK ==
  /\ inbox \in Seq(Authored) /\ IsInjective(inbox)
  /\ state \in [Authored -> States]
  /\ Range(inbox) = {o \in Authored : state[o] # "absent"}
  /\ mirror \in [Key -> Authored \cup {NoRow}]
  /\ sweep \in [Sweeper -> Pass]

Init ==
  /\ inbox = <<>> /\ state = [o \in Authored |-> "absent"]
  /\ mirror = [k \in Key |-> NoRow]
  /\ sweep = [d \in Sweeper |-> Idle]

\* A change of the inbox or the mirrors while other processes sweep.
Disturbed ==
  [d \in Sweeper |-> IF sweep[d] = Idle THEN Idle ELSE [sweep[d] EXCEPT !.quiet = FALSE]]

\* CommitTx, in the transaction of a push.  A repeated op is known by its identity.
Receive(o) ==
  /\ state[o] = "absent"
  /\ inbox' = Append(inbox, o) /\ state' = [state EXCEPT ![o] = "pending"]
  /\ sweep' = Disturbed
  /\ UNCHANGED mirror

-----------------------------------------------------------------------------
(* The rules.                                                               *)

Row(m, table, id) == IF <<table, id>> \in Key THEN m[<<table, id>>] ELSE NoRow

\* Columns a row never changes: all of an annotation or stroke.
Conflict(o, old) ==
  \/ o.table = "annotation" /\ o.creator # old.creator
  \/ o.table = "session" /\ (o.annotation # old.annotation \/ o.owner # old.owner)
  \/ o.table = "stroke" /\ (o.annotation # old.annotation \/ o.session # old.session)
  \/ o.table = "claim" /\ (o.session # old.session \/ o.stroke # old.stroke)

\* Fault: whatever comes after a terminal state is refused.
ReopensAlways(o, old) == old.state # "open" /\ old.state # o.state

\* A session that ended does not change its end, nor is it opened again.  An open
\* row that is older came late.
Reopens(o, old) ==
  /\ old.state # "open" /\ old.state # o.state
  /\ o.state # "open" \/ o.at >= old.at

CheckSession(o, m) ==
  LET annotation == Row(m, "annotation", o.annotation)
      old == m[KeyOf(o)]
  IN
  IF o.owner # o.by THEN "quarantined"
  ELSE IF annotation = NoRow THEN "pending"
  ELSE IF \/ annotation.creator = o.id /\ annotation.by # o.by
          \/ old # NoRow /\ Reopens(o, old)
       THEN "quarantined"
  ELSE "applied"

CheckContribution(o, m) ==
  LET session == Row(m, "session", o.session) IN
  IF session = NoRow THEN "pending"
  ELSE IF session.owner # o.by THEN "quarantined"
  ELSE IF o.table = "stroke"
       THEN IF o.annotation # session.annotation THEN "quarantined" ELSE "applied"
  ELSE LET stroke == Row(m, "stroke", o.stroke) IN
       IF stroke = NoRow THEN "pending"
       ELSE IF stroke.annotation # session.annotation THEN "quarantined" ELSE "applied"

\* CheckPrepared.
Check(o, m) ==
  IF m[KeyOf(o)] # NoRow /\ Conflict(o, m[KeyOf(o)]) THEN "quarantined"
  ELSE CASE o.table = "session" -> CheckSession(o, m)
         [] o.table \in {"stroke", "claim"} -> CheckContribution(o, m)
         [] OTHER -> "applied"

Wins(o, old) == old = NoRow \/ old.at < o.at

\* What the devices author: ids are theirs, columns that never change do not, and an
\* owner ends a session once, after it was open.
ReaderAssumption ==
  /\ NoRow \notin Authored /\ PageSize \in Nat \ {0} /\ MaxPages \in Nat
  /\ \A o \in Authored : o.table \in {"annotation", "session", "stroke", "claim"} /\ o.at \in Nat
  /\ \A o, p \in Authored : KeyOf(o) = KeyOf(p) =>
       /\ ~Conflict(o, p) /\ (o.table = "annotation" => o.by = p.by)
       /\ o.table = "session" /\ p.state # "open" =>
            o.state = p.state \/ (o.state = "open" /\ o.at < p.at)

\* One row of a page; a row another sweep settled meanwhile is left out.
Settle(acc, o) ==
  LET decision == Check(o, acc.mirror) IN
  IF acc.state[o] # "pending" THEN acc
  ELSE [mirror |-> IF decision = "applied" /\ Wins(o, acc.mirror[KeyOf(o)])
                   THEN [acc.mirror EXCEPT ![KeyOf(o)] = o] ELSE acc.mirror,
        state |-> [acc.state EXCEPT ![o] = decision],
        progress |-> acc.progress \/ decision # "pending"]

-----------------------------------------------------------------------------
(* Sweep: pages of pending rows, from the first again while rows settle.    *)

Begin(d) ==
  /\ sweep[d].phase \in {"idle", "done"} /\ \E o \in Authored : state[o] = "pending"
  /\ sweep' = [sweep EXCEPT ![d] = [phase |-> "read", after |-> 0, pages |-> 0,
                                    progress |-> FALSE, quiet |-> TRUE]]
  /\ UNCHANGED <<inbox, state, mirror>>

Waiting(after) == {i \in DOMAIN inbox : i > after /\ state[inbox[i]] = "pending"}

\* pendingPage, before the locks are taken: the first PageSize rows that wait.
ReadPage(d) ==
  /\ sweep[d].phase = "read"
  /\ LET s == sweep[d]
         waiting == Waiting(s.after)
         page == {i \in waiting : Cardinality({j \in waiting : j < i}) < PageSize}
     IN \E next \in IF Cardinality(waiting) > PageSize
                    THEN {i \in page : \A j \in page : j <= i} ELSE {0} :
          sweep' = [sweep EXCEPT ![d] =
            [phase |-> "apply", page |-> page, next |-> next,
             pages |-> s.pages, progress |-> s.progress, quiet |-> s.quiet]]
  /\ UNCHANGED <<inbox, state, mirror>>

\* The rows of a page, in the order of the inbox.
Settled(page, start) ==
  LET upTo[i \in 0..Len(inbox)] ==
        IF i = 0 THEN start
        ELSE IF i \in page THEN Settle(upTo[i - 1], inbox[i]) ELSE upTo[i - 1]
  IN upTo[Len(inbox)]

\* Rows that settled may let earlier ones settle.
Again(progress) == progress

\* apply, one transaction under the reader lock, and the loop of Sweep.  A sweep
\* that ends because nothing settled has seen every row; one that ran out of pages
\* ("cut") has not.
Apply(d) ==
  /\ sweep[d].phase = "apply"
  /\ LET s == sweep[d]
         done == Settled(s.page, [mirror |-> mirror, state |-> state, progress |-> s.progress])
         pages == s.pages + 1
         local ==
           IF s.next # 0 /\ pages < MaxPages
           THEN [phase |-> "read", after |-> s.next, pages |-> pages,
                 progress |-> done.progress, quiet |-> s.quiet]
           ELSE IF Again(done.progress) /\ s.next = 0 /\ pages < MaxPages
           THEN [phase |-> "read", after |-> 0, pages |-> pages, progress |-> FALSE, quiet |-> TRUE]
           ELSE [phase |-> "done", quiet |-> s.quiet,
                 cut |-> s.next # 0 \/ (Again(done.progress) /\ pages >= MaxPages)]
     IN
     /\ mirror' = done.mirror /\ state' = done.state
     /\ sweep' = [IF done.state = state THEN sweep ELSE Disturbed EXCEPT ![d] = local]
  /\ UNCHANGED inbox

\* The process stops, or a statement fails and its page is rolled back.
Stop(d) ==
  /\ sweep[d] # Idle /\ sweep' = [sweep EXCEPT ![d] = Idle]
  /\ UNCHANGED <<inbox, state, mirror>>

Next ==
  \/ \E o \in Authored : Receive(o)
  \/ \E d \in Sweeper : Begin(d) \/ ReadPage(d) \/ Apply(d) \/ Stop(d)

Spec == Init /\ [][Next]_rvars

-----------------------------------------------------------------------------
(* Properties.                                                              *)

\* What all the ops together make, whatever order they come in: those of owners,
\* whose annotation, session and stroke are there too.
Annotations == {o \in Authored : o.table = "annotation"}
Sessions == {o \in Authored : o.table = "session" /\ o.owner = o.by /\ \E a \in Annotations :
               a.id = o.annotation /\ (a.creator = o.id => a.by = o.by)}
Strokes == {o \in Authored : o.table = "stroke" /\ \E s \in Sessions :
              s.id = o.session /\ s.owner = o.by /\ s.annotation = o.annotation}
Claims == {o \in Authored : o.table = "claim" /\ \E s \in Sessions, k \in Strokes :
             s.id = o.session /\ s.owner = o.by /\ k.id = o.stroke /\ k.annotation = s.annotation}
Sound == Annotations \cup Sessions \cup Strokes \cup Claims

Movable == \E o \in Authored : state[o] = "pending" /\ Check(o, mirror) # "pending"

\* The mirrors depend on the ops received and not on the order they came in, the
\* pages they fell into or the sweeps that met (reader/store.go:152-210;
\* contract/domain.go:76-170).
Converged ==
  Range(inbox) = Authored /\ ~Movable =>
    /\ \A o \in Authored : state[o] = "applied" <=> o \in Sound
    /\ \A k \in Key : IF mirror[k] = NoRow THEN \A o \in Sound : KeyOf(o) # k
                      ELSE /\ mirror[k] \in Sound /\ KeyOf(mirror[k]) = k
                           /\ \A o \in Sound : KeyOf(o) = k => o.at <= mirror[k].at

\* A sweep that no other one and no push met leaves no row it could have settled,
\* if it did not run out of pages (reader/store.go:299-328).
SweepDrains ==
  \A d \in Sweeper : sweep[d].phase = "done" /\ sweep[d].quiet /\ ~sweep[d].cut => ~Movable
===============================================================================
