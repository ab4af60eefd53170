----------------------------- MODULE ReaderSearch ----------------------------
(***************************************************************************)
(* internal/alexandria/readersearch, reader/store.go: the index of what is  *)
(* written in books.  Every change of a mirror row is in a journal; a pump  *)
(* turns entries into jobs, one at a time; workers lease jobs and publish a *)
(* document for each annotation the row is part of, made from a snapshot.   *)
(* A search leaves out documents older than a change that affects them.     *)
(* Processes overlap and crash, leases lapse, and a restore replaces the    *)
(* library, its journal and the index.                                      *)
(***************************************************************************)
EXTENDS Naturals, FiniteSets, Functions

CONSTANTS
  AnnotationCount, \* annotations there are, all of one book
  Worker,
  Pumper,      \* workers that pump (every one)
  Limit,       \* annotations of a step (32)
  MaxEvents    \* bound: changes of the mirrors, restores and lapsed leases together

SearchAssumption ==
  AnnotationCount \in Nat /\ Limit \in Nat \ {0} /\ MaxEvents \in Nat /\ Pumper \subseteq Worker

Annotation == 1..AnnotationCount  \* in the order of their ids
BookRow == 0
Row == Annotation \cup {BookRow}

VARIABLES
  last,      \* the journal's last number
  journal,   \* reader_store_changes: the row each number is for
  cursor,    \* reader_store_change_cursor
  inputs,    \* the mirrors: each annotation's last change, 0 where it is not there
  ready,     \* the annotations that have something to show
  jobs,      \* reader_search_jobs, by seq
  documents, \* reader_search_documents
  pump,      \* the entry each Pump handed over, not yet completed
  work,      \* the locals of each Step
  newest,    \* the newest revision published of each annotation
  overtaken, \* the annotations an older publication came last for
  events     \* changes, restores and lapsed leases so far

svars == <<last, journal, cursor, inputs, ready, jobs, documents, pump, work,
           newest, overtaken, events>>

NoDocument == [of |-> 0, revision |-> 0]
Idle == [phase |-> "idle"]

Document == [of : 0..last, revision : 0..last]
Step ==
  {Idle}
  \cup [phase : {"query"}, job : 1..last, row : Row, after : 0..AnnotationCount]
  \cup [phase : {"publish"}, job : 1..last, left : SUBSET Annotation, full : BOOLEAN]
  \cup [phase : {"made", "checked"}, job : 1..last, left : SUBSET Annotation,
        full : BOOLEAN, at : Annotation, made : Document]

TypeOK ==
  /\ last \in Nat
  /\ DOMAIN journal \subseteq 1..last /\ journal \in [DOMAIN journal -> Row]
  /\ cursor \in 0..last /\ inputs \in [Annotation -> 0..last] /\ ready \subseteq Annotation
  /\ DOMAIN jobs \subseteq 1..last
  /\ jobs \in [DOMAIN jobs -> [after : 0..AnnotationCount, done : BOOLEAN, leased : BOOLEAN]]
  /\ documents \in [Annotation -> Document]
  /\ pump \in [Pumper -> 0..last]
  /\ work \in [Worker -> Step]
  /\ newest \in [Annotation -> 0..last] /\ overtaken \subseteq Annotation
  /\ events \in 0..MaxEvents

\* A library that is indexed.
Init ==
  /\ last = AnnotationCount /\ inputs = [a \in Annotation |-> a]
  /\ journal = [s \in 1..last |-> s] /\ cursor = last /\ ready = Annotation
  /\ jobs = [s \in 1..last |-> [after |-> s, done |-> TRUE, leased |-> FALSE]]
  /\ documents = [a \in Annotation |-> [of |-> a, revision |-> a]]
  /\ pump = [p \in Pumper |-> 0]
  /\ work = [w \in Worker |-> Idle]
  /\ newest = inputs /\ overtaken = {} /\ events = 0

Present == {a \in Annotation : inputs[a] > 0}

\* affects: the annotations a row is part of.
Affects(row) == IF row = BookRow THEN Present ELSE {row} \cap Present

\* Fault: the title of the book is not taken for a part of the document.
DirtyOfInk(a, revision) == \E s \in DOMAIN journal : s > revision /\ journal[s] = a

\* dirty: a later change affects the annotation.
Dirty(a, revision) ==
  \E s \in DOMAIN journal : s > revision /\ journal[s] \in {a, BookRow} /\ a \in Present

First(S) == {s \in S : \A t \in S : s <= t}

-----------------------------------------------------------------------------
(* The mirrors.                                                             *)

Happens == events < MaxEvents /\ events' = events + 1

\* A drain stores a row, with its journal entry.
Change ==
  /\ Happens /\ last' = last + 1
  /\ \E row \in Row :
       /\ journal' = [s \in DOMAIN journal \cup {last + 1} |->
                       IF s = last + 1 THEN row ELSE journal[s]]
       /\ inputs' = [a \in Annotation |-> IF row = a \/ a \in Affects(row) THEN last + 1
                                          ELSE inputs[a]]
       /\ IF row = BookRow THEN UNCHANGED ready
          ELSE \E shown \in BOOLEAN : ready' = IF shown THEN ready \cup {row} ELSE ready \ {row}
  /\ UNCHANGED <<cursor, jobs, documents, pump, work, newest, overtaken>>

\* Service.replace and ReplaceDerived, while no publication is in its transaction:
\* the rows that applied are journaled again, in any order.  The numbers go on.
Restore ==
  /\ Happens
  /\ \A w \in Worker : work[w].phase # "checked"
  /\ \E n \in 0..AnnotationCount : \E rows \in Injection(1..n, Annotation) :
       /\ last' = last + n
       /\ journal' = [s \in (last + 1)..(last + n) |-> rows[s - last]]
       /\ inputs' = [a \in Annotation |->
            IF a \in Range(rows) THEN last + CHOOSE i \in 1..n : rows[i] = a ELSE 0]
       /\ ready' = Range(rows)
  /\ cursor' = 0 /\ jobs' = <<>> /\ documents' = [a \in Annotation |-> NoDocument]
  /\ newest' = [a \in Annotation |-> 0] /\ overtaken' = {}
  /\ UNCHANGED <<pump, work>>

-----------------------------------------------------------------------------
(* Pump.  Its entries are taken one by one: a list it read holds the same ones. *)

Open == {s \in DOMAIN journal : s > cursor}

\* Changes and Schedule.  The job may be there already.
Schedule(w) ==
  /\ pump[w] = 0
  /\ \E s \in First(Open) :
       /\ pump' = [pump EXCEPT ![w] = s]
       /\ jobs' = [j \in DOMAIN jobs \cup {s} |-> IF j \in DOMAIN jobs THEN jobs[j]
                     ELSE [after |-> 0, done |-> FALSE, leased |-> FALSE]]
  /\ UNCHANGED <<last, journal, cursor, inputs, ready, documents, work, newest, overtaken,
                 events>>

\* CompleteChange: the next entry after the cursor; one that was completed is kept.
Complete(w) ==
  /\ pump[w] # 0 /\ pump' = [pump EXCEPT ![w] = 0]
  /\ cursor' = IF pump[w] \in First(Open) THEN pump[w] ELSE cursor
  /\ UNCHANGED <<last, journal, inputs, ready, jobs, documents, work, newest, overtaken,
                 events>>

-----------------------------------------------------------------------------
(* Step.                                                                    *)

\* An update of a job, which may be gone.
Updated(s, job) == [j \in DOMAIN jobs |-> IF j = s THEN job ELSE jobs[j]]

\* The first waiting job that is not leased.
Claim(w) ==
  /\ work[w] = Idle
  /\ \E s \in First({j \in DOMAIN jobs : ~jobs[j].done /\ ~jobs[j].leased}) :
       /\ jobs' = [jobs EXCEPT ![s].leased = TRUE]
       /\ work' = [work EXCEPT ![w] = [phase |-> "query", job |-> s, row |-> journal[s],
                                       after |-> jobs[s].after]]
  /\ UNCHANGED <<last, journal, cursor, inputs, ready, documents, pump, newest,
                 overtaken, events>>

\* A page of the annotations the job's row is part of: the first Limit of them.
Query(w) ==
  /\ work[w].phase = "query"
  /\ LET all == {a \in Affects(work[w].row) : a > work[w].after} IN
     work' = [work EXCEPT ![w] =
       [phase |-> "publish", job |-> work[w].job,
        left |-> {a \in all : Cardinality({b \in all : b < a}) < Limit},
        full |-> Cardinality(all) >= Limit]]
  /\ UNCHANGED <<last, journal, cursor, inputs, ready, jobs, documents, pump, newest,
                 overtaken, events>>

\* SearchSnapshot of the next annotation, one transaction: its rows, and how far the
\* journal has come.  An annotation that is not there or not ready has no document.
Snapshot(w) ==
  /\ work[w].phase = "publish"
  /\ \E a \in First(work[w].left) :
       work' = [work EXCEPT ![w] =
         [phase |-> "made", job |-> work[w].job, left |-> work[w].left \ {a},
          full |-> work[w].full, at |-> a,
          made |-> [of |-> IF a \in ready THEN inputs[a] ELSE 0,
                    revision |-> IF DOMAIN journal = {} THEN 0 ELSE last]]]
  /\ UNCHANGED <<last, journal, cursor, inputs, ready, jobs, documents, pump, newest,
                 overtaken, events>>

\* publish, its check.  It shares the generation row with drains: a change may still
\* commit before the document is written.
CheckCurrent(w) ==
  /\ work[w].phase = "made"
  /\ IF Dirty(work[w].at, work[w].made.revision)
     THEN /\ work' = [work EXCEPT ![w] = Idle]
          /\ jobs' = Updated(work[w].job, [jobs[work[w].job] EXCEPT !.leased = FALSE])
     ELSE work' = [work EXCEPT ![w].phase = "checked"] /\ UNCHANGED jobs
  /\ UNCHANGED <<last, journal, cursor, inputs, ready, documents, pump, newest,
                 overtaken, events>>

\* publish, its writes.
Write(w) ==
  /\ work[w].phase = "checked"
  /\ LET a == work[w].at
         made == work[w].made
     IN
     /\ documents' = [documents EXCEPT ![a] = IF made.of = 0 THEN NoDocument ELSE made]
     /\ newest' = [newest EXCEPT ![a] = IF @ < made.revision THEN made.revision ELSE @]
     /\ overtaken' = IF made.revision < newest[a] THEN overtaken \cup {a} ELSE overtaken \ {a}
     /\ jobs' = Updated(work[w].job, [jobs[work[w].job] EXCEPT !.after = a])
  /\ work' = [work EXCEPT ![w] = [phase |-> "publish", job |-> work[w].job,
                                  left |-> work[w].left, full |-> work[w].full]]
  /\ UNCHANGED <<last, journal, cursor, inputs, ready, pump, events>>

\* A page that was not full was the last one.
Finish(w) ==
  /\ work[w].phase = "publish" /\ work[w].left = {}
  /\ LET job == jobs[work[w].job] IN
     jobs' = Updated(work[w].job, [job EXCEPT !.leased = FALSE, !.done = @ \/ ~work[w].full])
  /\ work' = [work EXCEPT ![w] = Idle]
  /\ UNCHANGED <<last, journal, cursor, inputs, ready, documents, pump, newest,
                 overtaken, events>>

\* An error: the job waits a moment, whoever holds it now.
Fail(w) ==
  /\ work[w] # Idle /\ work' = [work EXCEPT ![w] = Idle]
  /\ jobs' = Updated(work[w].job, [jobs[work[w].job] EXCEPT !.leased = FALSE])
  /\ UNCHANGED <<last, journal, cursor, inputs, ready, documents, pump, newest,
                 overtaken, events>>

\* The process stops.  Its lease lapses, as may the lease of one that is slow.
Crash(w) ==
  /\ work' = [work EXCEPT ![w] = Idle]
  /\ pump' = [p \in Pumper |-> IF p = w THEN 0 ELSE pump[p]]
  /\ UNCHANGED <<last, journal, cursor, inputs, ready, jobs, documents, newest, overtaken,
                 events>>

Lapse ==
  /\ Happens
  /\ \E s \in DOMAIN jobs : jobs[s].leased /\ jobs' = [jobs EXCEPT ![s].leased = FALSE]
  /\ UNCHANGED <<last, journal, cursor, inputs, ready, documents, pump, work, newest,
                 overtaken>>

Next ==
  \/ Change \/ Restore \/ Lapse
  \/ \E w \in Pumper : Schedule(w) \/ Complete(w)
  \/ \E w \in Worker :
       \/ Claim(w) \/ Query(w) \/ Snapshot(w) \/ CheckCurrent(w) \/ Write(w) \/ Finish(w)
       \/ Fail(w) \/ Crash(w)

Spec == Init /\ [][Next]_svars

-----------------------------------------------------------------------------
(* Properties.                                                              *)

\* What a search shows: documents of present annotations that no change made stale.
Shown(a) == documents[a] # NoDocument /\ a \in Present /\ ~Dirty(a, documents[a].revision)

\* "A document whose inputs changed after it was indexed is withheld until it is
\* re-indexed, never shown stale" (readersearch/search.go:26-27).
ShownIsCurrent == \A a \in Annotation : Shown(a) => a \in ready /\ documents[a].of = inputs[a]

\* When every change was handed over and every job is done, each annotation that has
\* something to show is found, but for those an overtaken publication wrote last
\* (readersearch/store.go:37-209).
IndexedWhenDone ==
  /\ \A s \in DOMAIN journal : s <= cursor
  /\ \A s \in DOMAIN jobs : jobs[s].done
  => \A a \in ready \ overtaken : Shown(a)
===============================================================================
