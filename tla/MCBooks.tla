-------------------------------- MODULE MCBooks --------------------------------
(* The native library side by side: the publication of shelves and books to *)
(* the Gateway, the removal of notebooks, book imports, what readers write  *)
(* about books, and the index that finds it.  The parts share no row: a     *)
(* behaviour moves one of them, each on variables of its own.               *)
EXTENDS MCNativeJournal, BooksParts

CONSTANTS v1, v2, nothing, n1, n2, k1, b1, f1, g1

VARIABLE part  \* the part that moves

PurgeVars == <<
  gateway, feed, revision, blobs, object, derived, inserting, purge, confirmed,
  replaced, erased, leftover, txn, writes, failures>>

ImportsVars == <<
  folder, seen, book, op, member, seenMember, item, message, pass, newer, edits, lost>>

SearchVars == <<
  last, journal, cursor, inputs, ready, jobs, documents, pump, work, newest, overtaken,
  events>>

ReaderVars == <<inbox, state, mirror, sweep>>

\* One notebook with a commit is removed; a second one may share an asset.
OwnNotebook == [d \in {n1, n2, k1} |-> IF d = k1 THEN n1 ELSE d]

\* Two imports of the same file into the same folder.
OneFolder == [i \in {1, 2} |-> f1]
OneBook == [i \in {1, 2} |-> g1]

\* An annotation, a session that is opened and finished, and a stroke.
Ink(at, by) == [table |-> "annotation", id |-> 1, by |-> by, at |-> at, creator |-> "s"]
Sitting(at, by, end) == [table |-> "session", id |-> "s", by |-> by, at |-> at,
                         annotation |-> 1, owner |-> "a", state |-> end]
Line(at, by) == [table |-> "stroke", id |-> "k", by |-> by, at |-> at, annotation |-> 1,
                 session |-> "s"]
OneSession == {Ink(1, "a"), Sitting(2, "a", "open"), Sitting(4, "a", "finished"), Line(3, "a")}

AllInit ==
  /\ part \in {"journal", "purge", "import", "search", "reader"}
  /\ Init /\ (part # "journal" => gw = [d \in Doc |-> Absent])
  /\ Purge!Init /\ Imports!Init /\ Search!Init /\ Reader!Init

AllNext ==
  \/ /\ part = "journal" /\ Next
     /\ UNCHANGED <<part, PurgeVars, ImportsVars, SearchVars, ReaderVars>>
  \/ /\ part = "purge" /\ Purge!Next
     /\ UNCHANGED <<part, vars, ImportsVars, SearchVars, ReaderVars>>
  \/ /\ part = "import" /\ Imports!Next
     /\ UNCHANGED <<part, vars, PurgeVars, SearchVars, ReaderVars>>
  \/ /\ part = "search" /\ Search!Next
     /\ UNCHANGED <<part, vars, PurgeVars, ImportsVars, ReaderVars>>
  \/ /\ part = "reader" /\ Reader!Next
     /\ UNCHANGED <<part, vars, PurgeVars, ImportsVars, SearchVars>>

AllSpec ==
  /\ AllInit
  /\ [][AllNext]_<<part, vars, PurgeVars, ImportsVars, SearchVars, ReaderVars>>
  /\ WF_vars(Publish)
===============================================================================
