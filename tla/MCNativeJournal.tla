-------------------------- MODULE MCNativeJournal ---------------------------
(* Small instances of NativeJournal.                                        *)
EXTENDS NativeJournal, TLC

\* A notebook a tablet may delete, and one that may replace it or change its book.
Notes ==
  LET first == CHOOSE d \in Doc : TRUE
  IN  [d \in Doc |-> IF d = first THEN {"edit", "repair"} ELSE {"create", "change"}]

\* A shelf, a membership or a book of the reading library.
Reading == [d \in Doc |-> {"create", "repair", "shelf", "change"}]

Symmetry == Permutations(Doc)
=============================================================================
