---------------------------- MODULE MCPageIndex -----------------------------
(* Small instances of PageIndex.                                            *)
EXTENDS PageIndex, TLC

CONSTANTS p1, p2, c0, c1

V(content, status, listed) == [content |-> content, status |-> status, listed |-> listed]

\* One page; its notebook is deleted, restored, or missing for a while.
DrawnOnePage == {V(c1, s, {p1}) : s \in Statuses}

\* Pages are added and removed; a notebook over the limit is deleted and restored.
DrawnGrowing ==
  {V(c, "live", l) : c \in {c0, c1}, l \in {{p1}, {p1, p2}}} \cup {V(c1, "live", {p2}), V(c1, "deleted", {p1, p2})}

Symmetry == Permutations(Worker)

\* Bound: the size override is left off.
NoOverride == ~policy.allow
=============================================================================
