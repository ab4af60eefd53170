------------------------------- MODULE MCLibrary -------------------------------
(* The library side by side: the relay of the devices' ops, the generation    *)
(* their requests are checked against, the calendars the server follows, and  *)
(* the tasks a CalDAV client follows.  The parts share no row: a behaviour    *)
(* moves one of them, each on variables of its own.                           *)
EXTENDS MCRelay, LibraryParts

CONSTANTS d1, d2, d3, x1, r1, r2, nothing, t1, t2, w1, w2

VARIABLE part  \* the part that moves

LibraryVars == <<
  generation, baseline, identity, bound, heirs, receipt, enrolling, request,
  attempts, library, held>>

CalendarsVars == <<
  feed, sub, imported, fetching, newest>>

TasksVars == <<
  ticks, todo, purged, floor, saving, raising, token, copy, report, overdue, cut, saved>>

\* A snapshot of the first device.
FromFirst == [x \in {x1} |-> d1]

AllInit ==
  /\ part \in {"relay", "library", "calendar", "tasks"}
  /\ Init /\ Library!Init /\ Calendars!Init /\ Tasks!Init

AllNext ==
  \/ part = "relay" /\ Next /\ UNCHANGED <<part, LibraryVars, CalendarsVars, TasksVars>>
  \/ part = "library" /\ Library!Next /\ UNCHANGED <<part, vars, CalendarsVars, TasksVars>>
  \/ part = "calendar" /\ Calendars!Next /\ UNCHANGED <<part, vars, LibraryVars, TasksVars>>
  \/ part = "tasks" /\ Tasks!Next /\ UNCHANGED <<part, vars, LibraryVars, CalendarsVars>>

AllSpec == AllInit /\ [][AllNext]_<<part, vars, LibraryVars, CalendarsVars, TasksVars>> /\ Fairness
===============================================================================
