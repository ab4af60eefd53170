---------------------------- MODULE LibraryParts ----------------------------
(***************************************************************************)
(* Three parts of the library that keep no row in common with the relay nor *)
(* with each other: the generation devices' requests are checked against, a *)
(* calendar the server follows, and the tasks a CalDAV client follows.      *)
(***************************************************************************)
CONSTANTS
  DeviceKey, First, Snapshots, PublisherOf, Replacement, MaxGen, NoReceipt,
  Worker, MaxFeed, MaxRevision,
  Todo, AnswerSizes, MaxTicks, MaxSaved

VARIABLES
  generation, baseline, identity, bound, heirs, receipt, enrolling, request,
  attempts, library, held,
  feed, sub, imported, fetching, newest,
  ticks, todo, purged, floor, saving, raising, token, copy, report, overdue, cut, saved

Library == INSTANCE LibraryGeneration
Calendars == INSTANCE Subscriptions
Tasks == INSTANCE TaskSync WITH
  Task <- Todo, Sizes <- AnswerSizes, MaxClock <- MaxTicks, MaxWrites <- MaxSaved,
  clock <- ticks, task <- todo, ledger <- purged, txns <- saving, late <- overdue,
  writes <- saved

ASSUME LibraryAssumption ==
  /\ Library!GenerationAssumption /\ Calendars!SubscriptionAssumption
  /\ Tasks!TaskAssumption

\* A device writes only into the library it has the content of, and replacements of
\* the library follow one another (generation.go:106-185; restore/service.go:111-619).
LibrarySound == Library!TypeOK /\ Library!WrittenOnContent /\ Library!ReplacementsLinear

\* A late download never replaces a newer import (subscriptions/store.go:223-257).
NewestImported == Calendars!TypeOK /\ Calendars!NewestImported

\* A client whose copy of a task is out of date is told of it at its next request,
\* but for the exceptions TaskSync names (caldav/synccollection.go:188-237).
NothingSkipped == Tasks!TypeOK /\ Tasks!NothingSkipped
=============================================================================
