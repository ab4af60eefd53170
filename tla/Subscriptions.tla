----------------------------- MODULE Subscriptions -----------------------------
(***************************************************************************)
(* internal/alexandria/subscriptions: one public calendar feed.  A leased   *)
(* fetch asks the publisher for what changed since the validator it read,   *)
(* outside any transaction, and publishes what it got if nothing has        *)
(* happened to the subscription since.                                      *)
(***************************************************************************)
EXTENDS Naturals

CONSTANTS
  Worker,
  MaxFeed,    \* bound: versions the publisher puts out
  MaxRevision \* bound: edits by the owner

VARIABLES
  feed,     \* the publisher's current version (its ETag)
  sub,      \* alexandria_calendar_subscription
  imported, \* alexandria_calendar_import: the version its series come from
  fetching, \* the locals of each Process
  newest    \* history: the newest version imported since subscribing

svars == <<feed, sub, imported, fetching, newest>>

NoHolder == "none"
Removed == [state |-> "removed"]
Idle == [step |-> "idle"]
Version == 0..MaxFeed  \* 0: nothing yet

SubscriptionAssumption ==
  NoHolder \notin Worker /\ MaxFeed \in Nat \ {0} /\ MaxRevision \in Nat \ {0}

TypeOK ==
  /\ feed \in 1..MaxFeed
  /\ sub \in {Removed} \cup
       [state : {"enabled", "paused"}, revision : 1..MaxRevision, token : Worker \cup {NoHolder},
        lapsed : BOOLEAN, due : BOOLEAN, failing : BOOLEAN, etag : Version]
  /\ imported \in Version /\ newest \in Version
  /\ fetching \in [Worker -> {Idle} \cup
       [step : {"claimed"}, revision : 1..MaxRevision, etag : Version] \cup
       [step : {"fetched"}, revision : 1..MaxRevision, got : {"problem", "unchanged", "changed"},
        version : Version]]

\* As Create leaves it.
Init ==
  /\ feed = 1
  /\ sub = [state |-> "enabled", revision |-> 1, token |-> NoHolder, lapsed |-> FALSE,
            due |-> TRUE, failing |-> FALSE, etag |-> 0]
  /\ imported = 0 /\ newest = 0
  /\ fetching = [w \in Worker |-> Idle]

-----------------------------------------------------------------------------
Publish ==
  /\ feed < MaxFeed
  /\ feed' = feed + 1
  /\ UNCHANGED <<sub, imported, fetching, newest>>

\* Update, under the revision its page was shown with.
Update(state) ==
  /\ sub # Removed /\ sub.revision < MaxRevision
  /\ sub' = [sub EXCEPT !.state = state, !.revision = @ + 1, !.token = NoHolder,
                        !.lapsed = FALSE, !.due = TRUE]
  /\ UNCHANGED <<feed, imported, fetching, newest>>

\* Remove: the series go with the subscription.
Remove ==
  /\ sub # Removed
  /\ sub' = Removed /\ imported' = 0 /\ newest' = 0
  /\ UNCHANGED <<feed, fetching>>

Free == sub.token = NoHolder \/ sub.lapsed

Refresh ==
  /\ sub # Removed /\ sub.state = "enabled" /\ Free
  /\ sub' = [sub EXCEPT !.due = TRUE]
  /\ UNCHANGED <<feed, imported, fetching, newest>>

\* next_at is reached, or a lease comes to its end.
Due ==
  /\ sub # Removed /\ ~sub.due
  /\ sub' = [sub EXCEPT !.due = TRUE]
  /\ UNCHANGED <<feed, imported, fetching, newest>>

Lapse ==
  /\ sub # Removed /\ sub.token # NoHolder
  /\ sub' = [sub EXCEPT !.lapsed = TRUE]
  /\ UNCHANGED <<feed, imported, fetching, newest>>

-----------------------------------------------------------------------------
(* Process.                                                                 *)

Claim(w) ==
  /\ fetching[w] = Idle
  /\ sub # Removed /\ sub.state = "enabled" /\ sub.due /\ Free
  /\ sub' = [sub EXCEPT !.token = w, !.lapsed = FALSE]
  /\ fetching' = [fetching EXCEPT ![w] = [step |-> "claimed", revision |-> sub.revision,
                                          etag |-> sub.etag]]
  /\ UNCHANGED <<feed, imported, newest>>

\* got: a version, "unchanged" when the publisher still has the validator's, or
\* a problem with the request, the document or its series.
Fetch(w) ==
  /\ fetching[w].step = "claimed"
  /\ \E g \in {"problem", IF feed = fetching[w].etag THEN "unchanged" ELSE "changed"} :
       fetching' = [fetching EXCEPT ![w] = [step |-> "fetched", revision |-> @.revision,
                      got |-> g, version |-> IF g = "changed" THEN feed ELSE 0]]
  /\ UNCHANGED <<feed, sub, imported, newest>>

\* Fault: the lease is not looked at again.
SameRevision(w) ==
  sub # Removed /\ sub.revision = fetching[w].revision /\ sub.state = "enabled"

StillLeased(w) ==
  /\ sub # Removed /\ sub.revision = fetching[w].revision /\ sub.state = "enabled"
  /\ sub.token = w /\ ~sub.lapsed

Settled == [sub EXCEPT !.token = NoHolder, !.lapsed = FALSE, !.due = FALSE]

\* finish.
Finish(w) ==
  LET f == fetching[w]
  IN /\ f.step = "fetched"
     /\ fetching' = [fetching EXCEPT ![w] = Idle]
     /\ IF ~StillLeased(w) THEN UNCHANGED <<sub, imported, newest>>
        ELSE IF f.got # "changed"
        THEN /\ sub' = [Settled EXCEPT !.failing = (f.got = "problem")]
             /\ UNCHANGED <<imported, newest>>
        ELSE /\ imported' = f.version
             /\ sub' = [Settled EXCEPT !.failing = FALSE, !.etag = f.version]
             /\ newest' = IF f.version > newest THEN f.version ELSE newest
     /\ UNCHANGED feed

Crash(w) ==
  /\ fetching[w] # Idle
  /\ fetching' = [fetching EXCEPT ![w] = Idle]
  /\ UNCHANGED <<feed, sub, imported, newest>>

-----------------------------------------------------------------------------
Next ==
  \/ Publish \/ Remove \/ Refresh \/ Due \/ Lapse
  \/ \E s \in {"enabled", "paused"} : Update(s)
  \/ \E w \in Worker : Claim(w) \/ Fetch(w) \/ Finish(w) \/ Crash(w)

Spec == Init /\ [][Next]_svars

-----------------------------------------------------------------------------
(* Properties.                                                              *)

\* The series are those of one version of the feed, the newest that was ever
\* imported, and the validator sent to the publisher is the one of that version:
\* a slow fetch never puts an older calendar back, and "unchanged" is true of
\* what is stored, whatever lapses, pauses, unsubscribes or fails.
NewestImported == imported = newest /\ (sub # Removed => sub.etag = imported)
=============================================================================
