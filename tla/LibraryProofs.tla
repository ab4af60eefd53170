---------------------------- MODULE LibraryProofs ----------------------------
(***************************************************************************)
(* Theorems of eight components that keep no row in common, each for every *)
(* value of its constants: the generation requests are checked against, the *)
(* calendars the server follows, the tasks a CalDAV client follows, the     *)
(* store of asset chunks, the pages of the clients' notebooks, the semantic *)
(* index, the tasks and events made of colored ink, and the AI settings.  A *)
(* lemma about one of them assumes only its constants' assumption.          *)
(***************************************************************************)
EXTENDS LibraryParts, ServerParts, Naturals, Sequences, FiniteSets, TLAPS,
  FiniteSetTheorems, SequenceTheorems, WellFoundedInduction

-----------------------------------------------------------------------------
(* The generation of the library.                                           *)

\* A device's content is of the generation it is bound to.
HeldInv == \A s \in DeviceKey : held[s] = bound[s] /\ bound[s] <= generation

\* A checked request holds the active generation until it commits.
CheckedInv == \A s \in DeviceKey : request[s].step = "checked" => bound[s] = generation

\* Receipts lie on the line of generations behind the active one.
ReceiptsInv == \A r \in Replacement : receipt[r] # NoReceipt => receipt[r].generation <= generation

LInv == LibrarySound /\ HeldInv /\ CheckedInv /\ ReceiptsInv

\* The initial states satisfy the invariant.
LEMMA LibraryInit == ASSUME Library!GenerationAssumption, Library!Init PROVE LInv
<1>1. Library!TypeOK
  BY DEF Library!GenerationAssumption, Library!Init, Library!TypeOK, Library!Gen, Library!Idle
<1>2. Library!WrittenOnContent /\ Library!ReplacementsLinear
  BY DEF Library!Init, Library!WrittenOnContent, Library!ReplacementsLinear
<1>3. HeldInv /\ CheckedInv /\ ReceiptsInv
  BY DEF Library!GenerationAssumption, Library!Init, HeldInv, CheckedInv, ReceiptsInv, Library!Idle
<1> QED
  BY <1>1, <1>2, <1>3 DEF LInv, LibrarySound

\* The request of one device moves; only a step to "checked" needs a reason.
LEMMA RequestStep ==
  ASSUME LInv, NEW s \in DeviceKey, NEW r \in {Library!Idle} \cup [step : {"admitted", "checked"}, claim : Library!Gen],
         request' = [request EXCEPT ![s] = r],
         r.step = "checked" => bound[s] = generation,
         library' \subseteq library \cup (IF request[s].step = "checked" THEN {[site |-> s, content |-> held[s]]} ELSE {}),
         UNCHANGED <<generation, baseline, identity, bound, heirs, receipt, enrolling, attempts, held>>
  PROVE  LInv'
<1> USE DEF LInv, LibrarySound
<1>1. held[s] = bound[s] /\ held[s] \in Library!Gen /\ (request[s].step = "checked" => held[s] = generation)
  BY DEF Library!TypeOK, HeldInv, CheckedInv
<1>2. library' \subseteq library \cup {[site |-> s, content |-> held[s]]}
  OBVIOUS
<1>3. Library!TypeOK'
  BY <1>1, <1>2 DEF Library!TypeOK
<1>4. Library!WrittenOnContent'
  BY <1>1 DEF Library!WrittenOnContent
<1>5. Library!ReplacementsLinear' /\ HeldInv' /\ ReceiptsInv'
  BY DEF Library!ReplacementsLinear, HeldInv, ReceiptsInv
<1>6. CheckedInv'
  BY DEF CheckedInv, Library!TypeOK
<1> QED
  BY <1>3, <1>4, <1>5, <1>6

\* A request is admitted, checked again in its transaction, and commits or fails.
LEMMA RequestsInv ==
  ASSUME Library!GenerationAssumption, LInv, NEW s \in DeviceKey,
         Library!Admit(s) \/ Library!Check(s) \/ Library!WriteCommit(s) \/ Library!RequestFails(s)
  PROVE  LInv'
<1>1. Library!Idle.step # "checked" /\ request[s] \in {Library!Idle} \cup [step : {"admitted", "checked"}, claim : Library!Gen]
  BY DEF Library!Idle, LInv, LibrarySound, Library!TypeOK
<1>2. generation \in Library!Gen
  BY DEF LInv, LibrarySound, Library!TypeOK
<1>3. CASE Library!Admit(s)
  <2> DEFINE r == [step |-> "admitted", claim |-> generation]
  <2>1. r \in [step : {"admitted", "checked"}, claim : Library!Gen] /\ r.step # "checked"
    BY <1>2
  <2>2. request' = [request EXCEPT ![s] = r]
    BY <1>3 DEF Library!Admit
  <2> HIDE DEF r
  <2> QED
    BY <1>3, <2>1, <2>2, RequestStep DEF Library!Admit
<1>4. CASE Library!Check(s) /\ Library!Fenced(s)
  <2> DEFINE r == [request[s] EXCEPT !.step = "checked"]
  <2>1. request[s] \in [step : {"admitted", "checked"}, claim : Library!Gen]
    BY <1>1, <1>4 DEF Library!Check, Library!Idle
  <2>2. r \in [step : {"admitted", "checked"}, claim : Library!Gen]
    BY <2>1
  <2>3. request' = [request EXCEPT ![s] = r] /\ bound[s] = generation
    BY <1>4 DEF Library!Check, Library!Fenced
  <2> HIDE DEF r
  <2> QED
    BY <1>4, <2>2, <2>3, RequestStep DEF Library!Check
<1>5. CASE Library!Check(s) /\ ~Library!Fenced(s)
  BY <1>1, <1>5, RequestStep DEF Library!Check
<1>6. CASE Library!WriteCommit(s)
  BY <1>1, <1>6, RequestStep DEF Library!WriteCommit
<1>7. CASE Library!RequestFails(s)
  BY <1>1, <1>7, RequestStep DEF Library!RequestFails
<1> QED
  BY <1>3, <1>4, <1>5, <1>6, <1>7

\* A device joins, in a generation that is the active one.
LEMMA JoinInv ==
  ASSUME LInv, NEW s \in DeviceKey,
         identity' = [identity EXCEPT ![s] = "live"],
         bound' = [bound EXCEPT ![s] = generation], held' = [held EXCEPT ![s] = generation],
         heirs' \subseteq [old : DeviceKey, generation : Library!Gen, site : DeviceKey, snapshot : Snapshots],
         enrolling' \subseteq DeviceKey,
         UNCHANGED <<generation, baseline, receipt, request, attempts, library>>
  PROVE  LInv'
<1> USE DEF LInv, LibrarySound
<1>1. generation \in Library!Gen /\ bound \in [DeviceKey -> Library!Gen] /\ held \in [DeviceKey -> Library!Gen]
  BY DEF Library!TypeOK
<1>2. Library!TypeOK'
  BY <1>1 DEF Library!TypeOK
<1>3. Library!WrittenOnContent' /\ Library!ReplacementsLinear' /\ ReceiptsInv'
  BY DEF Library!WrittenOnContent, Library!ReplacementsLinear, ReceiptsInv
<1>4. HeldInv' /\ CheckedInv'
  BY <1>1 DEF HeldInv, CheckedInv, Library!Gen
<1> QED
  BY <1>2, <1>3, <1>4

\* Enrollment of a device, and its revocation.
LEMMA IdentityInv ==
  ASSUME LInv, NEW s \in DeviceKey, Library!Enroll(s) \/ Library!EnrollCommit(s) \/ Library!EnrollFails \/ Library!Revoke(s)
  PROVE  LInv'
<1> USE DEF LInv, LibrarySound
<1>1. CASE Library!EnrollCommit(s)
  BY <1>1, JoinInv DEF Library!EnrollCommit, Library!TypeOK
<1>2. CASE Library!Enroll(s) \/ Library!EnrollFails \/ Library!Revoke(s)
  <2>1. identity' \in [DeviceKey -> {"absent", "live", "revoked"}] /\ enrolling' \subseteq DeviceKey
    BY <1>2 DEF Library!Enroll, Library!EnrollFails, Library!Revoke, Library!TypeOK
  <2>2. UNCHANGED <<generation, baseline, bound, heirs, receipt, request, attempts, library, held>>
    BY <1>2 DEF Library!Enroll, Library!EnrollFails, Library!Revoke
  <2>3. Library!TypeOK'
    BY <2>1, <2>2 DEF Library!TypeOK
  <2> QED
    BY <2>2, <2>3 DEF Library!WrittenOnContent, Library!ReplacementsLinear, HeldInv, CheckedInv, ReceiptsInv
<1> QED
  BY <1>1, <1>2

\* A device that lost its identity takes over the place of the one it was.
LEMMA AdoptInv ==
  ASSUME LInv, NEW old \in DeviceKey, NEW s \in DeviceKey, NEW g \in Library!Gen, NEW x \in Snapshots, Library!Adopt(old, s, g, x)
  PROVE  LInv'
<1>1. g = generation /\ baseline.snapshot = x
  BY DEF Library!Adopt, Library!SameBaseline
<1>2. heirs' \subseteq [old : DeviceKey, generation : Library!Gen, site : DeviceKey, snapshot : Snapshots]
  BY <1>1 DEF Library!Adopt, LInv, LibrarySound, Library!TypeOK
<1> QED
  BY <1>1, <1>2, JoinInv DEF Library!Adopt, LInv, LibrarySound, Library!TypeOK

\* No device writes while the library is replaced.
LEMMA PublishInv ==
  ASSUME Library!GenerationAssumption, LInv, NEW a \in attempts, Library!Publish(a)
  PROVE  LInv'
<1> USE DEF LInv, LibrarySound
<1> DEFINE rec == [expected |-> a.expected, snapshot |-> a.snapshot,
                   publisher |-> a.publisher, generation |-> generation + 1]
<1>1. generation \in Nat /\ generation + 1 \in Library!Gen /\ generation' = generation + 1 /\ Library!Gen \subseteq Nat
  BY DEF Library!TypeOK, Library!Publish, Library!GenerationAssumption, Library!Gen
<1>2. a.id \in Replacement /\ a.snapshot \in Snapshots /\ a.publisher \in DeviceKey /\ a.expected = generation
  BY DEF Library!TypeOK, Library!Publications, Library!Publish, Library!Current
<1>3. rec \in [expected : Library!Gen, snapshot : Snapshots, publisher : DeviceKey, generation : Library!Gen]
  BY <1>1, <1>2 DEF Library!TypeOK
<1>4. /\ bound' = [bound EXCEPT ![a.publisher] = generation + 1]
      /\ held' = [held EXCEPT ![a.publisher] = generation + 1]
      /\ receipt' = [receipt EXCEPT ![a.id] = rec]
      /\ baseline' = [generation |-> generation + 1, snapshot |-> a.snapshot]
      /\ library' = {} /\ attempts' \subseteq attempts
      /\ UNCHANGED <<identity, heirs, enrolling, request>>
  BY <1>1 DEF Library!Publish
<1>5. \A s \in DeviceKey : request[s].step # "checked"
  BY DEF Library!Publish
<1>6. rec.generation = generation + 1 /\ rec.expected = generation /\ rec.snapshot = a.snapshot
  BY <1>2
<1> HIDE DEF rec
<1>7. \A r \in Replacement : receipt'[r] = IF r = a.id THEN rec ELSE receipt[r]
  BY <1>4 DEF Library!TypeOK
<1>8. Library!TypeOK'
  BY <1>1, <1>2, <1>3, <1>4, <1>7 DEF Library!TypeOK
<1>9. \A r \in Replacement : receipt[r] # NoReceipt =>
        /\ receipt[r].expected \in Nat /\ receipt[r].generation \in Nat
        /\ receipt[r].generation = receipt[r].expected + 1 /\ receipt[r].generation <= generation
  BY <1>1 DEF Library!TypeOK, Library!ReplacementsLinear, ReceiptsInv
<1>10. Library!ReplacementsLinear' /\ ReceiptsInv'
  <2>1. \A r \in Replacement : receipt[r] # NoReceipt => receipt[r].expected # generation /\ receipt[r].generation # generation + 1
    BY <1>1, <1>9
  <2>2. \A r \in Replacement : receipt'[r] # NoReceipt => receipt'[r].generation = receipt'[r].expected + 1
    BY <1>6, <1>7, <1>9
  <2>3. \A r, q \in Replacement : receipt'[r] # NoReceipt /\ receipt'[q] # NoReceipt /\ r # q =>
          receipt'[r].expected # receipt'[q].expected
    BY <1>6, <1>7, <2>1 DEF Library!ReplacementsLinear
  <2>4. \A r \in Replacement : receipt'[r] # NoReceipt /\ receipt'[r].generation = generation' =>
          baseline' = [generation |-> generation', snapshot |-> receipt'[r].snapshot]
    BY <1>1, <1>4, <1>6, <1>7, <2>1
  <2>5. ReceiptsInv'
    BY <1>1, <1>6, <1>7, <1>9 DEF ReceiptsInv
  <2> QED
    BY <2>2, <2>3, <2>4, <2>5 DEF Library!ReplacementsLinear
<1>11. Library!WrittenOnContent' /\ CheckedInv'
  BY <1>4, <1>5 DEF Library!WrittenOnContent, CheckedInv
<1>12. HeldInv'
  <2>1. \A s \in DeviceKey : /\ held'[s] = IF s = a.publisher THEN generation + 1 ELSE held[s]
                             /\ bound'[s] = IF s = a.publisher THEN generation + 1 ELSE bound[s]
    BY <1>2, <1>4 DEF Library!TypeOK
  <2>2. \A s \in DeviceKey : bound[s] \in Nat
    BY <1>1 DEF Library!TypeOK
  <2> QED
    BY <1>1, <2>1, <2>2 DEF HeldInv
<1> QED
  BY <1>8, <1>10, <1>11, <1>12

\* A repeated request changes only what was attempted.
LEMMA AttemptsInv ==
  ASSUME LInv, attempts' \subseteq Library!Publications,
         UNCHANGED <<generation, baseline, identity, bound, heirs, receipt, enrolling, request, library, held>>
  PROVE  LInv'
<1> USE DEF LInv, LibrarySound
<1>1. Library!TypeOK'
  BY DEF Library!TypeOK
<1> QED
  BY <1>1 DEF Library!WrittenOnContent, Library!ReplacementsLinear, HeldInv, CheckedInv, ReceiptsInv

\* Every step keeps the invariant.
LEMMA LibraryNext == ASSUME Library!GenerationAssumption, LInv, [Library!Next]_(Library!gvars) PROVE LInv'
<1>1. ASSUME NEW s \in DeviceKey,
             \/ Library!Enroll(s) \/ Library!EnrollCommit(s) \/ Library!Revoke(s) \/ Library!EnrollFails
             \/ Library!Admit(s) \/ Library!Check(s) \/ Library!WriteCommit(s) \/ Library!RequestFails(s)
      PROVE  LInv'
  BY <1>1, IdentityInv, RequestsInv
<1>2. CASE Library!EnrollFails
  <2>1. PICK s \in DeviceKey : s \in enrolling
    BY <1>2 DEF Library!EnrollFails, LInv, LibrarySound, Library!TypeOK
  <2> QED
    BY <1>1, <1>2, <2>1
<1>3. ASSUME NEW r \in Replacement, NEW x \in Snapshots, Library!StartPublish(r, x) PROVE LInv'
  <2>1. PublisherOf[x] \in DeviceKey /\ generation \in Library!Gen
    BY DEF Library!GenerationAssumption, LInv, LibrarySound, Library!TypeOK
  <2>2. attempts' \subseteq Library!Publications
    BY <1>3, <2>1 DEF Library!StartPublish, Library!Publications, LInv, LibrarySound, Library!TypeOK
  <2> QED
    BY <1>3, <2>2, AttemptsInv DEF Library!StartPublish
<1>4. ASSUME NEW a \in attempts, Library!PublishFails(a) PROVE LInv'
  <2>1. attempts' \subseteq Library!Publications
    BY <1>4 DEF Library!PublishFails, LInv, LibrarySound, Library!TypeOK
  <2> QED
    BY <1>4, <2>1, AttemptsInv DEF Library!PublishFails
<1>5. CASE UNCHANGED Library!gvars
  <2>1. UNCHANGED <<generation, baseline, identity, bound, heirs, receipt, enrolling,
                    request, attempts, library, held>>
    BY <1>5 DEF Library!gvars
  <2> QED
    BY <2>1, AttemptsInv DEF LInv, LibrarySound, Library!TypeOK
<1> QED
  BY <1>1, <1>2, <1>3, <1>4, <1>5, PublishInv, AdoptInv DEF Library!Next

\* A device's request writes into the library only while the device holds the content of
\* its generation, and two replacements never start from the same generation
\* (generation.go:106-185; restore/service.go:111-619).
THEOREM LibraryStaysSound == Library!Spec => []LibrarySound
<1>1. Library!Init => LInv
  BY LibraryInit, LibraryAssumption
<1>2. LInv /\ [Library!Next]_(Library!gvars) => LInv'
  BY LibraryNext, LibraryAssumption
<1>3. LInv => LibrarySound
  BY DEF LInv
<1> QED
  BY <1>1, <1>2, <1>3, PTL DEF Library!Spec

-----------------------------------------------------------------------------
(* Calendar subscriptions.                                                  *)

Subscription ==
  [state : {"enabled", "paused"}, revision : 1..MaxRevision, token : Worker \cup {Calendars!NoHolder},
   lapsed : BOOLEAN, due : BOOLEAN, failing : BOOLEAN, etag : Calendars!Version]

\* Versions come from the publisher, and what a lease still covers is no older
\* than what is imported.
LeaseInv ==
  /\ imported <= feed
  /\ \A w \in Worker :
       Calendars!StillLeased(w) /\ fetching[w].step = "fetched" /\ fetching[w].got = "changed" =>
         imported <= fetching[w].version /\ fetching[w].version <= feed

CInv == Calendars!TypeOK /\ Calendars!NewestImported /\ LeaseInv

\* What the types say of a fetch and of a subscription.
LEMMA SubscriptionFacts ==
  ASSUME Calendars!SubscriptionAssumption, Calendars!TypeOK
  PROVE  /\ feed \in Nat /\ imported \in Nat /\ newest \in Nat /\ Calendars!Version \subseteq Nat
         /\ sub # Calendars!Removed => sub \in Subscription
         /\ sub \in Subscription => sub # Calendars!Removed
BY DEF Calendars!SubscriptionAssumption, Calendars!TypeOK, Calendars!Version, Subscription, Calendars!Removed

\* The initial states satisfy the invariant.
LEMMA CalendarInit == ASSUME Calendars!SubscriptionAssumption, Calendars!Init PROVE CInv
<1>1. Calendars!TypeOK
  BY DEF Calendars!SubscriptionAssumption, Calendars!Init, Calendars!TypeOK, Calendars!Version, Calendars!Idle, Calendars!NoHolder
<1>2. Calendars!NewestImported /\ LeaseInv
  BY DEF Calendars!Init, Calendars!NewestImported, LeaseInv, Calendars!Idle
<1> QED
  BY <1>1, <1>2 DEF CInv

\* The import stays; a fetch is covered by the lease it was, or brings a newer version.
LEMMA LeaseStep ==
  ASSUME Calendars!SubscriptionAssumption, CInv, Calendars!TypeOK', feed <= feed', UNCHANGED <<imported, newest>>,
         sub' # Calendars!Removed => sub # Calendars!Removed /\ sub'.etag = sub.etag,
         \A w \in Worker :
           Calendars!StillLeased(w)' /\ fetching'[w].step = "fetched" /\ fetching'[w].got = "changed" =>
             \/ Calendars!StillLeased(w) /\ fetching'[w] = fetching[w]
             \/ imported <= fetching'[w].version /\ fetching'[w].version <= feed'
  PROVE  CInv'
<1> USE DEF CInv
<1>0. feed \in Nat /\ feed' \in Nat /\ \A w \in Worker : fetching[w].step = "fetched" => fetching[w].version \in Nat
  BY SubscriptionFacts DEF Calendars!TypeOK, Calendars!Idle, Calendars!SubscriptionAssumption
<1>1. Calendars!NewestImported'
  BY DEF Calendars!NewestImported
<1>2. imported' <= feed'
  BY SubscriptionFacts DEF LeaseInv, Calendars!TypeOK
<1>3. \A w \in Worker :
        Calendars!StillLeased(w)' /\ fetching'[w].step = "fetched" /\ fetching'[w].got = "changed" =>
          imported' <= fetching'[w].version /\ fetching'[w].version <= feed'
  BY <1>0 DEF LeaseInv, Calendars!TypeOK
<1> QED
  BY <1>1, <1>2, <1>3 DEF LeaseInv

\* Steps of the row alone.
LEMMA RowStep ==
  ASSUME Calendars!SubscriptionAssumption, CInv, sub # Calendars!Removed, NEW row \in Subscription, sub' = row,
         row.etag = sub.etag,
         row.token # Calendars!NoHolder =>
           /\ row.token = sub.token /\ row.revision = sub.revision /\ row.state = sub.state
           /\ ~row.lapsed => ~sub.lapsed,
         UNCHANGED <<feed, imported, fetching, newest>>
  PROVE  CInv'
<1>1. Calendars!TypeOK'
  BY DEF CInv, Calendars!TypeOK, Subscription, Calendars!Version
<1>2. ASSUME NEW w \in Worker, Calendars!StillLeased(w)' PROVE Calendars!StillLeased(w)
  <2>1. w # Calendars!NoHolder
    BY DEF Calendars!SubscriptionAssumption
  <2> QED
    BY <1>2, <2>1 DEF Calendars!StillLeased
<1>3. feed <= feed'
  BY SubscriptionFacts DEF CInv
<1> QED
  BY <1>1, <1>2, <1>3, LeaseStep

\* What the owner asks for, and what the clock does.
LEMMA OwnerSteps ==
  ASSUME Calendars!SubscriptionAssumption, CInv, NEW s \in {"enabled", "paused"},
         Calendars!Update(s) \/ Calendars!Refresh \/ Calendars!Due \/ Calendars!Lapse
  PROVE  CInv'
<1>1. sub # Calendars!Removed /\ sub \in Subscription
  BY SubscriptionFacts DEF CInv, Calendars!Update, Calendars!Refresh, Calendars!Due, Calendars!Lapse
<1>2. CASE Calendars!Update(s)
  <2> DEFINE row == [state |-> s, revision |-> sub.revision + 1, token |-> Calendars!NoHolder,
                     lapsed |-> FALSE, due |-> TRUE, failing |-> sub.failing, etag |-> sub.etag]
  <2>1. sub' = row
    BY <1>1, <1>2 DEF Calendars!Update, Subscription
  <2>2. row \in Subscription /\ row.etag = sub.etag /\ row.token = Calendars!NoHolder
    BY <1>1, <1>2 DEF Calendars!Update, Subscription, Calendars!SubscriptionAssumption
  <2> HIDE DEF row
  <2> QED
    BY <1>1, <1>2, <2>1, <2>2, RowStep DEF Calendars!Update
<1>3. CASE Calendars!Refresh \/ Calendars!Due
  <2> DEFINE row == [sub EXCEPT !.due = TRUE]
  <2>1. /\ row \in Subscription /\ row.etag = sub.etag /\ row.token = sub.token
        /\ row.revision = sub.revision /\ row.state = sub.state /\ row.lapsed = sub.lapsed
    BY <1>1 DEF Subscription
  <2>2. sub' = row
    BY <1>3 DEF Calendars!Refresh, Calendars!Due
  <2> HIDE DEF row
  <2> QED
    BY <1>1, <1>3, <2>1, <2>2, RowStep DEF Calendars!Refresh, Calendars!Due
<1>4. CASE Calendars!Lapse
  <2> DEFINE row == [sub EXCEPT !.lapsed = TRUE]
  <2>1. /\ row \in Subscription /\ row.etag = sub.etag /\ row.token = sub.token
        /\ row.revision = sub.revision /\ row.state = sub.state /\ row.lapsed
    BY <1>1 DEF Subscription
  <2>2. sub' = row
    BY <1>4 DEF Calendars!Lapse
  <2> HIDE DEF row
  <2> QED
    BY <1>1, <1>4, <2>1, <2>2, RowStep DEF Calendars!Lapse
<1> QED
  BY <1>2, <1>3, <1>4

\* Steps of one Process before it has an answer, or after it died.
LEMMA ProcessStep ==
  ASSUME Calendars!SubscriptionAssumption, CInv, NEW w \in Worker, NEW f, fetching' = [fetching EXCEPT ![w] = f],
         f \in {Calendars!Idle} \cup [step : {"claimed"}, revision : 1..MaxRevision, etag : Calendars!Version]
           \cup [step : {"fetched"}, revision : 1..MaxRevision, got : {"problem", "unchanged", "changed"},
                 version : Calendars!Version],
         f.step = "fetched" /\ f.got = "changed" => imported <= f.version /\ f.version <= feed,
         UNCHANGED <<feed, sub, imported, newest>>
  PROVE  CInv'
<1>1. Calendars!TypeOK'
  BY DEF CInv, Calendars!TypeOK
<1>2. \A v \in Worker : fetching'[v] = IF v = w THEN f ELSE fetching[v]
  BY DEF CInv, Calendars!TypeOK
<1>3. \A v \in Worker : v # w => (Calendars!StillLeased(v)' <=> Calendars!StillLeased(v))
  BY <1>2 DEF Calendars!StillLeased
<1>4. feed <= feed'
  BY SubscriptionFacts DEF CInv
<1> QED
  BY <1>1, <1>2, <1>3, <1>4, LeaseStep

\* A worker claims a subscription and fetches it, or dies with it.
LEMMA ProcessInv ==
  ASSUME Calendars!SubscriptionAssumption, CInv, NEW w \in Worker, Calendars!Claim(w) \/ Calendars!Fetch(w) \/ Calendars!Crash(w)
  PROVE  CInv'
<1>1. CASE Calendars!Claim(w)
  <2> DEFINE f == [step |-> "claimed", revision |-> sub.revision, etag |-> sub.etag]
             row == [sub EXCEPT !.token = w, !.lapsed = FALSE]
  <2>1. sub # Calendars!Removed /\ sub \in Subscription
    BY <1>1, SubscriptionFacts DEF CInv, Calendars!Claim
  <2>2. f \in [step : {"claimed"}, revision : 1..MaxRevision, etag : Calendars!Version] /\ f.step # "fetched"
    BY <2>1 DEF Subscription
  <2>3. row \in Subscription /\ row.token = w /\ row.etag = sub.etag
    BY <2>1 DEF Subscription
  <2>4. /\ fetching' = [fetching EXCEPT ![w] = f] /\ sub' = row
        /\ UNCHANGED <<feed, imported, newest>>
    BY <1>1 DEF Calendars!Claim
  <2> HIDE DEF f, row
  <2>5. Calendars!TypeOK'
    BY <2>2, <2>3, <2>4 DEF CInv, Calendars!TypeOK, Subscription, Calendars!Version
  <2>6. \A v \in Worker : Calendars!StillLeased(v)' => v = w
    BY <2>3, <2>4 DEF Calendars!StillLeased
  <2>7. fetching'[w] = f
    BY <2>4 DEF CInv, Calendars!TypeOK
  <2>8. feed <= feed'
    BY <2>4, SubscriptionFacts DEF CInv
  <2> QED
    BY <2>1, <2>2, <2>3, <2>4, <2>5, <2>6, <2>7, <2>8, LeaseStep
<1>2. CASE Calendars!Fetch(w)
  <2>1. PICK g \in {"problem", "unchanged", "changed"} :
          fetching' = [fetching EXCEPT ![w] = [step |-> "fetched", revision |-> fetching[w].revision,
                         got |-> g, version |-> IF g = "changed" THEN feed ELSE 0]]
    BY <1>2 DEF Calendars!Fetch
  <2> DEFINE f == [step |-> "fetched", revision |-> fetching[w].revision,
                   got |-> g, version |-> IF g = "changed" THEN feed ELSE 0]
  <2>2. fetching[w].revision \in 1..MaxRevision /\ feed \in Calendars!Version /\ 0 \in Calendars!Version
    BY <1>2 DEF Calendars!Fetch, CInv, Calendars!TypeOK, Calendars!Idle, Calendars!Version, Calendars!SubscriptionAssumption
  <2>3. f \in [step : {"fetched"}, revision : 1..MaxRevision, got : {"problem", "unchanged", "changed"},
                version : Calendars!Version]
    BY <2>2
  <2>4. f.got = "changed" => imported <= f.version /\ f.version <= feed
    BY SubscriptionFacts DEF CInv, LeaseInv
  <2>5. fetching' = [fetching EXCEPT ![w] = f]
    BY <2>1
  <2> HIDE DEF f
  <2> QED
    BY <1>2, <2>3, <2>4, <2>5, ProcessStep DEF Calendars!Fetch
<1>3. CASE Calendars!Crash(w)
  <2>1. Calendars!Idle.step # "fetched"
    BY DEF Calendars!Idle
  <2> QED
    BY <1>3, <2>1, ProcessStep DEF Calendars!Crash
<1> QED
  BY <1>1, <1>2, <1>3

\* A worker imports what it fetched only under the lease it claimed with.
LEMMA FinishInv ==
  ASSUME Calendars!SubscriptionAssumption, CInv, NEW w \in Worker, Calendars!Finish(w)
  PROVE  CInv'
<1>1. fetching' = [fetching EXCEPT ![w] = Calendars!Idle] /\ UNCHANGED feed /\ Calendars!Idle.step # "fetched"
  BY DEF Calendars!Finish, Calendars!Idle
<1>2. CASE ~Calendars!StillLeased(w)
  BY <1>1, <1>2, ProcessStep DEF Calendars!Finish
<1>3. CASE Calendars!StillLeased(w)
  <2>1. sub # Calendars!Removed /\ sub \in Subscription /\ feed \in Nat
    BY <1>3, SubscriptionFacts DEF CInv, Calendars!StillLeased
  <2>2. \A v \in Worker : fetching'[v] = IF v = w THEN Calendars!Idle ELSE fetching[v]
    BY <1>1 DEF CInv, Calendars!TypeOK
  <2>3. fetching' \in [Worker -> {Calendars!Idle} \cup
          [step : {"claimed"}, revision : 1..MaxRevision, etag : Calendars!Version] \cup
          [step : {"fetched"}, revision : 1..MaxRevision, got : {"problem", "unchanged", "changed"},
           version : Calendars!Version]]
    BY <1>1 DEF CInv, Calendars!TypeOK
  <2>4. PICK etag \in Calendars!Version :
          /\ sub' \in Subscription /\ sub'.etag = etag /\ sub'.token = Calendars!NoHolder
          /\ \/ etag = sub.etag /\ UNCHANGED <<imported, newest>>
             \/ /\ imported' = etag /\ newest' = IF etag > newest THEN etag ELSE newest
                /\ fetching[w].step = "fetched" /\ fetching[w].got = "changed" /\ etag = fetching[w].version
    <3>1. Calendars!Settled \in Subscription /\ Calendars!Settled.etag = sub.etag /\ Calendars!Settled.token = Calendars!NoHolder
      BY <2>1 DEF Calendars!Settled, Subscription
    <3>2. sub.etag \in Calendars!Version
      BY <2>1 DEF Subscription
    <3> HIDE DEF Calendars!Settled
    <3>3. CASE fetching[w].got # "changed"
      <4>1. sub' = [Calendars!Settled EXCEPT !.failing = (fetching[w].got = "problem")] /\ UNCHANGED <<imported, newest>>
        BY <1>3, <3>3 DEF Calendars!Finish
      <4>2. sub' \in Subscription /\ sub'.etag = sub.etag /\ sub'.token = Calendars!NoHolder
        BY <3>1, <4>1 DEF Subscription
      <4> QED
        BY <3>2, <4>1, <4>2
    <3>4. CASE fetching[w].got = "changed"
      <4>1. /\ sub' = [Calendars!Settled EXCEPT !.failing = FALSE, !.etag = fetching[w].version]
            /\ imported' = fetching[w].version /\ fetching[w].step = "fetched"
            /\ newest' = IF fetching[w].version > newest THEN fetching[w].version ELSE newest
        BY <1>3, <3>4 DEF Calendars!Finish
      <4>2. fetching[w].version \in Calendars!Version
        BY <4>1 DEF CInv, Calendars!TypeOK, Calendars!Idle
      <4>3. sub' \in Subscription /\ sub'.etag = fetching[w].version /\ sub'.token = Calendars!NoHolder
        BY <3>1, <4>1, <4>2 DEF Subscription
      <4> QED
        BY <3>4, <4>1, <4>2, <4>3
    <3> QED
      BY <3>3, <3>4
  <2>5. sub' # Calendars!Removed
    BY <2>4, SubscriptionFacts DEF Subscription, Calendars!Removed
  <2>6. \A v \in Worker : ~Calendars!StillLeased(v)'
    BY <2>4 DEF Calendars!StillLeased, Calendars!SubscriptionAssumption
  <2>7. CASE etag = sub.etag /\ UNCHANGED <<imported, newest>>
    <3>1. Calendars!TypeOK'
      BY <1>1, <2>3, <2>4, <2>7 DEF CInv, Calendars!TypeOK, Subscription, Calendars!Version
    <3> QED
      BY <1>1, <2>1, <2>4, <2>5, <2>6, <2>7, <3>1, LeaseStep
  <2>8. CASE /\ imported' = etag /\ newest' = IF etag > newest THEN etag ELSE newest
             /\ fetching[w].step = "fetched" /\ fetching[w].got = "changed" /\ etag = fetching[w].version
    <3>1. imported <= etag /\ imported = newest
      BY <1>3, <2>8 DEF CInv, LeaseInv, Calendars!NewestImported
    <3>2. newest' = etag /\ imported' = etag /\ etag \in Nat
      BY <2>8, <3>1, SubscriptionFacts DEF CInv
    <3>3. etag <= feed
      BY <1>3, <2>8 DEF CInv, LeaseInv
    <3>4. Calendars!TypeOK'
      BY <1>1, <2>3, <2>4, <3>2 DEF CInv, Calendars!TypeOK, Subscription, Calendars!Version
    <3> QED
      BY <1>1, <2>4, <2>6, <3>2, <3>3, <3>4 DEF CInv, Calendars!NewestImported, LeaseInv
  <2> QED
    BY <2>4, <2>7, <2>8
<1> QED
  BY <1>2, <1>3

\* Every step keeps the invariant.
LEMMA CalendarNext == ASSUME Calendars!SubscriptionAssumption, CInv, [Calendars!Next]_(Calendars!svars) PROVE CInv'
<1>1. CASE Calendars!Publish
  <2>1. feed <= feed' /\ Calendars!TypeOK'
    BY <1>1 DEF Calendars!Publish, CInv, Calendars!TypeOK, Calendars!SubscriptionAssumption, Calendars!Version
  <2>2. UNCHANGED <<sub, imported, fetching, newest>>
    BY <1>1 DEF Calendars!Publish
  <2>3. \A w \in Worker : Calendars!StillLeased(w)' <=> Calendars!StillLeased(w)
    BY <2>2 DEF Calendars!StillLeased
  <2> QED
    BY <2>1, <2>2, <2>3, LeaseStep
<1>2. CASE Calendars!Remove
  <2>1. sub' = Calendars!Removed /\ imported' = 0 /\ newest' = 0 /\ UNCHANGED <<feed, fetching>>
    BY <1>2 DEF Calendars!Remove
  <2>2. Calendars!TypeOK'
    BY <2>1 DEF CInv, Calendars!TypeOK, Calendars!Version, Calendars!SubscriptionAssumption
  <2>3. \A w \in Worker : ~Calendars!StillLeased(w)'
    BY <2>1 DEF Calendars!StillLeased
  <2> QED
    BY <2>1, <2>2, <2>3, SubscriptionFacts DEF CInv, Calendars!NewestImported, LeaseInv
<1>3. CASE Calendars!Refresh \/ Calendars!Due \/ Calendars!Lapse
  BY <1>3, OwnerSteps
<1>4. ASSUME NEW s \in {"enabled", "paused"}, Calendars!Update(s) PROVE CInv'
  BY <1>4, OwnerSteps
<1>5. ASSUME NEW w \in Worker, Calendars!Claim(w) \/ Calendars!Fetch(w) \/ Calendars!Finish(w) \/ Calendars!Crash(w) PROVE CInv'
  BY <1>5, ProcessInv, FinishInv
<1>6. CASE UNCHANGED Calendars!svars
  BY <1>6 DEF Calendars!svars, CInv, Calendars!TypeOK, Calendars!NewestImported, LeaseInv, Calendars!StillLeased
<1> QED
  BY <1>1, <1>2, <1>3, <1>4, <1>5, <1>6 DEF Calendars!Next

\* A slow download never puts an older calendar back over a newer import
\* (subscriptions/store.go:223-257).
THEOREM NewestStays == Calendars!Spec => []NewestImported
<1>1. Calendars!Init => CInv
  BY CalendarInit, LibraryAssumption
<1>2. CInv /\ [Calendars!Next]_(Calendars!svars) => CInv'
  BY CalendarNext, LibraryAssumption
<1>3. CInv => NewestImported
  BY DEF CInv, NewestImported
<1> QED
  BY <1>1, <1>2, <1>3, PTL DEF Calendars!Spec

-----------------------------------------------------------------------------
(* The tasks a CalDAV client follows.                                       *)

\* The client's next answer brings the task, or an exception is on record.
Told(t) == token = Tasks!NoToken \/ Tasks!ChangedSince(t) \/ t \in overdue \cup cut

\* A clean-up removed the task and has not recorded its floor.
Unrecorded(t) == raising # 0 /\ token < raising /\ t \in purged /\ todo[t] = Tasks!NoTask

\* What the client has wrong it will hear of, or its token is refused.
WaitsInv ==
  \A t \in Todo : copy[t] # Tasks!Shown(t) => Told(t) \/ token < floor \/ Unrecorded(t)

\* While a request is answered its token was not below the floor: what the client has
\* wrong it will hear of, or the task is gone and the request met its removal.
AskInv ==
  report.step # "idle" =>
    \A t \in Todo : copy[t] # Tasks!Shown(t) =>
      Told(t) \/ (t \in report.raced /\ todo[t] = Tasks!NoTask)

\* What a request read is as it was but for what met it, and its rows are of it.
RequestInv ==
  report.step = "read" =>
    /\ \A t \in Todo \ report.raced : report.seen[t] = todo[t]
    /\ \A t \in Todo : t \in report.rows <=>
         IF token = Tasks!NoToken THEN report.seen[t].state = "live"
         ELSE report.seen[t] # Tasks!NoTask /\ report.seen[t].updated >= token

\* A write under its locks still applies.
SavingInv == \A x \in saving : \A t \in x.on : Tasks!Applies(x.kind, t)

\* The bound on writes counts the open ones.
SavesCounted == IsFiniteSet(saving) /\ saved + Cardinality(saving) <= MaxSaved

\* A stamp is ahead of the clock by one for each write at most.
StampInv == \A t \in Todo : todo[t].updated <= MaxTicks + saved

TasksInv ==
  /\ Tasks!TypeOK /\ SavingInv /\ SavesCounted /\ StampInv
  /\ WaitsInv /\ AskInv /\ RequestInv

\* Stamps are bounded, so a set of them has a maximum.
LEMMA TasksMax ==
  ASSUME NEW b \in Nat, NEW S, S \subseteq 0..b, S # {}
  PROVE  Tasks!Max(S) \in S /\ \A y \in S : y <= Tasks!Max(S)
<1> DEFINE R == {p \in Nat \X Nat : p[1] < p[2]}
           below == {n \in 0..b : b - n \in S}
<1>1. IsWellFoundedOn(R, Nat)
  BY NatLessThanWellFounded DEF OpToRel
<1> HIDE DEF R
<1>2. PICK z \in S : TRUE
  OBVIOUS
<1>3. b - z \in below
  BY <1>2
<1>4. below \subseteq Nat /\ below # {}
  BY <1>3
<1>5. PICK n \in below : \A m \in below : ~(<<m, n>> \in R)
  BY <1>1, <1>4, WFMin
<1>6. \A y \in S : b - n >= y
  <2>1. TAKE y \in S
  <2>2. y \in 0..b /\ b - y \in below /\ n \in 0..b
    BY <1>5
  <2>3. ~(<<b - y, n>> \in R) /\ b - y \in Nat /\ n \in Nat
    BY <1>4, <1>5, <2>2
  <2> HIDE DEF below
  <2>4. ~(b - y < n)
    BY <2>3 DEF R
  <2> QED
    BY <2>2, <2>4
<1>7. \E x \in S : \A y \in S : x >= y
  BY <1>5, <1>6
<1>8. Tasks!Max(S) \in S /\ \A y \in S : Tasks!Max(S) >= y
  BY <1>7 DEF Tasks!Max
<1>9. \A y \in S : y \in Nat
  OBVIOUS
<1> QED
  BY <1>8, <1>9

\* The maximum of two stamps.
LEMMA TasksMaxTwo ==
  ASSUME NEW m \in Nat, NEW n \in Nat
  PROVE  /\ Tasks!Max({m, n}) \in {m, n} /\ m <= Tasks!Max({m, n}) /\ n <= Tasks!Max({m, n})
<1>1. {m, n} \subseteq 0..(m + n)
  OBVIOUS
<1> QED
  BY <1>1, TasksMax

\* The sizes of sets, as the library's theorems have them.
LEMMA TasksCardinality == ASSUME NEW S PROVE Tasks!Cardinality(S) = Cardinality(S)
  BY DEF Tasks!Cardinality, Cardinality, Tasks!IsFiniteSet, IsFiniteSet

\* What the constants and the empty row are.
LEMMA TasksConstants ==
  ASSUME Tasks!TaskAssumption
  PROVE  /\ MaxTicks \in Nat \ {0} /\ MaxSaved \in Nat
         /\ Tasks!NoToken = MaxTicks + MaxSaved + 1 /\ Tasks!Stamps = 0..(MaxTicks + MaxSaved)
         /\ Tasks!Nothing = MaxSaved + 1
         /\ Tasks!NoTask \in Tasks!Row /\ Tasks!NoTask.state = "none"
         /\ Tasks!NoTask.updated = 0 /\ Tasks!NoTask.created = 0
  BY DEF Tasks!TaskAssumption, Tasks!NoToken, Tasks!Stamps, Tasks!Nothing, Tasks!NoTask, Tasks!Row

\* The initial states.
LEMMA TasksInit == ASSUME Tasks!TaskAssumption, Tasks!Init PROVE TasksInv
<1>1. /\ ticks = 1 /\ todo = [t \in Todo |-> Tasks!NoTask] /\ purged = {} /\ floor = 0
      /\ saving = {} /\ raising = 0 /\ token = Tasks!NoToken
      /\ copy = [t \in Todo |-> Tasks!Nothing] /\ report = Tasks!Idle
      /\ overdue = {} /\ cut = {} /\ saved = 0
  BY DEF Tasks!Init
<1>2. \A t \in Todo : ~Tasks!Live(t) /\ Tasks!Shown(t) = Tasks!Nothing
  BY <1>1, TasksConstants DEF Tasks!Live, Tasks!Shown
<1>3. report.step = "idle" /\ report.raced = {} /\ report.rows = {}
      /\ report.seen = [t \in Todo |-> Tasks!NoTask]
  BY <1>1 DEF Tasks!Idle
<1>4. report \in [step : {"idle", "checked", "read"}, rows : SUBSET Todo,
                  seen : [Todo -> Tasks!Row], raced : SUBSET Todo]
  BY <1>1, TasksConstants DEF Tasks!Idle
<1>5. Tasks!TypeOK
  BY <1>1, <1>2, <1>4, TasksConstants DEF Tasks!TypeOK
<1>6. SavesCounted
  BY <1>1, FS_EmptySet, TasksConstants DEF SavesCounted
<1>7. SavingInv /\ StampInv
  BY <1>1, TasksConstants DEF SavingInv, StampInv
<1>8. WaitsInv /\ AskInv /\ RequestInv
  BY <1>1, <1>2, <1>3 DEF WaitsInv, AskInv, RequestInv
<1> QED
  BY <1>5, <1>6, <1>7, <1>8 DEF TasksInv

\* Time passes.
LEMMA TasksTick == ASSUME Tasks!TaskAssumption, TasksInv, Tasks!Tick PROVE TasksInv'
<1>1. /\ ticks < MaxTicks /\ ticks' = ticks + 1
      /\ UNCHANGED <<todo, purged, floor, saving, raising, token, copy, report, overdue, cut, saved>>
  BY DEF Tasks!Tick
<1>2. ticks' \in 1..MaxTicks /\ 1..ticks \subseteq 1..ticks'
  BY <1>1, TasksConstants DEF TasksInv, Tasks!TypeOK
<1>3. saving' \subseteq [kind : Tasks!Kinds, on : SUBSET Todo, now : 1..ticks']
  BY <1>1, <1>2 DEF TasksInv, Tasks!TypeOK
<1>4. Tasks!TypeOK'
  BY <1>1, <1>2, <1>3 DEF TasksInv, Tasks!TypeOK, Tasks!Live
<1>5. SavingInv' /\ SavesCounted' /\ StampInv'
  BY <1>1 DEF TasksInv, SavingInv, SavesCounted, StampInv, Tasks!Applies, Tasks!Live, Tasks!Trashed
<1>6. WaitsInv' /\ AskInv' /\ RequestInv'
  BY <1>1 DEF TasksInv, WaitsInv, AskInv, RequestInv, Told, Unrecorded, Tasks!Shown, Tasks!Live,
    Tasks!ChangedSince
<1> QED
  BY <1>4, <1>5, <1>6 DEF TasksInv

\* A write takes its locks and its stamp.
LEMMA TasksBegin == ASSUME Tasks!TaskAssumption, TasksInv, Tasks!Begin PROVE TasksInv'
<1>1. PICK kind \in Tasks!Kinds, on \in (SUBSET Todo) \ {{}} :
        /\ saved + Cardinality(saving) < MaxSaved
        /\ \A t \in on : Tasks!Applies(kind, t) /\ ~Tasks!Locked(t)
        /\ saving' = saving \cup {[kind |-> kind, on |-> on, now |-> ticks]}
        /\ UNCHANGED <<ticks, todo, purged, floor, raising, token, copy, report, overdue, cut, saved>>
  BY TasksCardinality DEF Tasks!Begin
<1> DEFINE x == [kind |-> kind, on |-> on, now |-> ticks]
<1>2. x \in [kind : Tasks!Kinds, on : SUBSET Todo, now : 1..ticks] /\ x.on = on /\ x.kind = kind
  BY DEF TasksInv, Tasks!TypeOK
<1>3. saving' = saving \cup {x}
  BY <1>1
<1> HIDE DEF x
<1>4. \A y \in saving : x.on \cap y.on = {} /\ y.on \cap x.on = {}
  BY <1>1, <1>2 DEF Tasks!Locked
<1>5. \A y, z \in saving' : y # z => y.on \cap z.on = {}
  <2>1. SUFFICES ASSUME NEW y \in saving', NEW z \in saving', y # z PROVE y.on \cap z.on = {}
    OBVIOUS
  <2>2. CASE y \in saving /\ z \in saving
    BY <2>1, <2>2 DEF TasksInv, Tasks!TypeOK
  <2>3. CASE ~(y \in saving /\ z \in saving)
    BY <1>3, <1>4, <2>1, <2>3
  <2> QED
    BY <2>2, <2>3
<1>6. saving' \subseteq [kind : Tasks!Kinds, on : SUBSET Todo, now : 1..ticks]
  BY <1>2, <1>3 DEF TasksInv, Tasks!TypeOK
<1>7. Tasks!TypeOK'
  BY <1>1, <1>5, <1>6 DEF TasksInv, Tasks!TypeOK, Tasks!Live
<1>8. SavesCounted'
  <2>1. IsFiniteSet(saving) /\ Cardinality(saving) \in Nat /\ saved \in Nat
    BY FS_CardinalityType DEF TasksInv, SavesCounted, Tasks!TypeOK
  <2>2. /\ IsFiniteSet(saving')
        /\ Cardinality(saving') = IF x \in saving THEN Cardinality(saving) ELSE Cardinality(saving) + 1
    BY <1>3, <2>1, FS_AddElement
  <2>3. Cardinality(saving') <= Cardinality(saving) + 1
    BY <2>1, <2>2
  <2> QED
    BY <1>1, <2>1, <2>2, <2>3, TasksConstants DEF SavesCounted
<1>9. SavingInv'
  <2>1. SUFFICES ASSUME NEW y \in saving', NEW t \in y.on PROVE Tasks!Applies(y.kind, t)'
    BY DEF SavingInv
  <2>2. Tasks!Applies(y.kind, t)
    BY <1>1, <1>2, <1>3 DEF TasksInv, SavingInv
  <2> QED
    BY <1>1, <2>2 DEF Tasks!Applies, Tasks!Live, Tasks!Trashed
<1>10. StampInv'
  BY <1>1 DEF TasksInv, StampInv
<1>11. WaitsInv' /\ AskInv' /\ RequestInv'
  BY <1>1 DEF TasksInv, WaitsInv, AskInv, RequestInv, Told, Unrecorded, Tasks!Shown, Tasks!Live,
    Tasks!ChangedSince
<1> QED
  BY <1>7, <1>8, <1>9, <1>10, <1>11 DEF TasksInv
\* What a step leaves as it was.
LEMMA TaskKept ==
  ASSUME NEW t \in Todo, todo'[t] = todo[t]
  PROVE  /\ Tasks!Live(t)' = Tasks!Live(t) /\ Tasks!Trashed(t)' = Tasks!Trashed(t)
         /\ Tasks!Shown(t)' = Tasks!Shown(t)
         /\ token' = token => Tasks!ChangedSince(t)' = Tasks!ChangedSince(t)
  BY DEF Tasks!Live, Tasks!Trashed, Tasks!Shown, Tasks!ChangedSince

\* What a write makes of a task.
LEMMA TasksWritten ==
  ASSUME Tasks!TaskAssumption, TasksInv, saved < MaxSaved, NEW x \in saving, NEW t \in x.on
  PROVE  /\ t \in Todo
         /\ Tasks!Written(x, t) \in Tasks!Row /\ Tasks!Written(x, t).state # "none"
         /\ Tasks!Written(x, t).created <= Tasks!Written(x, t).updated
         /\ Tasks!Written(x, t).updated <= MaxTicks + saved + 1
         /\ Tasks!Written(x, t).state = "live" =>
              x.kind \in {"create", "update", "restore"} /\ t \notin purged
         /\ x.kind = "purge" => Tasks!Written(x, t).state = "trash"
<1>1. x.kind \in Tasks!Kinds /\ x.on \subseteq Todo /\ x.now \in 1..ticks /\ ticks \in 1..MaxTicks
  BY DEF TasksInv, Tasks!TypeOK
<1>2. todo[t] \in Tasks!Row /\ todo[t].created <= todo[t].updated
  BY <1>1 DEF TasksInv, Tasks!TypeOK
<1>3. todo[t].updated \in Nat /\ todo[t].created \in Nat /\ todo[t].updated <= MaxTicks + saved
  BY <1>1, <1>2, TasksConstants DEF Tasks!Row, TasksInv, StampInv
<1>4. x.now \in Nat /\ x.now <= MaxTicks /\ saved \in Nat
  BY <1>1, TasksConstants DEF TasksInv, Tasks!TypeOK
<1> DEFINE m == Tasks!Max({x.now, todo[t].updated + 1})
<1>5. m \in Nat /\ m <= MaxTicks + saved + 1 /\ todo[t].updated <= m
  <2>0. x.now \in Nat /\ todo[t].updated + 1 \in Nat
    BY <1>3, <1>4
  <2> DEFINE up == todo[t].updated + 1
  <2> HIDE DEF up
  <2>1. /\ m \in {x.now, todo[t].updated + 1} /\ x.now <= m /\ todo[t].updated + 1 <= m
    <3>1. /\ Tasks!Max({x.now, up}) \in {x.now, up} /\ x.now <= Tasks!Max({x.now, up})
          /\ up <= Tasks!Max({x.now, up})
      BY <2>0, TasksMaxTwo DEF up
    <3> QED
      BY <3>1 DEF m, up
  <2> QED
    BY <1>3, <1>4, <2>1, TasksConstants
<1> HIDE DEF m
<1> DEFINE st == IF x.kind \in {"delete", "clear", "purge"} THEN "trash" ELSE "live"
           cr == IF x.kind = "create" THEN x.now ELSE todo[t].created
           up == IF x.kind = "create" THEN x.now ELSE m
           co == IF x.kind \in {"create", "update"} THEN saved + 1 ELSE todo[t].content
<1>6. Tasks!Written(x, t) = [state |-> st, created |-> cr, updated |-> up, content |-> co]
  BY DEF Tasks!Written, m
<1>7. st \in {"live", "trash"}
  OBVIOUS
<1>8. up \in Tasks!Stamps /\ up <= MaxTicks + saved + 1
  BY <1>4, <1>5, TasksConstants
<1>9. cr \in Tasks!Stamps /\ cr <= up
  BY <1>2, <1>3, <1>4, <1>5, TasksConstants
<1>10. co \in 0..MaxSaved
  BY <1>2, <1>4, TasksConstants DEF Tasks!Row
<1>11. st = "live" => x.kind \in {"create", "update", "restore"} /\ t \notin purged
  BY <1>1 DEF TasksInv, SavingInv, Tasks!Applies, Tasks!Kinds, Tasks!TypeOK, Tasks!Live
<1>12. x.kind = "purge" => st = "trash"
  OBVIOUS
<1> HIDE DEF st, cr, up, co
<1>13. Tasks!Written(x, t) \in Tasks!Row
  BY <1>6, <1>7, <1>8, <1>9, <1>10 DEF Tasks!Row
<1> QED
  BY <1>1, <1>6, <1>7, <1>8, <1>9, <1>11, <1>12, <1>13

\* A write commits.
LEMMA TasksCommit == ASSUME Tasks!TaskAssumption, TasksInv, Tasks!Commit PROVE TasksInv'
<1>1. PICK x \in saving :
        /\ saving' = saving \ {x} /\ saved' = saved + 1
        /\ todo' = [t \in Todo |-> IF t \in x.on THEN Tasks!Written(x, t) ELSE todo[t]]
        /\ purged' = IF x.kind = "purge" THEN purged \cup x.on ELSE purged
        /\ overdue' = (overdue \ x.on) \cup
             {t \in x.on : token # Tasks!NoToken /\ Tasks!Written(x, t).updated < token}
        /\ cut' = cut \ x.on
        /\ Tasks!Raced(x.on)
        /\ UNCHANGED <<ticks, floor, raising, token, copy>>
  BY DEF Tasks!Commit
<1>2. x.kind \in Tasks!Kinds /\ x.on \subseteq Todo
  BY DEF TasksInv, Tasks!TypeOK
<1>3. /\ IsFiniteSet(saving') /\ Cardinality(saving') + 1 = Cardinality(saving)
      /\ Cardinality(saving') \in Nat /\ saved \in Nat /\ saved < MaxSaved
  <2>1. IsFiniteSet(saving) /\ saved \in Nat /\ saved + Cardinality(saving) <= MaxSaved
    BY DEF TasksInv, SavesCounted, Tasks!TypeOK
  <2>2. IsFiniteSet(saving') /\ Cardinality(saving') = Cardinality(saving) - 1
    BY <1>1, <2>1, FS_RemoveElement
  <2>3. Cardinality(saving') \in Nat /\ Cardinality(saving) \in Nat
    BY <2>1, <2>2, FS_CardinalityType
  <2> QED
    BY <2>1, <2>2, <2>3, TasksConstants
<1>4. \A t \in x.on :
        /\ t \in Todo /\ todo'[t] = Tasks!Written(x, t)
        /\ Tasks!Written(x, t) \in Tasks!Row /\ Tasks!Written(x, t).state # "none"
        /\ Tasks!Written(x, t).created <= Tasks!Written(x, t).updated
        /\ Tasks!Written(x, t).updated <= MaxTicks + saved + 1
        /\ Tasks!Written(x, t).state = "live" =>
             x.kind \in {"create", "update", "restore"} /\ t \notin purged
  BY <1>1, <1>2, <1>3, TasksWritten
<1>5. \A t \in Todo \ x.on : todo'[t] = todo[t]
  BY <1>1
<1>6. todo' \in [Todo -> Tasks!Row]
  BY <1>1, <1>4 DEF TasksInv, Tasks!TypeOK
<1>7. report' = [report EXCEPT !.raced = IF report.step = "idle" THEN {} ELSE @ \cup x.on]
  BY <1>1 DEF Tasks!Raced
<1>8. /\ report'.step = report.step /\ report'.rows = report.rows /\ report'.seen = report.seen
      /\ report.step # "idle" => report'.raced = report.raced \cup x.on
      /\ report' \in [step : {"idle", "checked", "read"}, rows : SUBSET Todo,
                      seen : [Todo -> Tasks!Row], raced : SUBSET Todo]
  BY <1>2, <1>7 DEF TasksInv, Tasks!TypeOK
<1>9. \A t \in x.on : token = Tasks!NoToken \/ Tasks!ChangedSince(t)' \/ t \in overdue'
  <2>1. SUFFICES ASSUME NEW t \in x.on, token # Tasks!NoToken, t \notin overdue'
                 PROVE  Tasks!ChangedSince(t)'
    OBVIOUS
  <2>2. ~(Tasks!Written(x, t).updated < token) /\ token \in Nat
    BY <1>1, <2>1, TasksConstants DEF TasksInv, Tasks!TypeOK
  <2>3. Tasks!Written(x, t).updated \in Nat
    BY <1>4, TasksConstants DEF Tasks!Row
  <2>4. todo'[t] # Tasks!NoTask /\ todo'[t].updated >= token
    BY <1>4, <2>2, <2>3, TasksConstants
  <2> QED
    BY <1>1, <2>4 DEF Tasks!ChangedSince
<1>10. Tasks!TypeOK'
  <2>1. ticks' \in 1..MaxTicks /\ saved' \in 0..MaxSaved /\ purged' \subseteq Todo
    BY <1>1, <1>2, <1>3, TasksConstants DEF TasksInv, Tasks!TypeOK
  <2>2. \A t \in Todo : todo'[t].created <= todo'[t].updated /\ (t \in purged' => todo'[t].state # "live")
    <3>1. SUFFICES ASSUME NEW t \in Todo
                   PROVE  todo'[t].created <= todo'[t].updated
                          /\ (t \in purged' => todo'[t].state # "live")
      OBVIOUS
    <3>2. CASE t \in x.on
      BY <1>1, <1>4, <3>2
    <3>3. CASE t \notin x.on
      BY <1>1, <1>5, <3>3 DEF TasksInv, Tasks!TypeOK, Tasks!Live
    <3> QED
      BY <3>2, <3>3
  <2>3. /\ saving' \subseteq [kind : Tasks!Kinds, on : SUBSET Todo, now : 1..ticks']
        /\ \A y, z \in saving' : y # z => y.on \cap z.on = {}
    BY <1>1 DEF TasksInv, Tasks!TypeOK
  <2>4. overdue' \subseteq Todo /\ cut' \subseteq Todo
    BY <1>1, <1>2 DEF TasksInv, Tasks!TypeOK
  <2>5. floor' \in 0..MaxTicks /\ raising' \in 0..MaxTicks
        /\ token' \in Tasks!Stamps \cup {Tasks!NoToken} /\ copy' \in [Todo -> 0..Tasks!Nothing]
    BY <1>1 DEF TasksInv, Tasks!TypeOK
  <2> QED
    BY <1>6, <1>8, <2>1, <2>2, <2>3, <2>4, <2>5 DEF Tasks!TypeOK, Tasks!Live
<1>11. SavingInv'
  <2>1. SUFFICES ASSUME NEW y \in saving', NEW t \in y.on PROVE Tasks!Applies(y.kind, t)'
    BY DEF SavingInv
  <2>2. y \in saving /\ y # x /\ t \in Todo /\ t \notin x.on
    BY <1>1 DEF TasksInv, Tasks!TypeOK
  <2>3. Tasks!Applies(y.kind, t) /\ todo'[t] = todo[t] /\ (t \in purged' <=> t \in purged)
    BY <1>1, <1>5, <2>2 DEF TasksInv, SavingInv
  <2> QED
    BY <2>3 DEF Tasks!Applies, Tasks!Live, Tasks!Trashed
<1>12. SavesCounted'
  BY <1>1, <1>3, TasksConstants DEF TasksInv, SavesCounted
<1>13. StampInv'
  <2>1. SUFFICES ASSUME NEW t \in Todo PROVE todo'[t].updated <= MaxTicks + saved'
    BY DEF StampInv
  <2>2. CASE t \in x.on
    <3>1. todo'[t] \in Tasks!Row /\ todo'[t].updated <= MaxTicks + saved + 1
      BY <1>4, <2>2
    <3>2. todo'[t].updated \in Nat
      BY <3>1, TasksConstants DEF Tasks!Row
    <3> QED
      BY <1>1, <1>3, <3>1, <3>2, TasksConstants
  <2>3. CASE t \notin x.on
    <3>1. todo'[t] = todo[t] /\ todo[t].updated <= MaxTicks + saved
      BY <1>5, <2>3 DEF TasksInv, StampInv
    <3>2. todo[t].updated \in Nat
      BY TasksConstants DEF TasksInv, Tasks!TypeOK, Tasks!Row
    <3> QED
      BY <1>1, <1>3, <3>1, <3>2, TasksConstants
  <2> QED
    BY <2>2, <2>3
<1>14. \A t \in Todo \ x.on :
         /\ Tasks!Shown(t)' = Tasks!Shown(t) /\ (Told(t) => Told(t)')
         /\ (Unrecorded(t) => Unrecorded(t)')
  <2>1. TAKE t \in Todo \ x.on
  <2>2. todo'[t] = todo[t] /\ token' = token /\ raising' = raising
    BY <1>1, <1>5
  <2>3. Tasks!Shown(t)' = Tasks!Shown(t) /\ Tasks!ChangedSince(t)' = Tasks!ChangedSince(t)
    BY <2>2, TaskKept
  <2>4. (t \in overdue => t \in overdue') /\ (t \in cut => t \in cut') /\ (t \in purged => t \in purged')
    BY <1>1
  <2> QED
    BY <2>2, <2>3, <2>4 DEF Told, Unrecorded
<1>15. \A t \in x.on : Told(t)'
  BY <1>1, <1>9 DEF Told
<1>16. WaitsInv' /\ AskInv'
  BY <1>1, <1>5, <1>8, <1>14, <1>15 DEF TasksInv, WaitsInv, AskInv
<1>17. RequestInv'
  BY <1>1, <1>5, <1>8 DEF TasksInv, RequestInv
<1> QED
  BY <1>10, <1>11, <1>12, <1>13, <1>16, <1>17 DEF TasksInv
\* Old tombstones go.
LEMMA TasksHardDelete == ASSUME Tasks!TaskAssumption, TasksInv, Tasks!HardDelete PROVE TasksInv'
<1>1. PICK cutoff \in 1..(ticks - 1) :
        LET old == {t \in Todo : Tasks!Trashed(t) /\ todo[t].updated < cutoff} IN
        /\ raising = 0
        /\ \A t \in Todo : Tasks!Trashed(t) => ~Tasks!Locked(t)
        /\ todo' = [t \in Todo |-> IF t \in old THEN Tasks!NoTask ELSE todo[t]]
        /\ purged' = purged \cup old
        /\ raising' = cutoff
        /\ Tasks!Raced(old)
        /\ UNCHANGED <<ticks, floor, saving, token, copy, overdue, cut, saved>>
  BY DEF Tasks!HardDelete
<1> DEFINE old == {t \in Todo : Tasks!Trashed(t) /\ todo[t].updated < cutoff}
<1>2. \A t \in Todo : t \in old <=> Tasks!Trashed(t) /\ todo[t].updated < cutoff
  OBVIOUS
<1>3. /\ old \subseteq Todo /\ raising = 0 /\ raising' = cutoff
      /\ \A t \in Todo : Tasks!Trashed(t) => ~Tasks!Locked(t)
      /\ todo' = [t \in Todo |-> IF t \in old THEN Tasks!NoTask ELSE todo[t]]
      /\ purged' = purged \cup old
      /\ Tasks!Raced(old)
      /\ UNCHANGED <<ticks, floor, saving, token, copy, overdue, cut, saved>>
  BY <1>1
<1> HIDE DEF old
<1>4. \A t \in Todo \ old : todo'[t] = todo[t]
  BY <1>3
<1>5. \A t \in old : todo'[t] = Tasks!NoTask
  BY <1>3
<1>6. report' = [report EXCEPT !.raced = IF report.step = "idle" THEN {} ELSE @ \cup old]
  BY <1>3 DEF Tasks!Raced
<1>7. /\ report'.step = report.step /\ report'.rows = report.rows /\ report'.seen = report.seen
      /\ report.step # "idle" => report'.raced = report.raced \cup old
      /\ report' \in [step : {"idle", "checked", "read"}, rows : SUBSET Todo,
                      seen : [Todo -> Tasks!Row], raced : SUBSET Todo]
  BY <1>3, <1>6 DEF TasksInv, Tasks!TypeOK
<1>8. /\ todo' \in [Todo -> Tasks!Row]
      /\ \A t \in Todo : todo'[t].created <= todo'[t].updated /\ (t \in purged' => todo'[t].state # "live")
  <2>1. todo' \in [Todo -> Tasks!Row]
    BY <1>3, TasksConstants DEF TasksInv, Tasks!TypeOK
  <2>2. SUFFICES ASSUME NEW t \in Todo
                 PROVE  todo'[t].created <= todo'[t].updated
                        /\ (t \in purged' => todo'[t].state # "live")
    BY <2>1
  <2>3. CASE t \in old
    BY <1>5, <2>3, TasksConstants
  <2>4. CASE t \notin old
    BY <1>3, <1>4, <2>4 DEF TasksInv, Tasks!TypeOK, Tasks!Live
  <2> QED
    BY <2>3, <2>4
<1>9. cutoff \in Nat /\ cutoff \in 0..MaxTicks /\ cutoff # 0
  BY TasksConstants DEF TasksInv, Tasks!TypeOK
<1>10. Tasks!TypeOK'
  BY <1>3, <1>7, <1>8, <1>9 DEF TasksInv, Tasks!TypeOK, Tasks!Live
<1>11. SavingInv'
  <2>1. SUFFICES ASSUME NEW x \in saving, NEW t \in x.on PROVE Tasks!Applies(x.kind, t)'
    BY <1>3 DEF SavingInv
  <2>2. t \in Todo /\ Tasks!Applies(x.kind, t) /\ Tasks!Locked(t)
    BY DEF TasksInv, Tasks!TypeOK, SavingInv, Tasks!Locked
  <2>3. t \notin old
    BY <1>2, <1>3, <2>2
  <2>4. todo'[t] = todo[t] /\ (t \in purged' <=> t \in purged)
    BY <1>3, <1>4, <2>2, <2>3
  <2> QED
    BY <2>2, <2>4 DEF Tasks!Applies, Tasks!Live, Tasks!Trashed
<1>12. SavesCounted'
  BY <1>3 DEF TasksInv, SavesCounted
<1>13. StampInv'
  <2>1. SUFFICES ASSUME NEW t \in Todo PROVE todo'[t].updated <= MaxTicks + saved
    BY <1>3 DEF StampInv
  <2>2. saved \in Nat
    BY TasksConstants DEF TasksInv, Tasks!TypeOK
  <2> QED
    BY <1>4, <1>5, <2>2, TasksConstants DEF TasksInv, StampInv
<1>14. \A t \in Todo : Tasks!Shown(t)' = Tasks!Shown(t)
  <2>1. TAKE t \in Todo
  <2>2. CASE t \in old
    BY <1>2, <1>5, <2>2, TasksConstants DEF Tasks!Shown, Tasks!Live, Tasks!Trashed
  <2>3. CASE t \notin old
    BY <1>4, <2>3, TaskKept
  <2> QED
    BY <2>2, <2>3
<1>15. \A t \in Todo \ old : Told(t) => Told(t)'
  BY <1>3, <1>4, TaskKept DEF Told
<1>16. \A t \in old : Told(t) => Told(t)' \/ Unrecorded(t)'
  <2>1. SUFFICES ASSUME NEW t \in old, Tasks!ChangedSince(t), token # Tasks!NoToken
                 PROVE  Unrecorded(t)'
    BY <1>3 DEF Told
  <2>2. todo[t].updated >= token /\ todo[t].updated < cutoff /\ t \in Todo
    BY <1>2, <1>3, <2>1 DEF Tasks!ChangedSince
  <2>3. todo[t].updated \in Nat /\ token \in Nat
    BY <2>1, <2>2, TasksConstants DEF TasksInv, Tasks!TypeOK, Tasks!Row
  <2>4. token < cutoff
    BY <1>9, <2>2, <2>3
  <2> QED
    BY <1>3, <1>5, <1>9, <2>4 DEF Unrecorded
<1>17. WaitsInv'
  BY <1>3, <1>14, <1>15, <1>16 DEF TasksInv, WaitsInv, Unrecorded
<1>18. AskInv'
  BY <1>3, <1>4, <1>5, <1>7, <1>14, <1>15 DEF TasksInv, AskInv
<1>19. RequestInv'
  BY <1>3, <1>4, <1>7 DEF TasksInv, RequestInv
<1> QED
  BY <1>10, <1>11, <1>12, <1>13, <1>17, <1>18, <1>19 DEF TasksInv

\* The floor of a clean-up is recorded, or lost.
LEMMA TasksFloor ==
  ASSUME Tasks!TaskAssumption, TasksInv, Tasks!RaiseFloor \/ Tasks!FloorLost
  PROVE  TasksInv'
<1>1. /\ raising # 0 /\ raising' = 0
      /\ UNCHANGED <<ticks, todo, purged, saving, token, copy, report, cut, saved>>
  BY DEF Tasks!RaiseFloor, Tasks!FloorLost
<1>2. floor \in Nat /\ raising \in Nat /\ floor \in 0..MaxTicks /\ raising \in 0..MaxTicks
      /\ MaxTicks \in Nat /\ token \in Nat
  BY TasksConstants DEF TasksInv, Tasks!TypeOK
<1>3. /\ floor' \in 0..MaxTicks /\ floor <= floor' /\ overdue' \subseteq Todo
      /\ overdue \subseteq overdue'
      /\ raising <= floor' \/ \A t \in purged : todo[t] = Tasks!NoTask => t \in overdue'
  <2>1. CASE Tasks!RaiseFloor
    <3>1. floor' = Tasks!Max({floor, raising}) /\ overdue' = overdue
      BY <2>1 DEF Tasks!RaiseFloor
    <3>2. floor' \in {floor, raising} /\ floor <= floor' /\ raising <= floor'
      BY <1>2, <3>1, TasksMaxTwo
    <3> QED
      BY <1>2, <3>1, <3>2 DEF TasksInv, Tasks!TypeOK
  <2>2. CASE Tasks!FloorLost
    <3>1. floor' = floor /\ overdue' = overdue \cup {t \in purged : todo[t] = Tasks!NoTask}
      BY <2>2 DEF Tasks!FloorLost
    <3> QED
      BY <1>2, <3>1 DEF TasksInv, Tasks!TypeOK
  <2> QED
    BY <2>1, <2>2
<1>4. Tasks!TypeOK'
  BY <1>1, <1>2, <1>3 DEF TasksInv, Tasks!TypeOK, Tasks!Live
<1>5. SavingInv' /\ SavesCounted' /\ StampInv'
  BY <1>1 DEF TasksInv, SavingInv, SavesCounted, StampInv, Tasks!Applies, Tasks!Live, Tasks!Trashed
<1>6. \A t \in Todo : Tasks!Shown(t)' = Tasks!Shown(t) /\ (Told(t) => Told(t)')
  BY <1>1, <1>3, TaskKept DEF Told
<1>7. \A t \in Todo : Unrecorded(t) => Told(t)' \/ token < floor'
  <2>1. SUFFICES ASSUME NEW t \in Todo, Unrecorded(t), ~(token < floor') PROVE Told(t)'
    OBVIOUS
  <2>2. token < raising /\ t \in purged /\ todo[t] = Tasks!NoTask
    BY <2>1 DEF Unrecorded
  <2>3. floor' \in Nat
    BY <1>3
  <2>4. ~(raising <= floor')
    BY <1>2, <2>1, <2>2, <2>3
  <2>5. t \in overdue'
    BY <1>3, <2>2, <2>4
  <2> QED
    BY <2>5 DEF Told
<1>8. WaitsInv'
  <2>1. SUFFICES ASSUME NEW t \in Todo, copy[t] # Tasks!Shown(t)
                 PROVE  Told(t)' \/ token < floor'
    BY <1>1, <1>6 DEF WaitsInv
  <2>2. CASE token < floor
    <3>1. floor' \in Nat
      BY <1>3
    <3> QED
      BY <1>2, <1>3, <2>2, <3>1
  <2>3. CASE Told(t) \/ Unrecorded(t)
    BY <1>6, <1>7, <2>3
  <2> QED
    BY <2>1, <2>2, <2>3 DEF TasksInv, WaitsInv
<1>9. AskInv'
  BY <1>1, <1>6 DEF TasksInv, AskInv
<1>10. RequestInv'
  BY <1>1 DEF TasksInv, RequestInv
<1> QED
  BY <1>4, <1>5, <1>8, <1>9, <1>10 DEF TasksInv

\* What concerns the rows alone, where a step leaves them alone.
LEMMA RowsLeft ==
  ASSUME TasksInv,
         UNCHANGED <<ticks, todo, purged, floor, saving, raising, saved>>,
         token' \in Tasks!Stamps \cup {Tasks!NoToken}, copy' \in [Todo -> 0..Tasks!Nothing],
         report' \in [step : {"idle", "checked", "read"}, rows : SUBSET Todo,
                      seen : [Todo -> Tasks!Row], raced : SUBSET Todo],
         overdue' \subseteq Todo, cut' \subseteq Todo
  PROVE  Tasks!TypeOK' /\ SavingInv' /\ SavesCounted' /\ StampInv'
<1>1. Tasks!TypeOK'
  BY DEF TasksInv, Tasks!TypeOK, Tasks!Live
<1>2. SavingInv' /\ SavesCounted' /\ StampInv'
  BY DEF TasksInv, SavingInv, SavesCounted, StampInv, Tasks!Applies, Tasks!Live, Tasks!Trashed
<1> QED
  BY <1>1, <1>2

\* A request's first read.
LEMMA TasksCheckFloor == ASSUME Tasks!TaskAssumption, TasksInv, Tasks!CheckFloor PROVE TasksInv'
<1>1. /\ report.step = "idle"
      /\ UNCHANGED <<ticks, todo, purged, floor, saving, raising, copy, overdue, cut, saved>>
  BY DEF Tasks!CheckFloor
<1>2. /\ Tasks!TypeOK /\ floor \in Nat /\ token \in Nat /\ WaitsInv
  BY TasksConstants DEF TasksInv, Tasks!TypeOK
<1>3. CASE token # Tasks!NoToken /\ floor > 0 /\ token < floor
  <2>1. token' = Tasks!NoToken /\ report' = report
    BY <1>3 DEF Tasks!CheckFloor
  <2>2. \A t \in Todo : Told(t)'
    BY <2>1 DEF Told, Tasks!NoToken
  <2>3. Tasks!TypeOK' /\ SavingInv' /\ SavesCounted' /\ StampInv'
    BY <1>1, <1>2, <2>1, RowsLeft DEF Tasks!TypeOK
  <2>4. WaitsInv' /\ AskInv' /\ RequestInv'
    BY <1>1, <2>1, <2>2 DEF WaitsInv, AskInv, RequestInv
  <2> QED
    BY <2>3, <2>4 DEF TasksInv
<1>4. CASE ~(token # Tasks!NoToken /\ floor > 0 /\ token < floor)
  <2>1. token' = token
        /\ report' = [Tasks!Idle EXCEPT !.step = "checked", !.raced = Tasks!Unfloored]
    BY <1>4 DEF Tasks!CheckFloor
  <2>2. Tasks!Unfloored \subseteq Todo
        /\ \A t \in Todo : Unrecorded(t) => t \in Tasks!Unfloored /\ todo[t] = Tasks!NoTask
    BY <1>2 DEF Tasks!Unfloored, Unrecorded, Tasks!TypeOK
  <2>3. Tasks!Idle.rows = {} /\ Tasks!Idle.seen = [t \in Todo |-> Tasks!NoTask]
        /\ Tasks!Idle = [step |-> "idle", rows |-> {}, seen |-> [t \in Todo |-> Tasks!NoTask],
                        raced |-> {}]
    BY DEF Tasks!Idle
  <2>4. /\ report'.step = "checked" /\ report'.raced = Tasks!Unfloored
        /\ report' \in [step : {"idle", "checked", "read"}, rows : SUBSET Todo,
                        seen : [Todo -> Tasks!Row], raced : SUBSET Todo]
    BY <2>1, <2>2, <2>3, TasksConstants
  <2>5. Tasks!TypeOK' /\ SavingInv' /\ SavesCounted' /\ StampInv'
    BY <1>1, <1>2, <2>1, <2>4, RowsLeft DEF Tasks!TypeOK
  <2>6. \A t \in Todo : Tasks!Shown(t)' = Tasks!Shown(t) /\ Told(t)' = Told(t) /\ Unrecorded(t)' = Unrecorded(t)
    BY <1>1, <2>1, TaskKept DEF Told, Unrecorded
  <2>7. WaitsInv'
    BY <1>1, <1>2, <2>1, <2>6 DEF WaitsInv
  <2>8. AskInv'
    <3>1. SUFFICES ASSUME NEW t \in Todo, copy[t] # Tasks!Shown(t)
                   PROVE  Told(t) \/ (t \in Tasks!Unfloored /\ todo[t] = Tasks!NoTask)
      BY <1>1, <2>4, <2>6 DEF AskInv
    <3>2. Told(t) \/ token < floor \/ Unrecorded(t)
      BY <1>2, <3>1 DEF WaitsInv
    <3>3. token < floor => token = Tasks!NoToken
      BY <1>2, <1>4
    <3> QED
      BY <2>2, <3>2, <3>3 DEF Told
  <2>9. RequestInv'
    BY <2>4 DEF RequestInv
  <2> QED
    BY <2>5, <2>7, <2>8, <2>9 DEF TasksInv
<1> QED
  BY <1>3, <1>4

\* A request's second read.
LEMMA TasksReadChanges == ASSUME Tasks!TaskAssumption, TasksInv, Tasks!ReadChanges PROVE TasksInv'
<1>1. /\ report.step = "checked"
      /\ UNCHANGED <<ticks, todo, purged, floor, saving, raising, token, copy, overdue, cut, saved>>
  BY DEF Tasks!ReadChanges
<1> DEFINE rest == {t \in report.raced : todo[t] = Tasks!NoTask}
           rows == {t \in Todo : IF token = Tasks!NoToken THEN Tasks!Live(t) ELSE Tasks!ChangedSince(t)}
<1>2. report' = [report EXCEPT !.step = "read", !.seen = todo, !.raced = rest, !.rows = rows]
  BY DEF Tasks!ReadChanges
<1>3. rest \subseteq Todo /\ rows \subseteq Todo /\ todo \in [Todo -> Tasks!Row]
  BY DEF TasksInv, Tasks!TypeOK
<1>4. /\ \A t \in Todo : t \in rest <=> t \in report.raced /\ todo[t] = Tasks!NoTask
      /\ \A t \in Todo : t \in rows <=>
           IF token = Tasks!NoToken THEN todo[t].state = "live"
           ELSE todo[t] # Tasks!NoTask /\ todo[t].updated >= token
  BY DEF Tasks!Live, Tasks!ChangedSince
<1> HIDE DEF rest, rows
<1>5. /\ report'.step = "read" /\ report'.seen = todo /\ report'.raced = rest /\ report'.rows = rows
      /\ report' \in [step : {"idle", "checked", "read"}, rows : SUBSET Todo,
                      seen : [Todo -> Tasks!Row], raced : SUBSET Todo]
  BY <1>2, <1>3 DEF TasksInv, Tasks!TypeOK
<1>6. Tasks!TypeOK' /\ SavingInv' /\ SavesCounted' /\ StampInv'
  BY <1>1, <1>5, RowsLeft DEF TasksInv, Tasks!TypeOK
<1>7. \A t \in Todo : Tasks!Shown(t)' = Tasks!Shown(t) /\ Told(t)' = Told(t) /\ Unrecorded(t)' = Unrecorded(t)
  BY <1>1, TaskKept DEF Told, Unrecorded
<1>8. WaitsInv'
  BY <1>1, <1>7 DEF TasksInv, WaitsInv
<1>9. AskInv'
  BY <1>1, <1>4, <1>5, <1>7 DEF TasksInv, AskInv
<1>10. RequestInv'
  BY <1>1, <1>4, <1>5 DEF RequestInv
<1> QED
  BY <1>6, <1>8, <1>9, <1>10 DEF TasksInv
\* The answers a request may get are of its rows, and a token is a stamp.
LEMMA TasksAnswered ==
  ASSUME Tasks!TaskAssumption, TasksInv, NEW n, NEW sent \in Tasks!Prefixes(n),
         NEW next \in Tasks!NextTokens(sent)
  PROVE  /\ sent \subseteq report.rows /\ next \in Tasks!Stamps
         /\ sent # report.rows =>
              /\ \A a \in sent, b \in report.rows \ sent : Tasks!SortKey(a) <= Tasks!SortKey(b)
              /\ \E u \in sent : next = report.seen[u].updated
<1>1. /\ sent \subseteq report.rows
      /\ sent # report.rows =>
           \A a \in sent, b \in report.rows \ sent : Tasks!SortKey(a) <= Tasks!SortKey(b)
  <2>1. CASE n = 0 \/ Tasks!Cardinality(report.rows) <= n
    BY <2>1 DEF Tasks!Prefixes
  <2>2. CASE ~(n = 0 \/ Tasks!Cardinality(report.rows) <= n)
    <3>1. /\ sent \in Tasks!kSubset(n, report.rows)
          /\ \A a \in sent, b \in report.rows \ sent : Tasks!SortKey(a) <= Tasks!SortKey(b)
      BY <2>2 DEF Tasks!Prefixes
    <3> QED
      BY <3>1 DEF Tasks!kSubset
  <2> QED
    BY <2>1, <2>2
<1>2. report.rows \subseteq Todo /\ \A u \in Todo : report.seen[u].updated \in Tasks!Stamps
  BY DEF TasksInv, Tasks!TypeOK, Tasks!Row
<1>3. CASE sent = report.rows
  <2> DEFINE stamps == {todo[t].updated : t \in Todo}
  <2>1. stamps \subseteq Tasks!Stamps /\ stamps # {}
    BY DEF TasksInv, Tasks!TypeOK, Tasks!Row, Tasks!TaskAssumption
  <2>2. next = Tasks!Max(stamps)
    BY <1>3 DEF Tasks!NextTokens, Tasks!MaxUpdatedAtAll
  <2> HIDE DEF stamps
  <2>3. MaxTicks + MaxSaved \in Nat
    BY TasksConstants
  <2>4. next \in stamps
    BY <2>1, <2>2, <2>3, TasksConstants, TasksMax
  <2> QED
    BY <1>1, <1>3, <2>1, <2>4
<1>4. CASE sent # report.rows
  <2>1. PICK u \in sent : next = report.seen[u].updated
    BY <1>4 DEF Tasks!NextTokens
  <2> QED
    BY <1>1, <1>2, <2>1
<1> QED
  BY <1>3, <1>4

\* An answer arrives.
LEMMA TasksAnswer == ASSUME Tasks!TaskAssumption, TasksInv, Tasks!Answer PROVE TasksInv'
<1>1. /\ report.step = "read" /\ report' = Tasks!Idle
      /\ UNCHANGED <<ticks, todo, purged, floor, saving, raising, saved>>
  BY DEF Tasks!Answer
<1>2. PICK n \in AnswerSizes : \E sent \in Tasks!Prefixes(n) : \E next \in Tasks!NextTokens(sent) :
       /\ token' = next
       /\ copy' = [t \in Todo |->
            IF t \in sent /\ report.seen[t].state = "live" THEN report.seen[t].content
            ELSE IF t \in sent \/ token = Tasks!NoToken THEN Tasks!Nothing
            ELSE copy[t]]
       /\ overdue' = (IF token = Tasks!NoToken THEN {} ELSE overdue \ sent) \cup report.raced
       /\ cut' = (IF token = Tasks!NoToken THEN {} ELSE cut) \cup
            {t \in report.rows \ sent : token = Tasks!NoToken /\ report.seen[t].updated < next}
  BY DEF Tasks!Answer
<1>3. PICK sent \in Tasks!Prefixes(n) : \E next \in Tasks!NextTokens(sent) :
       /\ token' = next
       /\ copy' = [t \in Todo |->
            IF t \in sent /\ report.seen[t].state = "live" THEN report.seen[t].content
            ELSE IF t \in sent \/ token = Tasks!NoToken THEN Tasks!Nothing
            ELSE copy[t]]
       /\ overdue' = (IF token = Tasks!NoToken THEN {} ELSE overdue \ sent) \cup report.raced
       /\ cut' = (IF token = Tasks!NoToken THEN {} ELSE cut) \cup
            {t \in report.rows \ sent : token = Tasks!NoToken /\ report.seen[t].updated < next}
  BY <1>2
<1>4. PICK next \in Tasks!NextTokens(sent) :
       /\ token' = next
       /\ copy' = [t \in Todo |->
            IF t \in sent /\ report.seen[t].state = "live" THEN report.seen[t].content
            ELSE IF t \in sent \/ token = Tasks!NoToken THEN Tasks!Nothing
            ELSE copy[t]]
       /\ overdue' = (IF token = Tasks!NoToken THEN {} ELSE overdue \ sent) \cup report.raced
       /\ cut' = (IF token = Tasks!NoToken THEN {} ELSE cut) \cup
            {t \in report.rows \ sent : token = Tasks!NoToken /\ report.seen[t].updated < next}
  BY <1>3
<1>5. /\ sent \subseteq report.rows /\ next \in Tasks!Stamps
      /\ sent # report.rows =>
           /\ \A a \in sent, b \in report.rows \ sent : Tasks!SortKey(a) <= Tasks!SortKey(b)
           /\ \E u \in sent : next = report.seen[u].updated
  BY TasksAnswered
<1>6. /\ report.rows \subseteq Todo /\ report.raced \subseteq Todo
      /\ report.seen \in [Todo -> Tasks!Row] /\ Tasks!TypeOK /\ copy \in [Todo -> 0..Tasks!Nothing]
      /\ token \in Nat /\ next \in Nat
  BY <1>5, TasksConstants DEF TasksInv, Tasks!TypeOK
<1>7. /\ \A t \in Todo \ report.raced : report.seen[t] = todo[t]
      /\ \A t \in Todo : t \in report.rows <=>
           IF token = Tasks!NoToken THEN report.seen[t].state = "live"
           ELSE report.seen[t] # Tasks!NoTask /\ report.seen[t].updated >= token
  BY <1>1 DEF TasksInv, RequestInv
<1>8. /\ report' \in [step : {"idle", "checked", "read"}, rows : SUBSET Todo,
                      seen : [Todo -> Tasks!Row], raced : SUBSET Todo]
      /\ report'.step = "idle"
  BY <1>1, TasksConstants DEF Tasks!Idle
<1>9. copy' \in [Todo -> 0..Tasks!Nothing]
  <2>1. \A t \in Todo : report.seen[t].content \in 0..Tasks!Nothing
    <3>1. 0..MaxSaved \subseteq 0..Tasks!Nothing
      BY TasksConstants
    <3> QED
      BY <1>6, <3>1 DEF Tasks!Row
  <2>2. Tasks!Nothing \in 0..Tasks!Nothing
    BY TasksConstants
  <2> QED
    BY <1>4, <1>6, <2>1, <2>2
<1>10. overdue' \subseteq Todo /\ cut' \subseteq Todo
  BY <1>4, <1>6 DEF Tasks!TypeOK
<1>11. Tasks!TypeOK' /\ SavingInv' /\ SavesCounted' /\ StampInv'
  BY <1>1, <1>4, <1>5, <1>8, <1>9, <1>10, RowsLeft
<1>12. \A t \in Todo : Tasks!Shown(t)' = Tasks!Shown(t)
  BY <1>1, TaskKept
<1>13. \A t \in report.rows \ sent :
         t \in report.raced \/ Tasks!ChangedSince(t)' \/ t \in cut'
  <2>1. SUFFICES ASSUME NEW t \in report.rows \ sent, t \notin report.raced, t \notin cut'
                 PROVE  Tasks!ChangedSince(t)'
    OBVIOUS
  <2>2. t \in Todo /\ report.seen[t] = todo[t] /\ report.seen[t] \in Tasks!Row
    BY <1>6, <1>7, <2>1
  <2>3. report.seen[t].updated \in Nat
    BY <2>2, TasksConstants DEF Tasks!Row
  <2>4. report.seen[t] # Tasks!NoTask
    BY <1>7, <2>1, <2>2, TasksConstants
  <2>5. report.seen[t].updated >= next
    <3>1. CASE token = Tasks!NoToken
      BY <1>4, <1>6, <2>1, <2>3, <3>1
    <3>2. CASE token # Tasks!NoToken
      <4>1. PICK u \in sent : next = report.seen[u].updated
        BY <1>5, <2>1
      <4>2. Tasks!SortKey(u) <= Tasks!SortKey(t)
        BY <1>5, <2>1, <4>1
      <4>3. report.seen[u].updated <= report.seen[t].updated
        BY <3>2, <4>2 DEF Tasks!SortKey
      <4> QED
        BY <1>6, <2>3, <4>1, <4>3
    <3> QED
      BY <3>1, <3>2
  <2> QED
    BY <1>1, <1>4, <2>2, <2>4, <2>5 DEF Tasks!ChangedSince
<1>14. WaitsInv'
  <2>1. SUFFICES ASSUME NEW t \in Todo, copy'[t] # Tasks!Shown(t), t \notin report.raced
                 PROVE  Told(t)'
    BY <1>4, <1>12 DEF WaitsInv, Told
  <2>2. report.seen[t] = todo[t]
    BY <1>7, <2>1
  <2>3. t \notin sent
    <3>1. SUFFICES ASSUME t \in sent PROVE FALSE
      OBVIOUS
    <3>2. copy'[t] = IF todo[t].state = "live" THEN todo[t].content ELSE Tasks!Nothing
      BY <1>4, <2>2, <3>1
    <3> QED
      BY <2>1, <3>2 DEF Tasks!Shown, Tasks!Live
  <2>4. CASE t \in report.rows
    BY <1>13, <2>1, <2>3, <2>4 DEF Told
  <2>5. CASE t \notin report.rows /\ token = Tasks!NoToken
    <3>1. copy'[t] = Tasks!Nothing
      BY <1>4, <2>3, <2>5
    <3>2. todo[t].state # "live"
      BY <1>7, <2>2, <2>5
    <3> QED
      BY <2>1, <3>1, <3>2 DEF Tasks!Shown, Tasks!Live
  <2>6. CASE t \notin report.rows /\ token # Tasks!NoToken
    <3>1. copy'[t] = copy[t]
      BY <1>4, <2>3, <2>6
    <3>2. ~Tasks!ChangedSince(t)
      BY <1>7, <2>2, <2>6 DEF Tasks!ChangedSince
    <3>3. Told(t)
      BY <1>1, <2>1, <3>1 DEF TasksInv, AskInv
    <3>4. t \in overdue \/ t \in cut
      BY <2>6, <3>2, <3>3 DEF Told
    <3>5. t \in overdue' \/ t \in cut'
      BY <1>4, <2>3, <2>6, <3>4
    <3> QED
      BY <3>5 DEF Told
  <2> QED
    BY <2>4, <2>5, <2>6
<1>15. AskInv' /\ RequestInv'
  BY <1>8 DEF AskInv, RequestInv
<1> QED
  BY <1>11, <1>14, <1>15 DEF TasksInv

\* An answer is lost.
LEMMA TasksUnanswered == ASSUME Tasks!TaskAssumption, TasksInv, Tasks!Unanswered PROVE TasksInv'
<1>1. /\ report' = Tasks!Idle
      /\ UNCHANGED <<ticks, todo, purged, floor, saving, raising, token, copy, overdue, cut, saved>>
  BY DEF Tasks!Unanswered
<1>2. /\ report' \in [step : {"idle", "checked", "read"}, rows : SUBSET Todo,
                      seen : [Todo -> Tasks!Row], raced : SUBSET Todo]
      /\ report'.step = "idle"
  BY <1>1, TasksConstants DEF Tasks!Idle
<1>3. Tasks!TypeOK' /\ SavingInv' /\ SavesCounted' /\ StampInv'
  BY <1>1, <1>2, RowsLeft DEF TasksInv, Tasks!TypeOK
<1>4. \A t \in Todo : Tasks!Shown(t)' = Tasks!Shown(t) /\ Told(t)' = Told(t) /\ Unrecorded(t)' = Unrecorded(t)
  BY <1>1, TaskKept DEF Told, Unrecorded
<1>5. WaitsInv' /\ AskInv' /\ RequestInv'
  BY <1>1, <1>2, <1>4 DEF TasksInv, WaitsInv, AskInv, RequestInv
<1> QED
  BY <1>3, <1>5 DEF TasksInv

\* Every step.
LEMMA TasksNext ==
  ASSUME Tasks!TaskAssumption, TasksInv, [Tasks!Next]_(Tasks!tvars)
  PROVE  TasksInv'
<1>1. CASE UNCHANGED Tasks!tvars
  <2>1. UNCHANGED <<ticks, todo, purged, floor, saving, raising, token, copy, report, overdue, cut, saved>>
    BY <1>1 DEF Tasks!tvars
  <2>2. Tasks!TypeOK' /\ SavingInv' /\ SavesCounted' /\ StampInv'
    BY <2>1, RowsLeft DEF TasksInv, Tasks!TypeOK
  <2>3. \A t \in Todo : Tasks!Shown(t)' = Tasks!Shown(t) /\ Told(t)' = Told(t) /\ Unrecorded(t)' = Unrecorded(t)
    BY <2>1, TaskKept DEF Told, Unrecorded
  <2>4. WaitsInv' /\ AskInv' /\ RequestInv'
    BY <2>1, <2>3 DEF TasksInv, WaitsInv, AskInv, RequestInv
  <2> QED
    BY <2>2, <2>4 DEF TasksInv
<1>2. CASE Tasks!Next
  BY <1>2, TasksTick, TasksBegin, TasksCommit, TasksHardDelete, TasksFloor, TasksCheckFloor,
    TasksReadChanges, TasksAnswer, TasksUnanswered DEF Tasks!Next
<1> QED
  BY <1>1, <1>2

\* The invariant implies the property.
LEMMA TasksSound == ASSUME Tasks!TaskAssumption, TasksInv PROVE NothingSkipped
<1>1. floor \in Nat /\ raising \in Nat /\ token \in Nat
  BY TasksConstants DEF TasksInv, Tasks!TypeOK
<1>2. /\ Tasks!Max({floor, raising}) \in {floor, raising} /\ floor <= Tasks!Max({floor, raising})
      /\ raising <= Tasks!Max({floor, raising})
  BY <1>1, TasksMaxTwo
<1>3. Tasks!NothingSkipped
  <2>1. SUFFICES ASSUME NEW t \in Todo, copy[t] # Tasks!Shown(t)
                 PROVE  Tasks!Pending(t) \/ t \in overdue \cup cut
    BY DEF Tasks!NothingSkipped
  <2>2. CASE token < floor \/ token < raising
    <3>1. token < Tasks!Max({floor, raising})
      BY <1>1, <1>2, <2>2
    <3> QED
      BY <3>1 DEF Tasks!Pending
  <2>3. CASE Told(t)
    BY <2>3 DEF Told, Tasks!Pending
  <2> QED
    BY <2>1, <2>2, <2>3 DEF TasksInv, WaitsInv, Unrecorded
<1> QED
  BY <1>3 DEF TasksInv, NothingSkipped

\* For any tasks, writes, clean-ups, limits and lost answers: a client whose copy of a
\* task is not the server's is told at its next request (ListChangedSince,
\* caldav/synccollection.go:188-237), unless its last write was stamped below the token
\* or met the request half way, its clean-up lost the floor, or a limited first answer
\* left it out.
THEOREM NothingIsSkipped == Tasks!Spec => []NothingSkipped
<1>1. Tasks!TaskAssumption
  BY LibraryAssumption
<1>2. Tasks!Init => TasksInv
  BY <1>1, TasksInit
<1>3. TasksInv /\ [Tasks!Next]_(Tasks!tvars) => TasksInv'
  BY <1>1, TasksNext
<1>4. TasksInv => NothingSkipped
  BY <1>1, TasksSound
<1> QED
  BY <1>2, <1>3, <1>4, PTL DEF Tasks!Spec

-----------------------------------------------------------------------------
(* Books and snapshots in the object store.                                 *)

Wanted(a) == {Right[a][i] : i \in Index}

Uploads == [step : {"touched", "stored"}, asset : Asset, index : Index, digest : Digest]

Verifications ==
  [step : {"marked", "reading", "forget", "reset", "finish"}, asset : Asset,
   generation : 0..MaxReset, next : Nat, good : BOOLEAN, missing : Digest \cup {NoDigest}]

Restore == [step : {"upload"}, asset : Asset, touched : SUBSET Digest, stored : SUBSET Digest]

\* An upload's intent is fresh until its row exists or it fails; what it stored
\* is there, unless the store lost it.
UploadsInv ==
  \A u \in Uploader : upload[u] # Assets!Idle =>
    /\ intent[upload[u].digest] = "fresh"
    /\ upload[u].step = "stored" => upload[u].digest \in store \cup lost

RestoreInv ==
  publish # Assets!Idle =>
    /\ publish.stored \subseteq publish.touched \cap (store \cup lost)
    /\ \A d \in publish.touched : intent[d] = "fresh"

\* What is being collected is old and no row names it; so nobody is storing it.
CollectInv ==
  collector # Assets!Idle => intent[collector.digest] = "old" /\ ~Assets!Referenced(collector.digest)

\* A row's object is there, unless the store lost it.
RowsInv ==
  \A a \in Asset, i \in Index : chunk[a][i] # NoDigest => chunk[a][i] \in store \cup lost

\* A verifier knows of one generation: what it read right stays right until the
\* asset is reset, whatever other verifiers and uploads do.
VerifierInv(w) ==
  LET a == w.asset
  IN /\ asset[a].state # "ready" => w.generation <= asset[a].generation
     /\ w.step = "marked" => w.next = 0
     /\ w.step = "forget" => w.missing \in lost
     /\ w.step = "reading" /\ w.good /\ asset[a].state # "ready" /\ w.generation = asset[a].generation =>
          \/ Wanted(a) \cap lost # {}
          \/ \A i \in Index : i < w.next => chunk[a][i] = Right[a][i]

VerifyInv == \A v \in Verifier, w \in Verifications : verify[v] = w => VerifierInv(w)

WholeInv ==
  \A a \in Asset : asset[a].state = "ready" => Wanted(a) \cap lost # {} \/ chunk[a] = Right[a]

AInv ==
  Assets!TypeOK /\ UploadsInv /\ RestoreInv /\ CollectInv /\ RowsInv /\ VerifyInv /\ WholeInv

\* What the types say of the rows and of the actors at work.
LEMMA AssetFacts ==
  ASSUME Assets!AssetAssumption, Assets!TypeOK
  PROVE  /\ \A a \in Asset, i \in Index : Right[a][i] \in Digest /\ Right[a][i] # NoDigest /\ Right[a][i] \in Wanted(a)
         /\ \A a \in Asset, i \in Index : chunk[a][i] \in Digest \cup {NoDigest}
         /\ \A a \in Asset : asset[a].state \in Assets!States /\ asset[a].generation \in Nat
         /\ \A u \in Uploader : upload[u] # Assets!Idle <=> upload[u] \in Uploads
         /\ \A v \in Verifier : verify[v] # Assets!Idle <=> verify[v] \in Verifications
         /\ publish # Assets!Idle <=> publish \in Restore
         /\ collector # Assets!Idle <=> collector \in [step : {"locked", "deleted"}, digest : Digest]
<1> USE DEF Assets!AssetAssumption, Assets!TypeOK
<1>1. \A a \in Asset, i \in Index : Right[a][i] \in Digest /\ Right[a][i] # NoDigest /\ Right[a][i] \in Wanted(a)
  BY DEF Wanted
<1>2. \A a \in Asset : asset[a].state \in Assets!States /\ asset[a].generation \in Nat
  OBVIOUS
<1>3. \A u \in Uploader : upload[u] # Assets!Idle <=> upload[u] \in Uploads
  BY DEF Assets!Idle, Uploads
<1>4. \A v \in Verifier : verify[v] # Assets!Idle <=> verify[v] \in Verifications
  BY DEF Assets!Idle, Verifications
<1>5. publish # Assets!Idle <=> publish \in Restore
  BY DEF Assets!Idle, Restore
<1>6. collector # Assets!Idle <=> collector \in [step : {"locked", "deleted"}, digest : Digest]
  BY DEF Assets!Idle
<1> QED
  BY <1>1, <1>2, <1>3, <1>4, <1>5, <1>6

\* The initial states satisfy the invariant.
LEMMA AssetInit == ASSUME Assets!AssetAssumption, Assets!Init PROVE AInv
<1>1. Assets!TypeOK
  BY DEF Assets!AssetAssumption, Assets!Init, Assets!TypeOK, Assets!States
<1>2. UploadsInv /\ RestoreInv /\ CollectInv /\ RowsInv /\ VerifyInv /\ WholeInv
  BY DEF Assets!Init, UploadsInv, RestoreInv, CollectInv, RowsInv, VerifyInv, WholeInv, Verifications, Assets!Idle
<1> QED
  BY <1>1, <1>2 DEF AInv

\* Steps that leave the rows and the verifiers alone.
LEMMA StoreStep ==
  ASSUME AInv, Assets!TypeOK', UNCHANGED <<asset, chunk, verify>>, lost \subseteq lost',
         UploadsInv', RestoreInv', CollectInv',
         \A d \in Digest : Assets!Referenced(d) /\ d \in store => d \in store' \cup lost'
  PROVE  AInv'
<1> USE DEF AInv
<1>1. RowsInv'
  BY DEF RowsInv, Assets!Referenced, Assets!TypeOK
<1>2. \A a \in Asset : Wanted(a) \cap lost # {} => Wanted(a) \cap lost' # {}
  OBVIOUS
<1>3. ASSUME NEW w \in Verifications, VerifierInv(w) PROVE VerifierInv(w)'
  <2>1. w.asset \in Asset
    BY DEF Verifications
  <2> QED
    BY <1>2, <1>3, <2>1 DEF VerifierInv
<1>4. VerifyInv'
  BY <1>3 DEF VerifyInv
<1>5. WholeInv'
  BY <1>2 DEF WholeInv
<1> QED
  BY <1>1, <1>4, <1>5

\* An uploader moves; what it touches becomes fresh.
LEMMA UploaderStep ==
  ASSUME Assets!AssetAssumption, AInv, NEW u \in Uploader, NEW w \in {Assets!Idle} \cup Uploads,
         upload' = [upload EXCEPT ![u] = w],
         intent' = intent \/ \E d \in Digest : Assets!Touchable(d) /\ intent' = [intent EXCEPT ![d] = "fresh"],
         w # Assets!Idle => /\ intent'[w.digest] = "fresh"
                            /\ w.step = "stored" => w.digest \in store',
         store \subseteq store' /\ store' \subseteq Digest,
         UNCHANGED <<asset, chunk, verify, publish, collector, lost>>
  PROVE  AInv'
<1> USE DEF AInv
<1>1. Assets!TypeOK'
  BY DEF Assets!TypeOK, Uploads
<1>2. \A d \in Digest : intent[d] = "fresh" => intent'[d] = "fresh"
  BY DEF Assets!TypeOK
<1>3. \A v \in Uploader : upload'[v] = IF v = u THEN w ELSE upload[v]
  BY DEF Assets!TypeOK
<1>4. UploadsInv'
  BY <1>2, <1>3, AssetFacts DEF UploadsInv, Uploads
<1>5. RestoreInv'
  BY <1>2, AssetFacts DEF RestoreInv, Restore
<1>6. CollectInv'
  BY DEF CollectInv, Assets!Touchable, Assets!Referenced, Assets!TypeOK
<1> QED
  BY <1>1, <1>4, <1>5, <1>6, StoreStep

\* An upload up to its row: the intent, the object, and a failure.
LEMMA UploaderInv ==
  ASSUME Assets!AssetAssumption, AInv, NEW u \in Uploader,
         \/ Assets!PutBytes(u) \/ Assets!UploadFails(u)
         \/ \E a \in Asset, i \in Index, d \in Digest : Assets!Touch(u, a, i, d)
  PROVE  AInv'
<1> USE DEF AInv
<1>1. CASE Assets!PutBytes(u)
  <2> DEFINE w == [upload[u] EXCEPT !.step = "stored"]
  <2>1. upload[u] \in Uploads
    BY <1>1, AssetFacts DEF Assets!PutBytes, Assets!Idle
  <2>2. w \in Uploads /\ w.digest = upload[u].digest /\ w.digest \in Digest
    BY <2>1 DEF Uploads
  <2>3. upload' = [upload EXCEPT ![u] = w]
    BY <1>1 DEF Assets!PutBytes, Assets!TypeOK
  <2>4. store' = store \cup {w.digest} /\ UNCHANGED <<intent, asset, chunk, verify, publish, collector, lost>>
    BY <1>1, <2>2 DEF Assets!PutBytes, Assets!Rows
  <2>5. intent[w.digest] = "fresh"
    BY <2>1, <2>2, AssetFacts DEF UploadsInv
  <2> HIDE DEF w
  <2> QED
    BY <2>2, <2>3, <2>4, <2>5, UploaderStep DEF Assets!TypeOK
<1>2. CASE Assets!UploadFails(u)
  BY <1>2, UploaderStep DEF Assets!UploadFails, Assets!Rows, Assets!TypeOK
<1>3. ASSUME NEW a \in Asset, NEW i \in Index, NEW d \in Digest, Assets!Touch(u, a, i, d) PROVE AInv'
  <2> DEFINE w == [step |-> "touched", asset |-> a, index |-> i, digest |-> d]
  <2>1. w \in Uploads /\ w.digest = d /\ w.step # "stored"
    BY DEF Uploads
  <2>2. /\ upload' = [upload EXCEPT ![u] = w] /\ intent' = [intent EXCEPT ![d] = "fresh"] /\ Assets!Touchable(d)
        /\ UNCHANGED <<store, asset, chunk, verify, publish, collector, lost>>
    BY <1>3 DEF Assets!Touch, Assets!Rows
  <2>3. intent'[d] = "fresh"
    BY <2>2 DEF Assets!TypeOK
  <2> HIDE DEF w
  <2> QED
    BY <2>1, <2>2, <2>3, UploaderStep DEF Assets!TypeOK
<1> QED
  BY <1>1, <1>2, <1>3

\* A restore moves before it writes its rows.
LEMMA RestoreStep ==
  ASSUME Assets!AssetAssumption, AInv, NEW r \in {Assets!Idle} \cup Restore, publish' = r,
         intent' = intent \/ \E d \in Digest : Assets!Touchable(d) /\ intent' = [intent EXCEPT ![d] = "fresh"],
         r # Assets!Idle => /\ r.stored \subseteq r.touched \cap (store' \cup lost)
                            /\ \A d \in r.touched : intent'[d] = "fresh",
         store \subseteq store' /\ store' \subseteq Digest,
         UNCHANGED <<asset, chunk, upload, verify, collector, lost>>
  PROVE  AInv'
<1> USE DEF AInv
<1>1. Assets!TypeOK'
  BY DEF Assets!TypeOK, Restore
<1>2. \A d \in Digest : intent[d] = "fresh" => intent'[d] = "fresh"
  BY DEF Assets!TypeOK
<1>3. UploadsInv'
  BY <1>2, AssetFacts DEF UploadsInv, Uploads
<1>4. RestoreInv'
  BY DEF RestoreInv
<1>5. CollectInv'
  BY DEF CollectInv, Assets!Touchable, Assets!Referenced, Assets!TypeOK
<1> QED
  BY <1>1, <1>3, <1>4, <1>5, StoreStep

\* A restore that uploads the chunks of an asset before it publishes their rows.
LEMMA RestoringInv ==
  ASSUME Assets!AssetAssumption, AInv,
         \/ \E a \in Asset : Assets!BeginPublish(a)
         \/ \E d \in Digest : Assets!PublishTouch(d) \/ Assets!PublishPut(d)
         \/ Assets!PublishFails
  PROVE  AInv'
<1> USE DEF AInv
<1>1. ASSUME NEW a \in Asset, Assets!BeginPublish(a) PROVE AInv'
  <2> DEFINE r == [step |-> "upload", asset |-> a, touched |-> {}, stored |-> {}]
  <2>1. r \in Restore /\ r.touched = {} /\ r.stored = {}
    BY DEF Restore
  <2>2. publish' = r /\ UNCHANGED <<store, intent, asset, chunk, upload, verify, collector, lost>>
    BY <1>1 DEF Assets!BeginPublish, Assets!Rows
  <2> HIDE DEF r
  <2> QED
    BY <2>1, <2>2, RestoreStep DEF Assets!TypeOK
<1>2. ASSUME NEW d \in Digest, Assets!PublishTouch(d) PROVE AInv'
  <2> DEFINE r == [publish EXCEPT !.touched = publish.touched \cup {d}]
  <2>1. publish # Assets!Idle /\ publish \in Restore
    BY <1>2, AssetFacts DEF Assets!PublishTouch
  <2>2. r \in Restore /\ r.touched = publish.touched \cup {d} /\ r.stored = publish.stored
        /\ publish.touched \subseteq Digest
    BY <2>1 DEF Restore
  <2>3. /\ publish' = r /\ Assets!Touchable(d) /\ intent' = [intent EXCEPT ![d] = "fresh"]
        /\ UNCHANGED <<store, asset, chunk, upload, verify, collector, lost>>
    BY <1>2 DEF Assets!PublishTouch, Assets!Rows
  <2>4. \A e \in Digest : intent'[e] = IF e = d THEN "fresh" ELSE intent[e]
    BY <2>3 DEF Assets!TypeOK
  <2> HIDE DEF r
  <2>5. /\ r.stored \subseteq r.touched \cap (store' \cup lost)
        /\ \A e \in r.touched : intent'[e] = "fresh"
    BY <2>1, <2>2, <2>3, <2>4 DEF RestoreInv
  <2> QED
    BY <2>2, <2>3, <2>5, RestoreStep DEF Assets!TypeOK
<1>3. ASSUME NEW d \in Digest, Assets!PublishPut(d) PROVE AInv'
  <2> DEFINE r == [publish EXCEPT !.stored = publish.stored \cup {d}]
  <2>1. publish # Assets!Idle /\ publish \in Restore /\ d \in publish.touched
    BY <1>3, AssetFacts DEF Assets!PublishPut
  <2>2. r \in Restore /\ r.stored = publish.stored \cup {d} /\ r.touched = publish.touched
    BY <2>1 DEF Restore
  <2>3. publish' = r /\ store' = store \cup {d} /\ UNCHANGED <<intent, asset, chunk, upload, verify, collector, lost>>
    BY <1>3 DEF Assets!PublishPut, Assets!Rows
  <2> HIDE DEF r
  <2>4. /\ r.stored \subseteq r.touched \cap (store' \cup lost)
        /\ \A e \in r.touched : intent'[e] = "fresh"
    BY <2>1, <2>2, <2>3 DEF RestoreInv
  <2> QED
    BY <2>2, <2>3, <2>4, RestoreStep DEF Assets!TypeOK
<1>4. CASE Assets!PublishFails
  BY <1>4, RestoreStep DEF Assets!PublishFails, Assets!Rows, Assets!TypeOK
<1> QED
  BY <1>1, <1>2, <1>3, <1>4

\* The collector, time and loss: only what nobody holds and no row names ages and goes.
LEMMA CollectorInv ==
  ASSUME Assets!AssetAssumption, AInv,
         \/ \E d \in Digest : Assets!LockIntent(d) \/ Assets!GraceEnds(d) \/ Assets!LoseObject(d)
         \/ Assets!DeleteBytes \/ Assets!CommitCollect \/ Assets!CollectFails
  PROVE  AInv'
<1> USE DEF AInv
<1>1. UNCHANGED <<asset, chunk, verify, upload, publish>>
  BY DEF Assets!LockIntent, Assets!GraceEnds, Assets!LoseObject, Assets!DeleteBytes, Assets!CommitCollect, Assets!CollectFails,
         Assets!Rows, Assets!Requests
<1>2. /\ \A u \in Uploader : upload[u] # Assets!Idle => upload[u].digest \in Digest
      /\ publish # Assets!Idle => publish.touched \subseteq Digest
  BY AssetFacts DEF Uploads, Restore
<1>3. ASSUME NEW d \in Digest, Assets!LockIntent(d) PROVE AInv'
  <2>1. /\ collector' = [step |-> "locked", digest |-> d] /\ intent[d] = "old" /\ ~Assets!Referenced(d)
        /\ UNCHANGED <<store, intent, lost>>
    BY <1>3 DEF Assets!LockIntent, Assets!Collectable
  <2>2. Assets!TypeOK'
    BY <1>1, <2>1 DEF Assets!TypeOK
  <2>3. UploadsInv' /\ RestoreInv' /\ CollectInv'
    BY <1>1, <2>1 DEF UploadsInv, RestoreInv, CollectInv, Assets!Referenced
  <2> QED
    BY <1>1, <2>1, <2>2, <2>3, StoreStep
<1>4. ASSUME NEW d \in Digest, Assets!GraceEnds(d) PROVE AInv'
  <2>1. /\ intent' = [intent EXCEPT ![d] = "old"] /\ intent[d] = "fresh" /\ ~Assets!InFlight(d)
        /\ UNCHANGED <<store, collector, lost>>
    BY <1>4 DEF Assets!GraceEnds
  <2>2. Assets!TypeOK'
    BY <1>1, <2>1 DEF Assets!TypeOK
  <2>3. \A e \in Digest : e # d => intent'[e] = intent[e]
    BY <2>1 DEF Assets!TypeOK
  <2>4. UploadsInv' /\ RestoreInv'
    BY <1>1, <1>2, <2>1, <2>3 DEF UploadsInv, RestoreInv, Assets!InFlight
  <2>5. CollectInv'
    BY <1>1, <2>1, <2>3, AssetFacts DEF CollectInv, Assets!Referenced
  <2> QED
    BY <1>1, <2>1, <2>2, <2>4, <2>5, StoreStep
<1>5. ASSUME NEW d \in Digest, Assets!LoseObject(d) PROVE AInv'
  <2>1. store' = store \ {d} /\ lost' = lost \cup {d} /\ UNCHANGED <<intent, collector>>
    BY <1>5 DEF Assets!LoseObject
  <2>2. Assets!TypeOK'
    BY <1>1, <2>1 DEF Assets!TypeOK
  <2>3. store \cup lost \subseteq store' \cup lost'
    BY <2>1
  <2>4. UploadsInv' /\ RestoreInv' /\ CollectInv'
    BY <1>1, <2>1, <2>3 DEF UploadsInv, RestoreInv, CollectInv, Assets!Referenced
  <2> QED
    BY <1>1, <2>1, <2>2, <2>3, <2>4, StoreStep
<1>6. CASE Assets!DeleteBytes
  <2> DEFINE d == collector.digest
  <2>1. collector # Assets!Idle /\ d \in Digest
    BY <1>6, AssetFacts DEF Assets!DeleteBytes, Assets!Idle
  <2>2. intent[d] = "old" /\ ~Assets!Referenced(d)
    BY <2>1 DEF CollectInv
  <2>3. store' = store \ {d} /\ UNCHANGED <<intent, lost>>
    BY <1>6 DEF Assets!DeleteBytes
  <2>4. /\ collector' \in [step : {"locked", "deleted"}, digest : Digest] /\ collector'.digest = d
    BY <1>6, <2>1, AssetFacts DEF Assets!DeleteBytes
  <2> HIDE DEF d
  <2>5. Assets!TypeOK'
    BY <1>1, <2>3, <2>4 DEF Assets!TypeOK
  <2>6. UploadsInv' /\ RestoreInv'
    BY <1>1, <1>2, <2>2, <2>3 DEF UploadsInv, RestoreInv
  <2>7. CollectInv'
    BY <1>1, <2>2, <2>3, <2>4 DEF CollectInv, Assets!Referenced
  <2> QED
    BY <1>1, <2>2, <2>3, <2>5, <2>6, <2>7, StoreStep
<1>7. CASE Assets!CommitCollect
  <2> DEFINE d == collector.digest
  <2>1. collector # Assets!Idle /\ d \in Digest
    BY <1>7, AssetFacts DEF Assets!CommitCollect, Assets!Idle
  <2>2. intent[d] = "old"
    BY <2>1 DEF CollectInv
  <2>3. intent' = [intent EXCEPT ![d] = "none"] /\ collector' = Assets!Idle /\ UNCHANGED <<store, lost>>
    BY <1>7 DEF Assets!CommitCollect
  <2> HIDE DEF d
  <2>4. Assets!TypeOK'
    BY <1>1, <2>1, <2>3 DEF Assets!TypeOK
  <2>5. \A e \in Digest : e # d => intent'[e] = intent[e]
    BY <2>3 DEF Assets!TypeOK
  <2>6. UploadsInv' /\ RestoreInv' /\ CollectInv'
    BY <1>1, <1>2, <2>2, <2>3, <2>5 DEF UploadsInv, RestoreInv, CollectInv
  <2> QED
    BY <1>1, <2>3, <2>4, <2>6, StoreStep
<1>8. CASE Assets!CollectFails
  <2>1. collector' = Assets!Idle /\ UNCHANGED <<store, intent, lost>>
    BY <1>8 DEF Assets!CollectFails
  <2>2. Assets!TypeOK'
    BY <1>1, <2>1 DEF Assets!TypeOK
  <2>3. UploadsInv' /\ RestoreInv' /\ CollectInv'
    BY <1>1, <2>1 DEF UploadsInv, RestoreInv, CollectInv
  <2> QED
    BY <1>1, <2>1, <2>2, <2>3, StoreStep
<1> QED
  BY <1>3, <1>4, <1>5, <1>6, <1>7, <1>8

\* A verifier goes on or ends; rows and objects stay.
LEMMA VerifierStep ==
  ASSUME Assets!AssetAssumption, AInv, NEW v \in Verifier, NEW w \in {Assets!Idle} \cup Verifications,
         verify' = [verify EXCEPT ![v] = w],
         w # Assets!Idle => VerifierInv(w),
         UNCHANGED <<asset, chunk, store, intent, upload, publish, collector, lost>>
  PROVE  AInv'
<1> USE DEF AInv
<1>1. Assets!TypeOK'
  BY DEF Assets!TypeOK, Verifications
<1>2. \A x \in Verifier : verify'[x] = IF x = v THEN w ELSE verify[x]
  BY DEF Assets!TypeOK
<1>3. ASSUME NEW x \in Verifier, NEW y \in Verifications, verify'[x] = y PROVE VerifierInv(y)'
  <2>1. y # Assets!Idle
    BY DEF Verifications, Assets!Idle
  <2>2. VerifierInv(y)
    BY <1>2, <1>3, <2>1 DEF VerifyInv
  <2> QED
    BY <2>2 DEF VerifierInv
<1>4. VerifyInv'
  BY <1>3 DEF VerifyInv
<1>5. UploadsInv' /\ RestoreInv' /\ CollectInv' /\ RowsInv' /\ WholeInv'
  BY DEF UploadsInv, RestoreInv, CollectInv, RowsInv, WholeInv, Assets!Referenced
<1> QED
  BY <1>1, <1>4, <1>5

\* The chunks below the next one.
LEMMA Below ==
  ASSUME Assets!AssetAssumption, NEW n \in Nat
  PROVE  \A i \in Index : i < n + 1 => i < n \/ i = n
<1>1. Index \subseteq Nat
  BY DEF Assets!AssetAssumption
<1>2. \A i \in Nat : i < n + 1 => i < n \/ i = n
  OBVIOUS
<1> QED
  BY <1>1, <1>2

\* A verifier that reads the generation and the chunks it verifies.
LEMMA VerifyingInv ==
  ASSUME Assets!AssetAssumption, AInv, NEW v \in Verifier, Assets!ReadGeneration(v) \/ Assets!ReadChunk(v) \/ Assets!VerifierDies(v)
  PROVE  AInv'
<1> USE DEF AInv
<1>1. verify[v] # Assets!Idle /\ verify[v] \in Verifications /\ VerifierInv(verify[v])
  BY AssetFacts DEF Assets!ReadGeneration, Assets!ReadChunk, Assets!VerifierDies, Assets!Idle, VerifyInv
<1>2. verify[v].asset \in Asset /\ verify[v].next \in Nat
  BY <1>1 DEF Verifications
<1>3. CASE Assets!ReadGeneration(v) /\ asset[verify[v].asset].state = "verifying"
  <2> DEFINE w == [verify[v] EXCEPT !.step = "reading", !.generation = asset[verify[v].asset].generation]
  <2>1. asset[verify[v].asset].generation \in 0..MaxReset
    BY <1>2 DEF Assets!TypeOK
  <2>2. w \in Verifications /\ w.asset = verify[v].asset /\ w.step = "reading" /\ w.next = verify[v].next
        /\ w.generation = asset[verify[v].asset].generation
    BY <1>1, <2>1 DEF Verifications
  <2>3. verify' = [verify EXCEPT ![v] = w] /\ verify[v].step = "marked"
        /\ UNCHANGED <<asset, chunk, store, intent, upload, publish, collector, lost>>
    BY <1>3 DEF Assets!ReadGeneration, Assets!Rows
  <2>4. w.next = 0
    BY <1>1, <2>2, <2>3 DEF VerifierInv
  <2> HIDE DEF w
  <2>5. \A i \in Index : ~(i < 0)
    BY DEF Assets!AssetAssumption
  <2>6. w.generation <= w.generation
    BY <2>1, <2>2 DEF Assets!AssetAssumption
  <2>7. VerifierInv(w)
    BY <2>2, <2>4, <2>5, <2>6 DEF VerifierInv
  <2> QED
    BY <2>2, <2>3, <2>7, VerifierStep
<1>4. CASE Assets!ReadGeneration(v) /\ asset[verify[v].asset].state # "verifying"
  BY <1>4, VerifierStep DEF Assets!ReadGeneration, Assets!Rows
<1>5. CASE Assets!ReadChunk(v)
  <2> DEFINE a == verify[v].asset
             n == verify[v].next
             d == chunk[a][n]
  <2>1. n \in Index /\ d \in Digest \cup {NoDigest} /\ verify[v].step = "reading"
    BY <1>2, <1>5, AssetFacts DEF Assets!ReadChunk
  <2>2. UNCHANGED <<asset, chunk, store, intent, upload, publish, collector, lost>>
    BY <1>5 DEF Assets!ReadChunk, Assets!Rows
  <2>3. CASE d = NoDigest
    <3> DEFINE w == [verify[v] EXCEPT !.step = "reset"]
    <3>1. /\ w \in Verifications /\ w.asset = a /\ w.generation = verify[v].generation /\ w.step = "reset"
      BY <1>1 DEF Verifications
    <3>2. verify' = [verify EXCEPT ![v] = w]
      BY <1>5, <2>3 DEF Assets!ReadChunk
    <3> HIDE DEF w
    <3>3. VerifierInv(w)
      BY <1>1, <3>1 DEF VerifierInv
    <3> QED
      BY <2>2, <3>1, <3>2, <3>3, VerifierStep
  <2>4. CASE d # NoDigest /\ d \notin store
    <3> DEFINE w == [verify[v] EXCEPT !.step = "forget", !.missing = d]
    <3>1. /\ w \in Verifications /\ w.asset = a /\ w.generation = verify[v].generation
          /\ w.step = "forget" /\ w.missing = d
      BY <1>1, <2>1 DEF Verifications
    <3>2. verify' = [verify EXCEPT ![v] = w]
      BY <1>5, <2>4 DEF Assets!ReadChunk
    <3>3. d \in lost
      BY <1>2, <2>1, <2>4 DEF RowsInv
    <3> HIDE DEF w
    <3>4. VerifierInv(w)
      BY <1>1, <3>1, <3>3 DEF VerifierInv
    <3> QED
      BY <2>2, <3>1, <3>2, <3>4, VerifierStep
  <2>5. CASE d # NoDigest /\ d \in store
    <3> DEFINE good == verify[v].good /\ d = Right[a][n]
               w == [verify[v] EXCEPT !.next = n + 1, !.good = good]
    <3>0. good \in BOOLEAN
      OBVIOUS
    <3>2. verify' = [verify EXCEPT ![v] = w]
      BY <1>5, <2>5 DEF Assets!ReadChunk
    <3> HIDE DEF good
    <3>1. /\ w \in Verifications /\ w.asset = a /\ w.generation = verify[v].generation
          /\ w.step = "reading" /\ w.next = n + 1 /\ w.good = good
      <4>1. n + 1 \in Nat
        BY <1>2
      <4>2. PICK m \in Nat : m = n + 1
        BY <4>1
      <4>3. PICK g \in BOOLEAN : g = good
        BY <3>0
      <4>4. verify[v] \in Verifications /\ verify[v].step = "reading"
        BY <1>1, <2>1
      <4>5. PICK r \in Verifications : r = verify[v]
        BY <4>4
      <4>6. w = [r EXCEPT !.next = m, !.good = g]
        BY <4>2, <4>3, <4>5
      <4>7. /\ w \in Verifications /\ w.asset = r.asset /\ w.generation = r.generation
            /\ w.step = r.step /\ w.next = m /\ w.good = g
        <5> HIDE DEF w
        <5> QED
          BY <4>2, <4>3, <4>5, <4>6 DEF Verifications
      <4> QED
        BY <4>2, <4>3, <4>4, <4>5, <4>7
    <3> HIDE DEF w
    <3>3. \A i \in Index : i < n + 1 => i < n \/ i = n
      <4>1. n \in Nat
        BY <1>2
      <4>2. \A m \in Nat, i \in Index : i < m + 1 => i < m \/ i = m
        BY Below
      <4> HIDE DEF n
      <4> QED
        BY <4>1, <4>2
    <3>4. ASSUME w.good, asset[a].state # "ready", w.generation = asset[a].generation,
                 Wanted(a) \cap lost = {}, NEW i \in Index, i < w.next
          PROVE  chunk[a][i] = Right[a][i]
      <4>1. good
        BY <3>1, <3>4
      <4>2. verify[v].good /\ d = Right[a][n]
        BY <4>1 DEF good
      <4>3. verify[v].generation = asset[a].generation /\ (i < n \/ i = n)
        BY <3>1, <3>3, <3>4
      <4>4. CASE i < n
        BY <1>1, <2>1, <3>4, <4>2, <4>3, <4>4, Zenon DEF VerifierInv
      <4> QED
        BY <4>2, <4>3, <4>4
    <3>5. VerifierInv(w)
      BY <1>1, <3>1, <3>4 DEF VerifierInv
    <3> QED
      BY <2>2, <3>1, <3>2, <3>5, VerifierStep
  <2> QED
    BY <2>3, <2>4, <2>5
<1>6. CASE Assets!VerifierDies(v)
  BY <1>6, VerifierStep DEF Assets!VerifierDies, Assets!Rows
<1> QED
  BY <1>3, <1>4, <1>5, <1>6

\* Steps that write rows: a row is written once in a generation, and of a ready
\* asset only rows of lost objects go.
LEMMA RowsStep ==
  ASSUME Assets!AssetAssumption, AInv, Assets!TypeOK', UploadsInv', RestoreInv',
         \A a \in Asset, i \in Index :
           \/ chunk'[a][i] \in {NoDigest, chunk[a][i]}
           \/ chunk'[a][i] \in store \cup lost /\ intent[chunk'[a][i]] = "fresh",
         \A a \in Asset :
           \/ asset'[a].state = "ready"
           \/ /\ asset[a].state # "ready" /\ asset[a].generation <= asset'[a].generation
              /\ asset'[a].generation = asset[a].generation =>
                   \A i \in Index : chunk[a][i] = Right[a][i] => chunk'[a][i] = Right[a][i] \/ Right[a][i] \in lost,
         \A a \in Asset : asset'[a].state = "ready" => Wanted(a) \cap lost # {} \/ chunk'[a] = Right[a],
         \A v \in Verifier, w \in Verifications : verify'[v] = w => VerifierInv(w),
         UNCHANGED <<store, intent, collector, lost>>
  PROVE  AInv'
<1> USE DEF AInv
<1>1. RowsInv'
  BY DEF RowsInv
<1>2. CollectInv'
  <2> SUFFICES ASSUME collector # Assets!Idle, NEW a \in Asset, NEW i \in Index, chunk'[a][i] = collector.digest
               PROVE  FALSE
    BY DEF CollectInv, Assets!Referenced
  <2>1. collector.digest \in Digest /\ collector.digest # NoDigest
    BY AssetFacts DEF Assets!AssetAssumption
  <2> QED
    BY <2>1 DEF CollectInv, Assets!Referenced
<1>3. ASSUME NEW v \in Verifier, NEW w \in Verifications, verify'[v] = w PROVE VerifierInv(w)'
  <2> DEFINE a == w.asset
  <2>1. /\ a \in Asset /\ w.generation \in Nat /\ VerifierInv(w)
        /\ asset[a].generation \in Nat /\ asset'[a].generation \in Nat
    BY <1>3 DEF Assets!TypeOK, Verifications, Assets!AssetAssumption
  <2>2. asset'[a].state # "ready" => w.generation <= asset'[a].generation
    BY <2>1 DEF VerifierInv
  <2>3. (w.step = "marked" => w.next = 0) /\ (w.step = "forget" => w.missing \in lost)
    BY <2>1 DEF VerifierInv
  <2>4. ASSUME w.step = "reading", w.good, asset'[a].state # "ready", w.generation = asset'[a].generation,
               Wanted(a) \cap lost = {}, NEW i \in Index, i < w.next
        PROVE  chunk'[a][i] = Right[a][i]
    <3>1. asset[a].state # "ready" /\ w.generation = asset[a].generation
      BY <2>1, <2>4 DEF VerifierInv
    <3>2. Right[a][i] \notin lost
      BY <2>1, <2>4, AssetFacts
    <3>3. chunk[a][i] = Right[a][i]
      BY <2>1, <2>4, <3>1 DEF VerifierInv
    <3> QED
      BY <2>1, <2>4, <3>1, <3>2, <3>3
  <2> QED
    BY <2>2, <2>3, <2>4 DEF VerifierInv
<1>4. VerifyInv'
  BY <1>3 DEF VerifyInv
<1>5. WholeInv'
  BY DEF WholeInv
<1> QED
  BY <1>1, <1>2, <1>4, <1>5

\* Rows of the asset a verifier, or nobody, works on.
LEMMA StateStep ==
  ASSUME Assets!AssetAssumption, AInv, NEW a \in Asset, NEW s \in Assets!States,
         asset' = [asset EXCEPT ![a].state = s] \/ asset' = asset,
         asset' # asset /\ s = "ready" => Wanted(a) \cap lost # {} \/ chunk[a] = Right[a],
         asset' # asset => asset[a].state # "ready",
         verify' \in [Verifier -> {Assets!Idle} \cup Verifications],
         \A v \in Verifier, w \in Verifications : verify'[v] = w => VerifierInv(w),
         UNCHANGED <<chunk, store, intent, upload, publish, collector, lost>>
  PROVE  AInv'
<1> USE DEF AInv
<1>1. asset' \in [Asset -> [state : Assets!States, generation : 0..MaxReset]]
  BY DEF Assets!TypeOK
<1>2. Assets!TypeOK'
  BY <1>1 DEF Assets!TypeOK, Verifications
<1>3. \A b \in Asset : /\ asset'[b].generation = asset[b].generation
                       /\ b # a \/ asset' = asset => asset'[b].state = asset[b].state
                       /\ b = a /\ asset' # asset => asset'[b].state = s
  BY DEF Assets!TypeOK
<1>4. \A b \in Asset : asset[b].generation <= asset'[b].generation
  BY <1>3, AssetFacts
<1>5. UploadsInv' /\ RestoreInv'
  BY DEF UploadsInv, RestoreInv
<1>6. \A b \in Asset : asset'[b].state = "ready" \/ asset[b].state # "ready"
  BY <1>3
<1>7. \A b \in Asset : asset'[b].state = "ready" => Wanted(b) \cap lost # {} \/ chunk'[b] = Right[b]
  BY <1>3 DEF WholeInv
<1> QED
  BY <1>2, <1>4, <1>5, <1>6, <1>7, RowsStep

\* Steps that change an asset's state and no row.
LEMMA StatesInv ==
  ASSUME Assets!AssetAssumption, AInv,
         \/ \E a \in Asset : Assets!Stage(a)
         \/ \E v \in Verifier, a \in Asset : Assets!StartVerify(v, a)
         \/ \E v \in Verifier : Assets!ResetStaging(v) \/ Assets!Finish(v)
  PROVE  AInv'
<1> USE DEF AInv
<1>1. ASSUME NEW a \in Asset, Assets!Stage(a) PROVE AInv'
  <2>1. \A v \in Verifier, w \in Verifications : verify'[v] = w => VerifierInv(w)
    BY <1>1 DEF Assets!Stage, Assets!Requests, VerifyInv
  <2> QED
    BY <1>1, <2>1, StateStep DEF Assets!Stage, Assets!Requests, Assets!States, Assets!TypeOK, Verifications
<1>2. ASSUME NEW v \in Verifier, NEW a \in Asset, Assets!StartVerify(v, a) PROVE AInv'
  <2> DEFINE w == [step |-> "marked", asset |-> a, next |-> 0, generation |-> 0, good |-> TRUE,
                   missing |-> NoDigest]
  <2>1. /\ w \in Verifications /\ w.step = "marked" /\ w.next = 0 /\ w.generation = 0 /\ w.asset = a
    BY DEF Verifications, Assets!AssetAssumption
  <2>2. /\ verify' = [verify EXCEPT ![v] = w] /\ asset' = [asset EXCEPT ![a].state = "verifying"]
        /\ UNCHANGED <<chunk, store, intent, upload, publish, collector, lost>>
        /\ asset[a].state # "ready"
    BY <1>2 DEF Assets!StartVerify
  <2> HIDE DEF w
  <2>3. VerifierInv(w)
    BY <2>1, AssetFacts DEF VerifierInv
  <2>4. verify' \in [Verifier -> {Assets!Idle} \cup Verifications]
    BY <2>1, <2>2 DEF Assets!TypeOK, Verifications
  <2>5. \A x \in Verifier, y \in Verifications : verify'[x] = y => VerifierInv(y)
    BY <2>2, <2>3 DEF VerifyInv, Assets!TypeOK
  <2> QED
    BY <2>2, <2>4, <2>5, StateStep DEF Assets!States
<1>3. ASSUME NEW v \in Verifier, NEW s \in {"staging", "ready", "invalid"}, Assets!Conclude(v, s), verify[v] \in Verifications,
             s = "ready" => /\ verify[v].step = "reading" /\ verify[v].good /\ verify[v].next \notin Index
      PROVE  AInv'
  <2> DEFINE a == verify[v].asset
  <2>1. a \in Asset /\ VerifierInv(verify[v]) /\ verify[v].next \in Nat
    BY <1>3 DEF Verifications, VerifyInv
  <2>2. verify' = [verify EXCEPT ![v] = Assets!Idle] /\ UNCHANGED <<chunk, store, intent, upload, publish, collector, lost>>
    BY <1>3 DEF Assets!Conclude
  <2>3. verify' \in [Verifier -> {Assets!Idle} \cup Verifications]
    BY <2>2 DEF Assets!TypeOK, Verifications
  <2>4. \A x \in Verifier, y \in Verifications : verify'[x] = y => VerifierInv(y)
    BY <2>2 DEF VerifyInv, Assets!TypeOK, Verifications, Assets!Idle
  <2>5. CASE Assets!SameVerification(verify[v])
    <3>1. asset' = [asset EXCEPT ![a].state = s] /\ asset[a].state # "ready"
      BY <1>3, <2>5 DEF Assets!Conclude, Assets!SameVerification
    <3>2. ASSUME s = "ready", Wanted(a) \cap lost = {} PROVE chunk[a] = Right[a]
      <4>1. \A i \in Index : i < verify[v].next
        <5>1. ASSUME NEW i \in Index, ~(i < verify[v].next) PROVE FALSE
          <6>1. i \in Nat /\ verify[v].next \in 0..i
            BY <2>1, <5>1 DEF Assets!AssetAssumption
          <6> QED
            BY <1>3, <3>2, <6>1 DEF Assets!AssetAssumption
        <5> QED
          BY <5>1
      <4>2. verify[v].generation = asset[a].generation
        BY <2>5 DEF Assets!SameVerification
      <4>3. verify[v].step = "reading" /\ verify[v].good
        BY <1>3, <3>2
      <4>4. \A i \in Index : chunk[a][i] = Right[a][i]
        BY <2>1, <3>1, <3>2, <4>1, <4>2, <4>3, Zenon DEF VerifierInv
      <4>5. chunk[a] \in [Index -> Digest \cup {NoDigest}] /\ Right[a] \in [Index -> Digest]
        BY <2>1 DEF Assets!TypeOK, Assets!AssetAssumption
      <4> QED
        BY <4>4, <4>5
    <3> HIDE DEF a
    <3> QED
      BY <2>1, <2>2, <2>3, <2>4, <3>1, <3>2, StateStep DEF Assets!States
  <2>6. CASE ~Assets!SameVerification(verify[v])
    <3>1. asset' = asset
      BY <1>3, <2>6 DEF Assets!Conclude
    <3> HIDE DEF a
    <3> QED
      BY <2>1, <2>2, <2>3, <2>4, <3>1, StateStep DEF Assets!States
  <2> QED
    BY <2>5, <2>6
<1>4. ASSUME NEW v \in Verifier, Assets!ResetStaging(v) \/ Assets!Finish(v) PROVE AInv'
  <2>1. verify[v] \in Verifications
    BY <1>4, AssetFacts DEF Assets!ResetStaging, Assets!Finish, Assets!Idle
  <2>2. CASE Assets!ResetStaging(v)
    BY <1>3, <2>1, <2>2 DEF Assets!ResetStaging
  <2>3. CASE Assets!Finish(v) /\ verify[v].good
    BY <1>3, <2>1, <2>3 DEF Assets!Finish
  <2>4. CASE Assets!Finish(v) /\ ~verify[v].good
    BY <1>3, <2>1, <2>4 DEF Assets!Finish
  <2> QED
    BY <1>4, <2>2, <2>3, <2>4
<1> QED
  BY <1>1, <1>2, <1>4

\* The rest: rows that come and go.
LEMMA RowsInvNext ==
  ASSUME Assets!AssetAssumption, AInv,
         \/ \E u \in Uploader : Assets!InsertRow(u)
         \/ \E v \in Verifier : Assets!ForgetRow(v)
         \/ \E a \in Asset : Assets!ResetInvalid(a)
         \/ Assets!PublishRows
  PROVE  AInv'
<1> USE DEF AInv
<1>1. chunk \in [Asset -> [Index -> Digest \cup {NoDigest}]]
  BY DEF Assets!TypeOK
<1>2. ASSUME NEW u \in Uploader, Assets!InsertRow(u) PROVE AInv'
  <2> DEFINE a == upload[u].asset
             i == upload[u].index
             d == upload[u].digest
  <2>1. upload[u] \in Uploads /\ upload[u] # Assets!Idle /\ upload[u].step = "stored"
    BY <1>2, AssetFacts DEF Assets!InsertRow, Assets!Idle
  <2>2. a \in Asset /\ i \in Index /\ d \in Digest /\ d \in store \cup lost /\ intent[d] = "fresh"
    BY <2>1 DEF Uploads, UploadsInv
  <2>3. upload' = [upload EXCEPT ![u] = Assets!Idle]
        /\ UNCHANGED <<asset, store, intent, verify, publish, collector, lost>>
    BY <1>2 DEF Assets!InsertRow
  <2>4. \/ chunk' = chunk
        \/ /\ chunk' = [chunk EXCEPT ![a][i] = d]
           /\ asset[a].state = "staging" /\ chunk[a][i] = NoDigest
    BY <1>2 DEF Assets!InsertRow
  <2> HIDE DEF a, i, d
  <2>5. chunk' \in [Asset -> [Index -> Digest \cup {NoDigest}]]
    BY <1>1, <2>2, <2>4
  <2>6. \A b \in Asset, k \in Index :
          \/ chunk'[b][k] = chunk[b][k]
          \/ b = a /\ k = i /\ chunk'[b][k] = d /\ chunk[b][k] = NoDigest /\ asset[a].state = "staging"
    BY <1>1, <2>2, <2>4
  <2>7. Assets!TypeOK'
    BY <2>3, <2>5 DEF Assets!TypeOK, Uploads
  <2>8. UploadsInv' /\ RestoreInv'
    BY <2>3 DEF UploadsInv, RestoreInv, Assets!TypeOK
  <2>9. \A b \in Asset : asset[b].generation <= asset'[b].generation
    BY <2>3, AssetFacts
  <2>10. \A b \in Asset, k \in Index : chunk[b][k] = Right[b][k] => chunk'[b][k] = Right[b][k]
    BY <2>6, AssetFacts
  <2>11. \A b \in Asset : asset'[b].state = "ready" => Wanted(b) \cap lost # {} \/ chunk'[b] = Right[b]
    <3>1. \A b \in Asset : asset'[b].state = "ready" => chunk'[b] = chunk[b]
      BY <1>1, <2>2, <2>3, <2>4
    <3> QED
      BY <2>3, <3>1 DEF WholeInv
  <2>12. \A v \in Verifier, w \in Verifications : verify'[v] = w => VerifierInv(w)
    BY <2>3 DEF VerifyInv
  <2>13. \A b \in Asset, k \in Index :
           \/ chunk'[b][k] \in {NoDigest, chunk[b][k]}
           \/ chunk'[b][k] \in store \cup lost /\ intent[chunk'[b][k]] = "fresh"
    BY <2>2, <2>6
  <2> QED
    BY <2>3, <2>7, <2>8, <2>9, <2>10, <2>11, <2>12, <2>13, RowsStep
<1>3. ASSUME NEW v \in Verifier, Assets!ForgetRow(v) PROVE AInv'
  <2> DEFINE a == verify[v].asset
             i == verify[v].next
             d == verify[v].missing
             w == [verify[v] EXCEPT !.step = "reset", !.missing = NoDigest]
  <2>1. verify[v] \in Verifications /\ verify[v].step = "forget" /\ VerifierInv(verify[v])
    <3>1. verify[v].step = "forget"
      BY <1>3 DEF Assets!ForgetRow
    <3>2. verify[v] # Assets!Idle
      BY <3>1 DEF Assets!Idle
    <3>3. verify[v] \in Verifications
      BY <3>2, AssetFacts
    <3> QED
      BY <3>1, <3>3 DEF VerifyInv
  <2>2. a \in Asset /\ d \in lost
    BY <2>1 DEF Verifications, VerifierInv
  <2>3. /\ w \in Verifications /\ w.step = "reset" /\ w.asset = a /\ w.generation = verify[v].generation
    BY <2>1 DEF Verifications
  <2>4. /\ verify' = [verify EXCEPT ![v] = w]
        /\ chunk' = IF chunk[a][i] = d THEN [chunk EXCEPT ![a][i] = NoDigest] ELSE chunk
        /\ UNCHANGED <<asset, store, intent, upload, publish, collector, lost>>
    BY <1>3 DEF Assets!ForgetRow
  <2>5. VerifierInv(w)
    BY <2>1, <2>3 DEF VerifierInv
  <2> HIDE DEF a, i, d, w
  <2>6. chunk' \in [Asset -> [Index -> Digest \cup {NoDigest}]]
    BY <1>1, <2>4
  <2>7. \A b \in Asset, k \in Index :
          \/ chunk'[b][k] = chunk[b][k]
          \/ chunk'[b][k] = NoDigest /\ chunk[b][k] = d
    BY <1>1, <2>4
  <2>8. Assets!TypeOK'
    BY <2>3, <2>4, <2>6 DEF Assets!TypeOK, Verifications
  <2>9. UploadsInv' /\ RestoreInv'
    BY <2>4 DEF UploadsInv, RestoreInv
  <2>10. \A b \in Asset : asset[b].generation <= asset'[b].generation
    BY <2>4, AssetFacts
  <2>11. \A b \in Asset, k \in Index :
           chunk[b][k] = Right[b][k] => chunk'[b][k] = Right[b][k] \/ Right[b][k] \in lost
    BY <2>2, <2>7
  <2>12. \A b \in Asset : asset'[b].state = "ready" => Wanted(b) \cap lost # {} \/ chunk'[b] = Right[b]
    <3> SUFFICES ASSUME NEW b \in Asset, asset[b].state = "ready", Wanted(b) \cap lost = {}
                 PROVE  chunk'[b] = Right[b]
      BY <2>4
    <3>1. chunk[b] = Right[b]
      BY DEF WholeInv
    <3>2. \A k \in Index : Right[b][k] \notin lost
      BY AssetFacts
    <3>3. \A k \in Index : chunk'[b][k] = Right[b][k]
      BY <2>2, <2>7, <3>1, <3>2
    <3>4. chunk'[b] \in [Index -> Digest \cup {NoDigest}] /\ Right[b] \in [Index -> Digest]
      BY <2>6 DEF Assets!AssetAssumption
    <3> QED
      BY <3>3, <3>4
  <2>13. \A x \in Verifier, y \in Verifications : verify'[x] = y => VerifierInv(y)
    BY <2>4, <2>5 DEF VerifyInv, Assets!TypeOK
  <2>14. \A b \in Asset, k \in Index : chunk'[b][k] \in {NoDigest, chunk[b][k]}
    BY <2>7
  <2>15. \A b \in Asset : asset'[b].state = "ready" \/ asset[b].state # "ready"
    BY <2>4
  <2> QED
    BY <2>4, <2>8, <2>9, <2>10, <2>11, <2>12, <2>13, <2>14, <2>15, RowsStep
<1>4. ASSUME NEW a \in Asset, Assets!ResetInvalid(a) PROVE AInv'
  <2> DEFINE none == [k \in Index |-> NoDigest]
             r == [state |-> "staging", generation |-> asset[a].generation + 1]
  <2>1. asset[a].state = "invalid" /\ asset[a].generation + 1 \in 0..MaxReset
    BY <1>4, AssetFacts DEF Assets!ResetInvalid, Assets!AssetAssumption
  <2>2. /\ asset' = [asset EXCEPT ![a] = r] /\ chunk' = [chunk EXCEPT ![a] = none]
        /\ UNCHANGED <<store, intent, collector, lost, upload, verify, publish>>
    BY <1>4 DEF Assets!ResetInvalid, Assets!Requests
  <2>3. r \in [state : Assets!States, generation : 0..MaxReset] /\ r.state = "staging"
        /\ r.generation = asset[a].generation + 1
    BY <2>1 DEF Assets!States
  <2>4. none \in [Index -> Digest \cup {NoDigest}] /\ \A k \in Index : none[k] = NoDigest
    OBVIOUS
  <2> HIDE DEF none, r
  <2>5. Assets!TypeOK'
    BY <1>1, <2>2, <2>3, <2>4 DEF Assets!TypeOK
  <2>6. UploadsInv' /\ RestoreInv'
    BY <2>2 DEF UploadsInv, RestoreInv
  <2>7. \A b \in Asset : /\ asset'[b] = IF b = a THEN r ELSE asset[b]
                         /\ chunk'[b] = IF b = a THEN none ELSE chunk[b]
    BY <1>1, <2>2 DEF Assets!TypeOK
  <2>8. \A b \in Asset, k \in Index : chunk'[b][k] \in {NoDigest, chunk[b][k]}
    BY <2>4, <2>7
  <2>9. \A b \in Asset :
          \/ asset'[b].state = "ready"
          \/ /\ asset[b].state # "ready" /\ asset[b].generation <= asset'[b].generation
             /\ asset'[b].generation = asset[b].generation => chunk'[b] = chunk[b]
    BY <2>1, <2>3, <2>7, AssetFacts
  <2>10. \A b \in Asset : asset'[b].state = "ready" => Wanted(b) \cap lost # {} \/ chunk'[b] = Right[b]
    BY <2>3, <2>7 DEF WholeInv
  <2>11. \A v \in Verifier, w \in Verifications : verify'[v] = w => VerifierInv(w)
    BY <2>2 DEF VerifyInv
  <2> QED
    BY <2>2, <2>5, <2>6, <2>8, <2>9, <2>10, <2>11, RowsStep
<1>5. CASE Assets!PublishRows
  <2> DEFINE a == publish.asset
             r == [state |-> "ready", generation |-> 0]
  <2>1. publish # Assets!Idle /\ publish \in Restore /\ publish.stored = Assets!Needed
    BY <1>5, AssetFacts DEF Assets!PublishRows
  <2>2. /\ a \in Asset /\ Assets!Needed = Wanted(a)
        /\ \A d \in Assets!Needed : d \in store \cup lost /\ intent[d] = "fresh"
    BY <2>1 DEF Restore, Assets!Needed, Wanted, RestoreInv
  <2>3. /\ asset' = [asset EXCEPT ![a] = r] /\ chunk' = [chunk EXCEPT ![a] = Right[a]] /\ publish' = Assets!Idle
        /\ UNCHANGED <<store, intent, upload, verify, collector, lost>>
    BY <1>5 DEF Assets!PublishRows
  <2>4. r \in [state : Assets!States, generation : 0..MaxReset] /\ r.state = "ready"
    BY DEF Assets!States, Assets!AssetAssumption
  <2>5. Right[a] \in [Index -> Digest]
    BY <2>2 DEF Assets!AssetAssumption
  <2> HIDE DEF a, r
  <2>6. Assets!TypeOK'
    BY <1>1, <2>2, <2>3, <2>4, <2>5 DEF Assets!TypeOK
  <2>7. UploadsInv' /\ RestoreInv'
    BY <2>3 DEF UploadsInv, RestoreInv
  <2>8. \A b \in Asset : /\ asset'[b] = IF b = a THEN r ELSE asset[b]
                         /\ chunk'[b] = IF b = a THEN Right[a] ELSE chunk[b]
    BY <1>1, <2>3 DEF Assets!TypeOK
  <2>9. \A b \in Asset, k \in Index :
          \/ chunk'[b][k] \in {NoDigest, chunk[b][k]}
          \/ chunk'[b][k] \in store \cup lost /\ intent[chunk'[b][k]] = "fresh"
    BY <2>2, <2>8, AssetFacts
  <2>10. \A b \in Asset :
          \/ asset'[b].state = "ready"
          \/ /\ asset[b].state # "ready" /\ asset[b].generation <= asset'[b].generation
             /\ asset'[b].generation = asset[b].generation => chunk'[b] = chunk[b]
    BY <2>4, <2>8, AssetFacts
  <2>11. \A b \in Asset : asset'[b].state = "ready" => Wanted(b) \cap lost # {} \/ chunk'[b] = Right[b]
    BY <2>8 DEF WholeInv
  <2>12. \A v \in Verifier, w \in Verifications : verify'[v] = w => VerifierInv(w)
    BY <2>3 DEF VerifyInv
  <2> QED
    BY <2>3, <2>6, <2>7, <2>9, <2>10, <2>11, <2>12, RowsStep
<1> QED
  BY <1>2, <1>3, <1>4, <1>5

\* Every step keeps the invariant.
LEMMA AssetNext == ASSUME Assets!AssetAssumption, AInv, [Assets!Next]_(Assets!avars) PROVE AInv'
<1>1. CASE Assets!Uploads
  BY <1>1, StatesInv, UploaderInv, RowsInvNext DEF Assets!Uploads
<1>2. CASE Assets!Verification
  BY <1>2, StatesInv, VerifyingInv, RowsInvNext DEF Assets!Verification
<1>3. CASE Assets!Restores
  BY <1>3, RestoringInv, RowsInvNext DEF Assets!Restores
<1>4. CASE Assets!Collection
  BY <1>4, CollectorInv DEF Assets!Collection
<1>5. CASE UNCHANGED Assets!avars
  <2>1. UNCHANGED <<asset, chunk, store, intent, upload, verify, publish, collector, lost>>
    BY <1>5 DEF Assets!avars
  <2>2. Assets!TypeOK' /\ UploadsInv' /\ RestoreInv' /\ CollectInv'
    BY <2>1 DEF AInv, Assets!TypeOK, UploadsInv, RestoreInv, CollectInv, Assets!Referenced
  <2> QED
    BY <2>1, <2>2, StoreStep
<1> QED
  BY <1>1, <1>2, <1>3, <1>4, <1>5 DEF Assets!Next

\* Of a ready asset every chunk is there and right, whatever uploads, verifications,
\* restores and collections overlap; only an object lost from the store breaks it
\* (assets/service.go; assets/collector.go).
THEOREM ReadyStaysWhole == Assets!Spec => []ReadyWhole
<1>1. Assets!Init => AInv
  BY AssetInit, ServerAssumption
<1>2. AInv /\ [Assets!Next]_(Assets!avars) => AInv'
  BY AssetNext, ServerAssumption
<1>3. AInv => ReadyWhole
  <2> SUFFICES ASSUME AInv, NEW a \in Asset, asset[a].state = "ready", Wanted(a) \cap lost = {}
               PROVE  chunk[a] = Right[a] /\ Wanted(a) \subseteq store
    BY DEF AInv, ReadyWhole, Assets!ReadyWhole, Wanted
  <2>1. chunk[a] = Right[a]
    BY DEF AInv, WholeInv
  <2>2. ASSUME NEW i \in Index PROVE Right[a][i] \in store
    BY <2>1, AssetFacts, ServerAssumption DEF AInv, RowsInv
  <2> QED
    BY <2>1, <2>2 DEF Wanted
<1> QED
  BY <1>1, <1>2, <1>3, PTL DEF Assets!Spec

-----------------------------------------------------------------------------
(* The pages of the clients' notebooks.                                     *)

\* Pages that a worker is reading, or has read.
Reading ==
  [step : {"ink", "read", "finish"}, era : Nat, notebook : Notebook, gone : BOOLEAN,
   seen : {ClientPage!None} \cup ClientPage!Texts, text : {ClientPage!None} \cup ClientPage!Texts,
   fresh : {ClientPage!None} \cup [ink : Ink, round : 0..MaxChanges]]

ReaderStates ==
  {ClientPage!Idle} \cup [step : {"claimed"}] \cup [step : {"head"}, era : Nat] \cup Reading

\* What a worker remembers; requests and replacements are counted as changes.
ReaderTypes ==
  /\ ClientPage!TypeOK
  /\ working \in [Reader -> ReaderStates]
  /\ round <= changes /\ era <= changes

\* The text of the page as it is.
Present == IF page.live THEN ClientPage!Text(page.ink, round, page.typed) ELSE ClientPage!None

\* A page nobody waits for is settled, in the trash too.
SettledInv ==
  mark = ClientPage!Unmarked /\ ~given =>
    /\ index = IF Present = ClientPage!None THEN ClientPage!None
               ELSE [notebook |-> page.notebook, text |-> Present]
    /\ authored = Present

\* What is cached was recognised after the last request to forget.
CacheInv == cache # ClientPage!None => cache.round = round

\* What the worker under the lease has read is what the page holds.
ReadInv ==
  \A w \in Reader : ClientPage!Holds(w) /\ working[w].step \in {"ink", "read", "finish"} =>
    LET r == working[w]
    IN /\ r.notebook = page.notebook /\ r.seen = authored
       /\ r.fresh # ClientPage!None => r.fresh.round = round
       /\ IF r.gone THEN r.step = "finish" /\ r.text = ClientPage!None
          ELSE /\ page.live
               /\ r.step = "read" => r.text = ClientPage!Text(page.ink, round, Nothing)
               /\ r.step = "finish" => r.text = ClientPage!Text(page.ink, round, page.typed)

PageInv == ReaderTypes /\ SettledInv /\ CacheInv /\ ReadInv

\* Texts are well formed, and a text without ink was recognised in no round.
LEMMA TextFacts ==
  ASSUME ClientPage!PageAssumption, NEW ink \in Ink \cup {Nothing}, NEW typed \in Typed \cup {Nothing},
         NEW r \in 0..MaxChanges
  PROVE  /\ ClientPage!Text(ink, r, typed) \in {ClientPage!None} \cup ClientPage!Texts
         /\ LET t == ClientPage!Text(ink, r, Nothing)
            IN IF t = ClientPage!None THEN ClientPage!Text(Nothing, 0, typed) = ClientPage!Text(ink, r, typed)
               ELSE ClientPage!Text(t.ink, t.round, typed) = ClientPage!Text(ink, r, typed)
<1>1. ClientPage!Text(ink, r, typed) \in {ClientPage!None} \cup ClientPage!Texts
  BY DEF ClientPage!PageAssumption, ClientPage!Text, ClientPage!Texts
<1>2. CASE ink = Nothing
  BY <1>1, <1>2 DEF ClientPage!Text
<1>3. CASE ink # Nothing
  <2> DEFINE t == ClientPage!Text(ink, r, Nothing)
  <2>1. t = [ink |-> ink, round |-> r, typed |-> Nothing]
    BY <1>3 DEF ClientPage!Text
  <2>2. t # ClientPage!None
    BY <1>3, <2>1 DEF ClientPage!None
  <2> QED
    BY <1>1, <1>3, <2>1, <2>2 DEF ClientPage!Text
<1> QED
  BY <1>2, <1>3

\* The steps a worker can be at.
LEMMA StepsKnown ==
  ASSUME working \in [Reader -> ReaderStates]
  PROVE  \A w \in Reader : working[w].step \in {"idle", "claimed", "head", "ink", "read", "finish"}
BY DEF ReaderStates, Reading, ClientPage!Idle

LEMMA StepsKnownNext ==
  ASSUME working' \in [Reader -> ReaderStates]
  PROVE  \A w \in Reader : working'[w].step \in {"idle", "claimed", "head", "ink", "read", "finish"}
BY DEF ReaderStates, Reading, ClientPage!Idle

\* The initial states satisfy the invariant.
LEMMA PageInit ==
  ASSUME ClientPage!PageAssumption, ClientPage!Init
  PROVE  PageInv
<1>1. ReaderTypes
  <2>1. working \in [Reader -> ReaderStates]
    BY DEF ClientPage!Init, ReaderStates
  <2>2. mark \in ClientPage!Marks
    BY DEF ClientPage!Init, ClientPage!Marks
  <2>3. page \in ClientPage!Pages
    BY DEF ClientPage!Init
  <2>4. trash \in BOOLEAN /\ given \in BOOLEAN
    BY DEF ClientPage!Init
  <2>5. /\ hold \in {"no", "skip", "limit"}
        /\ cache = ClientPage!None /\ index = ClientPage!None /\ authored = ClientPage!None
        /\ round = 0 /\ era = 0 /\ changes = 0 /\ 0 \in 0..MaxChanges
    BY DEF ClientPage!Init, ClientPage!PageAssumption
  <2>6. \A w \in Reader : working[w].step \in {"idle", "claimed", "head", "ink", "read", "finish"}
    BY <2>1, StepsKnown
  <2>7. ClientPage!TypeOK
    BY <2>2, <2>3, <2>4, <2>5, <2>6 DEF ClientPage!TypeOK
  <2> QED
    BY <2>1, <2>5, <2>7 DEF ReaderTypes
<1>2. SettledInv /\ CacheInv /\ ReadInv
  BY DEF ClientPage!Init, SettledInv, CacheInv, ReadInv, ClientPage!Holds, ClientPage!Unmarked,
     ClientPage!Idle
<1> QED
  BY <1>1, <1>2 DEF PageInv

\* A mark that is set anew is nobody's, and a page is left without one only when that
\* is noted.
LEMMA MarkFacts ==
  ASSUME ClientPage!PageAssumption, ReaderTypes, ClientPage!MarkDirty \/ ClientPage!MarkQueued
  PROVE  /\ mark' \in ClientPage!Marks
         /\ given' \in BOOLEAN
         /\ mark' = ClientPage!Unmarked => given'
         /\ \A w \in Reader : ~ClientPage!Holds(w)'
<1> DEFINE S == {"queued", "processing", "failed", "paused", "cancelled", "skipped"}
<1>1. mark \in ClientPage!Marks /\ hold \in {"no", "skip", "limit"}
  BY DEF ReaderTypes, ClientPage!TypeOK
<1>2. given' = (mark' = ClientPage!Unmarked)
  BY DEF ClientPage!MarkDirty, ClientPage!MarkQueued
<1>3. \/ mark' = ClientPage!Unmarked
      \/ \E s \in S : mark' = [state |-> s, token |-> ClientPage!NoHolder]
      \/ mark' = mark /\ mark.state \in {"paused", "cancelled"}
  BY <1>1 DEF ClientPage!MarkDirty, ClientPage!MarkQueued, ClientPage!Inserted, ClientPage!Updated
<1>4. CASE mark' = ClientPage!Unmarked
  BY <1>2, <1>4 DEF ClientPage!Marks, ClientPage!Holds
<1>5. CASE \E s \in S : mark' = [state |-> s, token |-> ClientPage!NoHolder]
  <2>1. PICK s \in S : mark' = [state |-> s, token |-> ClientPage!NoHolder]
    BY <1>5
  <2>2. mark' \in ClientPage!Marks
    BY <2>1 DEF ClientPage!Marks
  <2>3. \A w \in Reader : ~ClientPage!Holds(w)'
    BY <2>1 DEF ClientPage!PageAssumption, ClientPage!Holds
  <2> QED
    BY <1>2, <2>2, <2>3
<1>6. CASE mark' = mark /\ mark.state \in {"paused", "cancelled"}
  BY <1>1, <1>2, <1>6 DEF ClientPage!Holds
<1> QED
  BY <1>3, <1>4, <1>5, <1>6

\* A step after which nobody holds the page, and which notes a page without a mark,
\* may change what it likes.
LEMMA Remarked ==
  ASSUME PageInv, ReaderTypes', CacheInv', mark' = ClientPage!Unmarked => given',
         \A w \in Reader : ~ClientPage!Holds(w)'
  PROVE  PageInv'
BY DEF PageInv, SettledInv, ReadInv

\* Devices' and owners' edits, requests and replacements.
LEMMA ChangeStep ==
  ASSUME ClientPage!PageAssumption, PageInv,
         \/ ClientPage!Edit \/ ClientPage!Reprocess \/ ClientPage!Request
         \/ ClientPage!ReplaceLibrary
  PROVE  PageInv'
<1>1. CASE ClientPage!Edit \/ ClientPage!Request
  <2>1. ClientPage!MarkDirty \/ ClientPage!MarkQueued
    BY <1>1 DEF ClientPage!Edit, ClientPage!Request
  <2>2. ReaderTypes'
    BY <1>1, <2>1, MarkFacts DEF PageInv, ReaderTypes, ClientPage!TypeOK, ClientPage!Edit,
       ClientPage!Request, ClientPage!Change, ClientPage!PageAssumption
  <2>3. CacheInv'
    BY <1>1 DEF PageInv, CacheInv, ClientPage!Edit, ClientPage!Request
  <2> QED
    BY <2>1, <2>2, <2>3, MarkFacts, Remarked DEF PageInv
<1>2. CASE ClientPage!Reprocess
  <2>1. ClientPage!MarkQueued
    BY <1>2 DEF ClientPage!Reprocess
  <2>2. ReaderTypes'
    BY <1>2, <2>1, MarkFacts DEF PageInv, ReaderTypes, ClientPage!TypeOK, ClientPage!Reprocess,
       ClientPage!Change, ClientPage!PageAssumption
  <2>3. CacheInv'
    BY <1>2 DEF CacheInv, ClientPage!Reprocess
  <2> QED
    BY <2>1, <2>2, <2>3, MarkFacts, Remarked DEF PageInv
<1>3. CASE ClientPage!ReplaceLibrary
  <2>1. ReaderTypes'
    BY <1>3 DEF PageInv, ReaderTypes, ClientPage!TypeOK, ClientPage!ReplaceLibrary, ClientPage!Change,
       ClientPage!Inserted, ClientPage!PageAssumption, ClientPage!Marks, ClientPage!Unmarked
  <2>2. CacheInv'
    BY <1>3 DEF PageInv, CacheInv, ClientPage!ReplaceLibrary
  <2>3. /\ mark' = ClientPage!Unmarked => given'
        /\ \A w \in Reader : ~ClientPage!Holds(w)'
    BY <1>3 DEF ClientPage!ReplaceLibrary, ClientPage!Inserted, ClientPage!Unmarked, ClientPage!Holds,
       PageInv, ReaderTypes, ClientPage!TypeOK
  <2> QED
    BY <2>1, <2>2, <2>3, Remarked
<1> QED
  BY <1>1, <1>2, <1>3

\* A step that takes the page from workers at most, and settles nothing.
LEMMA Withdrawn ==
  ASSUME PageInv, ReaderTypes',
         UNCHANGED <<page, cache, index, authored, round, given, working>>,
         mark' = ClientPage!Unmarked => mark = ClientPage!Unmarked,
         \A w \in Reader : ClientPage!Holds(w)' => ClientPage!Holds(w)
  PROVE  PageInv'
BY DEF PageInv, SettledInv, CacheInv, ReadInv, Present

\* The trash, skips, the limit and the controls.
LEMMA ControlStep ==
  ASSUME ClientPage!PageAssumption, PageInv,
         \/ ClientPage!TrashNotebook \/ ClientPage!Controls
         \/ \E h \in {"no", "skip", "limit"} : ClientPage!SetHold(h)
  PROVE  PageInv'
<1>1. CASE ClientPage!TrashNotebook
  <2>1. ReaderTypes'
    BY <1>1 DEF PageInv, ReaderTypes, ClientPage!TypeOK, ClientPage!TrashNotebook, ClientPage!Change,
       ClientPage!PageAssumption
  <2> QED
    BY <1>1, <2>1, Withdrawn DEF ClientPage!TrashNotebook, ClientPage!Holds
<1>2. ASSUME NEW from, NEW to \in {"paused", "queued", "cancelled"}, ClientPage!Control(from, to)
      PROVE  PageInv'
  <2>1. ReaderTypes'
    BY <1>2 DEF PageInv, ReaderTypes, ClientPage!TypeOK, ClientPage!Control, ClientPage!Change,
       ClientPage!PageAssumption, ClientPage!Marks
  <2> QED
    BY <1>2, <2>1, Withdrawn DEF ClientPage!Control, ClientPage!Holds, ClientPage!Unmarked
<1>3. ASSUME NEW h \in {"no", "skip", "limit"}, ClientPage!SetHold(h)
      PROVE  PageInv'
  <2>1. mark \in ClientPage!Marks
    BY DEF PageInv, ReaderTypes, ClientPage!TypeOK
  <2>2. /\ mark' \in ClientPage!Marks
        /\ mark' = ClientPage!Unmarked => mark = ClientPage!Unmarked
        /\ \A w \in Reader : ClientPage!Holds(w)' => ClientPage!Holds(w)
    BY <1>3, <2>1 DEF ClientPage!SetHold, ClientPage!Marks, ClientPage!Unmarked, ClientPage!Holds
  <2>3. ReaderTypes'
    BY <1>3, <2>2 DEF PageInv, ReaderTypes, ClientPage!TypeOK, ClientPage!SetHold, ClientPage!Change,
       ClientPage!PageAssumption
  <2> QED
    BY <1>3, <2>2, <2>3, Withdrawn DEF ClientPage!SetHold
<1> QED
  BY <1>1, <1>2, <1>3 DEF ClientPage!Controls

\* The rows of workers other than the one that moves.
LEMMA OthersStay ==
  ASSUME ReaderTypes, NEW w \in Reader, NEW r, ClientPage!Set(w, r)
  PROVE  /\ working'[w] = r
         /\ \A v \in Reader : v # w => working'[v] = working[v]
         /\ r \in ReaderStates => working' \in [Reader -> ReaderStates]
BY DEF ReaderTypes, ClientPage!Set

\* A worker that reads nothing and settles nothing.
LEMMA Resting ==
  ASSUME PageInv, ReaderTypes', NEW w \in Reader,
         working'[w].step \notin {"ink", "read", "finish"},
         \A v \in Reader : v # w => working'[v] = working[v],
         UNCHANGED <<page, cache, index, authored, round, given>>,
         mark' = ClientPage!Unmarked => mark = ClientPage!Unmarked,
         \A v \in Reader : v # w /\ ClientPage!Holds(v)' => ClientPage!Holds(v)
  PROVE  PageInv'
BY DEF PageInv, SettledInv, CacheInv, ReadInv, Present

\* Claims, lost and failed passes.
LEMMA RestStep ==
  ASSUME ClientPage!PageAssumption, PageInv, NEW w \in Reader,
         \/ ClientPage!Claim(w) \/ ClientPage!ReadGeneration(w) \/ ClientPage!FinishReplaced(w)
         \/ ClientPage!FinishLost(w) \/ ClientPage!Fail(w) \/ ClientPage!Crash(w)
  PROVE  PageInv'
<1> DEFINE S == {ClientPage!Idle, [step |-> "claimed"], [step |-> "head", era |-> era]}
<1>1. PICK r \in S : ClientPage!Set(w, r)
  BY DEF ClientPage!Claim, ClientPage!ReadGeneration, ClientPage!FinishReplaced, ClientPage!FinishLost,
     ClientPage!Fail, ClientPage!Crash
<1>2. r \in ReaderStates /\ r.step \notin {"ink", "read", "finish"}
  BY DEF PageInv, ReaderTypes, ClientPage!TypeOK, ReaderStates, ClientPage!Idle
<1>3. mark \in ClientPage!Marks /\ ClientPage!NoHolder \notin Reader
  BY DEF PageInv, ReaderTypes, ClientPage!TypeOK, ClientPage!PageAssumption
<1>4. /\ mark' \in ClientPage!Marks
      /\ mark' = ClientPage!Unmarked => mark = ClientPage!Unmarked
      /\ \A v \in Reader : v # w /\ ClientPage!Holds(v)' => ClientPage!Holds(v)
  BY <1>3 DEF ClientPage!Claim, ClientPage!ReadGeneration, ClientPage!FinishReplaced,
     ClientPage!FinishLost, ClientPage!Fail, ClientPage!Crash, ClientPage!Marks, ClientPage!Unmarked,
     ClientPage!Holds
<1>5. UNCHANGED <<page, trash, hold, cache, index, authored, round, era, changes, given>>
  BY DEF ClientPage!Claim, ClientPage!ReadGeneration, ClientPage!FinishReplaced, ClientPage!FinishLost,
     ClientPage!Fail, ClientPage!Crash
<1>6. ReaderTypes'
  <2>1. working' \in [Reader -> ReaderStates]
    BY <1>1, <1>2, OthersStay DEF PageInv
  <2> QED
    BY <1>4, <1>5, <2>1, StepsKnownNext DEF PageInv, ReaderTypes, ClientPage!TypeOK
<1> QED
  BY <1>1, <1>2, <1>4, <1>5, <1>6, OthersStay, Resting DEF PageInv

\* What a pass has read so far, by the step it is at.
ReadSoFar(r) ==
  /\ r.notebook = page.notebook /\ r.seen = authored
  /\ r.fresh # ClientPage!None => r.fresh.round = round
  /\ IF r.gone THEN r.step = "finish" /\ r.text = ClientPage!None
     ELSE /\ page.live
          /\ r.step = "read" => r.text = ClientPage!Text(page.ink, round, Nothing)
          /\ r.step = "finish" => r.text = ClientPage!Text(page.ink, round, page.typed)

\* A worker that reads on, and settles nothing.
LEMMA ReadingOn ==
  ASSUME PageInv, NEW w \in Reader, NEW r \in Reading, ClientPage!Set(w, r),
         UNCHANGED <<page, trash, hold, mark, cache, index, authored, round, era, changes, given>>,
         ClientPage!Holds(w) => ReadSoFar(r)
  PROVE  PageInv'
<1>1. /\ working'[w] = r /\ working' \in [Reader -> ReaderStates]
      /\ \A v \in Reader : v # w => working'[v] = working[v]
  BY OthersStay DEF PageInv, ReaderStates
<1>2. ReaderTypes'
  BY <1>1, StepsKnownNext DEF PageInv, ReaderTypes, ClientPage!TypeOK
<1>3. ReadInv'
  BY <1>1 DEF PageInv, ReadInv, ReadSoFar, ClientPage!Holds
<1> QED
  BY <1>2, <1>3 DEF PageInv, SettledInv, CacheInv, Present

\* The page and its notebook are read with the authored text ...
LEMMA ReadHeadStep ==
  ASSUME ClientPage!PageAssumption, PageInv, NEW w \in Reader, ClientPage!ReadHead(w)
  PROVE  PageInv'
<1> DEFINE r == [step |-> IF page.live /\ ~trash THEN "ink" ELSE "finish", era |-> working[w].era,
                 notebook |-> page.notebook, gone |-> ~page.live \/ trash, seen |-> authored,
                 text |-> ClientPage!None, fresh |-> ClientPage!None]
<1>1. ClientPage!Set(w, r)
  BY DEF ClientPage!ReadHead
<1>2. working[w].era \in Nat
  BY DEF PageInv, ReaderTypes, ReaderStates, Reading, ClientPage!Idle, ClientPage!ReadHead
<1>3. r \in Reading
  BY <1>2 DEF PageInv, ReaderTypes, ClientPage!TypeOK, ClientPage!Pages, Reading
<1>4. ReadSoFar(r)
  BY DEF PageInv, ReaderTypes, ClientPage!TypeOK, ClientPage!Pages, ReadSoFar
<1> HIDE DEF r
<1> QED
  BY <1>1, <1>3, <1>4, ReadingOn DEF ClientPage!ReadHead

\* ... then its strokes, with what the cache knows of them ...
LEMMA ReadInkStep ==
  ASSUME ClientPage!PageAssumption, PageInv, NEW w \in Reader, ClientPage!ReadInk(w)
  PROVE  PageInv'
<1> DEFINE q == working[w]
           hit == page.ink # Nothing /\ cache # ClientPage!None /\ cache.ink = page.ink
           at == IF hit THEN cache.round ELSE round
           seen == ClientPage!Text(page.ink, at, Nothing)
           fresh == IF hit \/ page.ink = Nothing THEN ClientPage!None
                    ELSE [ink |-> page.ink, round |-> at]
           r == [q EXCEPT !.step = "read", !.text = seen, !.fresh = fresh]
<1>1. ClientPage!Set(w, r) /\ q.step = "ink"
  BY DEF ClientPage!ReadInk
<1>2. q \in Reading
  BY <1>1 DEF PageInv, ReaderTypes, ReaderStates, ClientPage!Idle
<1>3. at = round /\ round \in 0..MaxChanges /\ page.ink \in Ink \cup {Nothing}
  BY DEF PageInv, ReaderTypes, CacheInv, ClientPage!TypeOK, ClientPage!Pages
<1>4. seen \in {ClientPage!None} \cup ClientPage!Texts /\ seen = ClientPage!Text(page.ink, round, Nothing)
  BY <1>3, TextFacts
<1>5. /\ fresh \in {ClientPage!None} \cup [ink : Ink, round : 0..MaxChanges]
      /\ fresh # ClientPage!None => fresh.round = round
  BY <1>3
<1> HIDE DEF seen, fresh
<1>6. /\ r \in Reading /\ r.step = "read" /\ r.text = seen /\ r.fresh = fresh
      /\ r.notebook = q.notebook /\ r.seen = q.seen /\ r.gone = q.gone
  BY <1>2, <1>4, <1>5 DEF Reading
<1> HIDE DEF r
<1>7. ClientPage!Holds(w) => ReadSoFar(r)
  BY <1>1, <1>4, <1>5, <1>6 DEF PageInv, ReadInv, ReadSoFar
<1> QED
  BY <1>1, <1>6, <1>7, ReadingOn DEF ClientPage!ReadInk

\* ... then its text boxes.
LEMMA ReadTypedStep ==
  ASSUME ClientPage!PageAssumption, PageInv, NEW w \in Reader, ClientPage!ReadTyped(w)
  PROVE  PageInv'
<1> DEFINE q == working[w]
           seen == IF q.text = ClientPage!None THEN ClientPage!Text(Nothing, 0, page.typed)
                   ELSE ClientPage!Text(q.text.ink, q.text.round, page.typed)
           r == [q EXCEPT !.step = "finish", !.text = seen]
<1>1. ClientPage!Set(w, r) /\ q.step = "read"
  BY DEF ClientPage!ReadTyped
<1>2. q \in Reading
  BY <1>1 DEF PageInv, ReaderTypes, ReaderStates, ClientPage!Idle
<1>3. /\ round \in 0..MaxChanges /\ 0 \in 0..MaxChanges /\ page.ink \in Ink \cup {Nothing}
      /\ page.typed \in Typed \cup {Nothing}
  BY DEF PageInv, ReaderTypes, ClientPage!TypeOK, ClientPage!Pages, ClientPage!PageAssumption
<1>4. seen \in {ClientPage!None} \cup ClientPage!Texts
  <2>1. CASE q.text = ClientPage!None
    BY <1>3, <2>1, TextFacts
  <2>2. CASE q.text # ClientPage!None
    <3>1. q.text.ink \in Ink \cup {Nothing} /\ q.text.round \in 0..MaxChanges
      BY <1>2, <2>2 DEF Reading, ClientPage!Texts
    <3> QED
      BY <1>3, <2>2, <3>1, TextFacts
  <2> QED
    BY <2>1, <2>2
<1>5. ClientPage!Holds(w) =>
        /\ ~q.gone /\ page.live
        /\ q.text = ClientPage!Text(page.ink, round, Nothing)
        /\ q.notebook = page.notebook /\ q.seen = authored
        /\ q.fresh # ClientPage!None => q.fresh.round = round
  BY <1>1 DEF PageInv, ReadInv
<1>6. ClientPage!Holds(w) => seen = ClientPage!Text(page.ink, round, page.typed)
  BY <1>3, <1>5, TextFacts
<1> HIDE DEF seen
<1>7. /\ r \in Reading /\ r.step = "finish" /\ r.text = seen /\ r.fresh = q.fresh
      /\ r.notebook = q.notebook /\ r.seen = q.seen /\ r.gone = q.gone
  BY <1>2, <1>4 DEF Reading
<1> HIDE DEF r
<1>8. ClientPage!Holds(w) => ReadSoFar(r)
  BY <1>5, <1>6, <1>7 DEF ReadSoFar
<1> QED
  BY <1>1, <1>7, <1>8, ReadingOn DEF ClientPage!ReadTyped

\* The worker that still holds the page settles what it read.
LEMMA FinishStep ==
  ASSUME ClientPage!PageAssumption, PageInv, NEW w \in Reader, ClientPage!Finish(w)
  PROVE  PageInv'
<1> DEFINE q == working[w]
<1>1. ClientPage!Set(w, ClientPage!Idle) /\ q.step = "finish" /\ ClientPage!Holds(w)
  BY DEF ClientPage!Finish
<1>2. q \in Reading
  BY <1>1 DEF PageInv, ReaderTypes, ReaderStates, ClientPage!Idle
<1>3. /\ q.notebook = page.notebook /\ q.seen = authored
      /\ q.fresh # ClientPage!None => q.fresh.round = round
      /\ IF q.gone THEN q.text = ClientPage!None
         ELSE page.live /\ q.text = ClientPage!Text(page.ink, round, page.typed)
  BY <1>1 DEF PageInv, ReadInv
<1> HIDE DEF q
<1>4. /\ index' = IF q.text = ClientPage!None THEN ClientPage!None
                  ELSE [notebook |-> page.notebook, text |-> q.text]
      /\ authored' = q.text
      /\ cache' = IF q.fresh = ClientPage!None THEN cache ELSE q.fresh
      /\ mark' = ClientPage!Unmarked /\ given' = (q.gone /\ page.live)
      /\ UNCHANGED <<page, trash, hold, round, era, changes>>
  BY <1>3 DEF ClientPage!Finish, q
<1>5. /\ index' \in {ClientPage!None} \cup [notebook : Notebook, text : ClientPage!Texts]
      /\ authored' \in {ClientPage!None} \cup ClientPage!Texts
      /\ cache' \in {ClientPage!None} \cup [ink : Ink, round : 0..MaxChanges]
      /\ given' \in BOOLEAN
  BY <1>2, <1>4 DEF PageInv, ReaderTypes, ClientPage!TypeOK, ClientPage!Pages, Reading
<1>6. working' \in [Reader -> ReaderStates]
  BY <1>1, OthersStay DEF PageInv, ReaderStates
<1>7. ReaderTypes'
  <2>1. mark' \in ClientPage!Marks
    BY <1>4 DEF ClientPage!Marks
  <2>2. \A v \in Reader : working'[v].step \in {"idle", "claimed", "head", "ink", "read", "finish"}
    BY <1>6, StepsKnownNext
  <2> QED
    BY <1>4, <1>5, <1>6, <2>1, <2>2 DEF PageInv, ReaderTypes, ClientPage!TypeOK
<1>8. CacheInv'
  BY <1>3, <1>4 DEF PageInv, CacheInv
<1>9. SettledInv'
  BY <1>2, <1>3, <1>4 DEF SettledInv, Present, Reading
<1>10. ReadInv'
  BY <1>4 DEF ReadInv, ClientPage!Holds
<1> QED
  BY <1>7, <1>8, <1>9, <1>10 DEF PageInv

\* Every step preserves the invariant.
LEMMA PageNext ==
  ASSUME ClientPage!PageAssumption, PageInv, ClientPage!Next
  PROVE  PageInv'
BY ChangeStep, ControlStep, RestStep, ReadHeadStep, ReadInkStep, ReadTypedStep, FinishStep
   DEF ClientPage!Next, ClientPage!Step

\* A step that changes nothing.
LEMMA PageStutter ==
  ASSUME PageInv, UNCHANGED ClientPage!cvars
  PROVE  PageInv'
<1>1. ReaderTypes'
  BY DEF PageInv, ReaderTypes, ClientPage!TypeOK, ClientPage!cvars
<1> QED
  BY <1>1, Withdrawn DEF ClientPage!cvars, ClientPage!Holds

\* A page nobody waits for is indexed as it is (notes/pipeline.go:295-421).
THEOREM PagesStayCurrent == ClientPage!Spec => []IndexCurrent
<1>1. ClientPage!Init => PageInv
  BY ServerAssumption, PageInit
<1>2. PageInv /\ [ClientPage!Next]_ClientPage!cvars => PageInv'
  BY ServerAssumption, PageNext, PageStutter
<1>3. PageInv => IndexCurrent
  BY DEF PageInv, ReaderTypes, SettledInv, Present, IndexCurrent, ClientPage!IndexCurrent
<1> QED
  BY <1>1, <1>2, <1>3, PTL DEF ClientPage!Spec

-----------------------------------------------------------------------------
(* The semantic index.                                                      *)

\* Rows of work, and calls under way.
WorkRow ==
  [queued : BOOLEAN, version : Nat, lease : Embedder \cup {NoEmbedder}, attempts : Nat,
   failed : BOOLEAN]
Call ==
  [step : {"free", "claimed", "embedded"}, g : Search!Gen, p : TextPage, version : Nat,
   body : Words \cup {NoWords}]

SearchTypes ==
  /\ text \in [TextPage -> Words \cup {NoWords}] /\ enabled \in BOOLEAN
  /\ gen \in [Search!Gen -> {"none", "building", "active", "retired"}]
  /\ vectors \in [Search!Gen -> [TextPage -> Words \cup {NoWords}]]
  /\ work \in [Search!Gen -> [TextPage -> WorkRow]]
  /\ call \in [Embedder -> Call]
  /\ edits \in 0..MaxEdits

\* A row counts changes of the text at most, and waits for a retry only when its
\* attempts are used up; then nobody holds it.
RowOK(row) ==
  /\ row.version <= edits
  /\ IF row.failed THEN row.lease = NoEmbedder /\ row.attempts <= MaxTries
     ELSE row.attempts < MaxTries

WorkInv == \A g \in Search!Gen, p \in TextPage : RowOK(work[g][p])

\* One generation at most is active.
OneActive == \A g, h \in Search!Gen : gen[g] = "active" /\ gen[h] = "active" => g = h

\* What a page without work has, in a generation in use and in any other.
CurrentInv ==
  \A g \in Search!Gen, p \in TextPage :
    /\ gen[g] \in {"active", "building"} /\ ~work[g][p].queued => vectors[g][p] = text[p]
    /\ text[p] = NoWords => vectors[g][p] = NoWords

SearchInv == SearchTypes /\ WorkInv /\ OneActive /\ CurrentInv

\* The rows the code writes.
LEMMA WorkRows ==
  ASSUME Search!SearchAssumption
  PROVE  /\ Search!NoWork \in WorkRow /\ ~Search!NoWork.queued
         /\ Search!NoWork.version = 0 /\ Search!NoWork.attempts = 0 /\ ~Search!NoWork.failed
         /\ Search!New \in WorkRow /\ Search!New.queued
         /\ Search!New.version = 0 /\ Search!New.attempts = 0 /\ ~Search!New.failed
<1>1. Search!NoWork \in WorkRow /\ ~Search!NoWork.queued
  BY DEF Search!NoWork, WorkRow
<1>2. Search!NoWork.version = 0 /\ Search!NoWork.attempts = 0 /\ ~Search!NoWork.failed
  BY DEF Search!NoWork
<1>3. Search!New \in WorkRow
  BY <1>1 DEF Search!New, WorkRow
<1>4. /\ Search!New.queued
      /\ Search!New.version = 0 /\ Search!New.attempts = 0 /\ ~Search!New.failed
  BY <1>1, <1>2 DEF Search!New, WorkRow
<1> QED
  BY <1>1, <1>2, <1>3, <1>4

LEMMA FreeCall ==
  ASSUME Search!SearchAssumption
  PROVE  Search!Free \in Call
<1>1. (CHOOSE p \in TextPage : TRUE) \in TextPage
  BY DEF Search!SearchAssumption
<1>2. 1 \in Search!Gen
  BY DEF Search!SearchAssumption, Search!Gen
<1> QED
  BY <1>1, <1>2 DEF Search!Free, Call

\* The initial states satisfy the invariant.
LEMMA SearchInit ==
  ASSUME Search!SearchAssumption, Search!Init
  PROVE  SearchInv
<1>1. SearchTypes
  <2>1. work \in [Search!Gen -> [TextPage -> WorkRow]]
    BY WorkRows DEF Search!Init
  <2>2. call \in [Embedder -> Call]
    BY FreeCall DEF Search!Init
  <2>3. enabled \in BOOLEAN
    BY DEF Search!Init
  <2> QED
    BY <2>1, <2>2, <2>3 DEF SearchTypes, Search!Init, Search!SearchAssumption
<1>2. WorkInv
  BY WorkRows DEF WorkInv, RowOK, Search!Init, Search!SearchAssumption
<1>3. OneActive /\ CurrentInv
  BY DEF OneActive, CurrentInv, Search!Init
<1> QED
  BY <1>1, <1>2, <1>3 DEF SearchInv

\* A generation that becomes active had nothing left to do, and the one before it is
\* retired: no other comes into use.
LEMMA ActivatedFacts ==
  ASSUME NEW g \in Search!Gen, NEW rows,
         NEW states \in [Search!Gen -> {"none", "building", "active", "retired"}],
         \A x, y \in Search!Gen : states[x] = "active" /\ states[y] = "active" => x = y
  PROVE  LET after == Search!Activated(g, states, rows)
         IN /\ after \in [Search!Gen -> {"none", "building", "active", "retired"}]
            /\ \A x, y \in Search!Gen : after[x] = "active" /\ after[y] = "active" => x = y
            /\ \A h \in Search!Gen : after[h] \in {"active", "building"}
                                     => states[h] \in {"active", "building"}
BY DEF Search!Activated

\* A new generation is built.
LEMMA BuildStep ==
  ASSUME Search!SearchAssumption, SearchInv, Search!Build
  PROVE  SearchInv'
<1>1. PICK g \in Search!Gen :
        /\ gen[g] = "none" /\ enabled' = TRUE
        /\ work' = [work EXCEPT ![g] =
             [p \in TextPage |-> IF text[p] = NoWords THEN Search!NoWork ELSE Search!New]]
        /\ gen' = Search!Activated(g, [h \in Search!Gen |->
             IF h = g THEN "building" ELSE IF gen[h] = "building" THEN "retired" ELSE gen[h]], work')
        /\ UNCHANGED <<text, vectors, call, edits>>
  BY DEF Search!Build
<1> DEFINE states == [h \in Search!Gen |->
             IF h = g THEN "building" ELSE IF gen[h] = "building" THEN "retired" ELSE gen[h]]
<1>2. /\ states \in [Search!Gen -> {"none", "building", "active", "retired"}]
      /\ \A x, y \in Search!Gen : states[x] = "active" /\ states[y] = "active" => x = y
      /\ \A h \in Search!Gen : h # g /\ states[h] \in {"active", "building"} => gen[h] = "active"
  BY DEF SearchInv, SearchTypes, OneActive
<1>3. gen' = Search!Activated(g, states, work')
  BY <1>1
<1> HIDE DEF states
<1>4. /\ gen' \in [Search!Gen -> {"none", "building", "active", "retired"}]
      /\ OneActive'
      /\ \A h \in Search!Gen : h # g /\ gen'[h] \in {"active", "building"} => gen[h] = "active"
  BY <1>2, <1>3, ActivatedFacts DEF OneActive
<1>5. /\ work' \in [Search!Gen -> [TextPage -> WorkRow]]
      /\ \A p \in TextPage : work'[g][p] = IF text[p] = NoWords THEN Search!NoWork ELSE Search!New
      /\ \A h \in Search!Gen : h # g => work'[h] = work[h]
  BY <1>1, WorkRows DEF SearchInv, SearchTypes
<1>6. SearchTypes'
  <2>1. enabled' \in BOOLEAN
    BY <1>1
  <2> QED
    BY <1>1, <1>4, <1>5, <2>1 DEF SearchInv, SearchTypes
<1>7. WorkInv'
  <2>1. \A p \in TextPage : RowOK(work'[g][p])
    BY <1>5, WorkRows DEF SearchInv, SearchTypes, RowOK, Search!SearchAssumption
  <2> QED
    BY <1>1, <1>5, <2>1 DEF SearchInv, WorkInv, RowOK
<1>8. CurrentInv'
  <2> SUFFICES ASSUME NEW h \in Search!Gen, NEW p \in TextPage
               PROVE  /\ gen'[h] \in {"active", "building"} /\ ~work'[h][p].queued
                         => vectors'[h][p] = text'[p]
                      /\ text'[p] = NoWords => vectors'[h][p] = NoWords
    BY DEF CurrentInv
  <2>1. CASE h = g
    BY <1>1, <1>5, <2>1, WorkRows DEF SearchInv, CurrentInv
  <2>2. CASE h # g
    BY <1>1, <1>4, <1>5, <2>2 DEF SearchInv, CurrentInv
  <2> QED
    BY <2>1, <2>2
<1> QED
  BY <1>4, <1>6, <1>7, <1>8 DEF SearchInv

\* Workers are paused or resumed.
LEMMA EnableStep ==
  ASSUME SearchInv, Search!SetEmbeddingEnabled
  PROVE  SearchInv'
<1>1. enabled' \in BOOLEAN
  BY DEF Search!SetEmbeddingEnabled
<1> QED
  BY <1>1 DEF SearchInv, SearchTypes, WorkInv, RowOK, OneActive, CurrentInv,
     Search!SetEmbeddingEnabled

\* Rows change in step with their versions, and none that is done is touched.
LEMMA RowsChange ==
  ASSUME SearchInv, UNCHANGED <<text, enabled, gen, vectors, edits>>,
         work' \in [Search!Gen -> [TextPage -> WorkRow]], call' \in [Embedder -> Call],
         \A g \in Search!Gen, p \in TextPage :
           RowOK(work'[g][p]) /\ work'[g][p].queued = work[g][p].queued
  PROVE  SearchInv'
BY DEF SearchInv, SearchTypes, WorkInv, RowOK, OneActive, CurrentInv

\* Failed rows are tried again.
LEMMA RetryStep ==
  ASSUME Search!SearchAssumption, SearchInv, Search!RetryIndex
  PROVE  SearchInv'
<1>1. ASSUME NEW g \in Search!Gen, NEW p \in TextPage
      PROVE  /\ work'[g][p] \in WorkRow /\ RowOK(work'[g][p])
             /\ work'[g][p].queued = work[g][p].queued
  <2>1. work[g][p] \in WorkRow /\ RowOK(work[g][p])
    BY DEF SearchInv, SearchTypes, WorkInv
  <2>2. \/ work'[g][p] = [work[g][p] EXCEPT !.failed = FALSE, !.attempts = 0]
        \/ work'[g][p] = work[g][p]
    BY DEF Search!RetryIndex
  <2> DEFINE r == [work[g][p] EXCEPT !.failed = FALSE, !.attempts = 0]
  <2>3. /\ r \in WorkRow /\ ~r.failed /\ r.attempts = 0
        /\ r.version = work[g][p].version /\ r.queued = work[g][p].queued
    BY <2>1 DEF WorkRow
  <2> HIDE DEF r
  <2>4. RowOK(r)
    BY <2>1, <2>3 DEF RowOK, Search!SearchAssumption
  <2> QED
    BY <2>1, <2>2, <2>3, <2>4 DEF r
<1>2. work' \in [Search!Gen -> [TextPage -> WorkRow]]
  BY <1>1 DEF Search!RetryIndex
<1> QED
  BY <1>1, <1>2, RowsChange DEF Search!RetryIndex, SearchInv, SearchTypes

\* A text changes: its row is queued anew in every generation in use.
LEMMA ChangeTextStep ==
  ASSUME Search!SearchAssumption, SearchInv, Search!ChangeText
  PROVE  SearchInv'
<1>1. PICK p \in TextPage, t \in Words \cup {NoWords} :
        /\ edits < MaxEdits /\ edits' = edits + 1
        /\ text' = [text EXCEPT ![p] = t]
        /\ work' = [g \in Search!Gen |->
             IF Search!Follows(g) THEN [work[g] EXCEPT ![p] = Search!Bumped(work[g][p])] ELSE work[g]]
        /\ vectors' = IF t = NoWords
                      THEN [g \in Search!Gen |-> [vectors[g] EXCEPT ![p] = NoWords]] ELSE vectors
        /\ UNCHANGED <<enabled, gen, call>>
  BY DEF Search!ChangeText
<1>2. ASSUME NEW row \in WorkRow, RowOK(row)
      PROVE  /\ Search!Bumped(row) \in WorkRow /\ Search!Bumped(row).queued
             /\ ~Search!Bumped(row).failed /\ Search!Bumped(row).attempts = 0
             /\ Search!Bumped(row).version <= edits + 1
  <2> DEFINE v == IF row.queued THEN row.version + 1 ELSE 0
  <2>1. v \in Nat /\ v <= edits + 1
    BY <1>2 DEF WorkRow, RowOK, SearchInv, SearchTypes, Search!SearchAssumption
  <2>2. Search!Bumped(row) = [Search!New EXCEPT !.version = v]
    BY DEF Search!Bumped
  <2> HIDE DEF v
  <2> QED
    BY <2>1, <2>2, WorkRows DEF WorkRow
<1>3. /\ text' \in [TextPage -> Words \cup {NoWords}] /\ text'[p] = t
      /\ \A q \in TextPage : q # p => text'[q] = text[q]
  BY <1>1 DEF SearchInv, SearchTypes
<1>4. ASSUME NEW g \in Search!Gen
      PROVE  /\ vectors'[g] \in [TextPage -> Words \cup {NoWords}]
             /\ t = NoWords => vectors'[g][p] = NoWords
             /\ t # NoWords => vectors'[g][p] = vectors[g][p]
             /\ \A q \in TextPage : q # p => vectors'[g][q] = vectors[g][q]
  BY <1>1 DEF SearchInv, SearchTypes
<1>5. vectors' \in [Search!Gen -> [TextPage -> Words \cup {NoWords}]]
  BY <1>1, <1>4 DEF SearchInv, SearchTypes
<1>6. ASSUME NEW g \in Search!Gen
      PROVE  /\ work'[g] \in [TextPage -> WorkRow]
             /\ \A q \in TextPage : q # p => work'[g][q] = work[g][q]
             /\ \/ work'[g][p] = work[g][p] /\ ~Search!Follows(g)
                \/ work'[g][p] = Search!Bumped(work[g][p])
  <2>1. work[g] \in [TextPage -> WorkRow] /\ work[g][p] \in WorkRow /\ RowOK(work[g][p])
    BY DEF SearchInv, SearchTypes, WorkInv
  <2>2. work'[g] = IF Search!Follows(g) THEN [work[g] EXCEPT ![p] = Search!Bumped(work[g][p])]
                   ELSE work[g]
    BY <1>1
  <2> QED
    BY <1>2, <2>1, <2>2
<1>7. work' \in [Search!Gen -> [TextPage -> WorkRow]]
  BY <1>1, <1>6
<1>8. SearchTypes'
  BY <1>1, <1>3, <1>5, <1>7 DEF SearchInv, SearchTypes, Search!SearchAssumption
<1>9. WorkInv'
  <2> SUFFICES ASSUME NEW g \in Search!Gen, NEW q \in TextPage
               PROVE  RowOK(work[g][q])'
    BY DEF WorkInv
  <2>1. work[g][q] \in WorkRow /\ RowOK(work[g][q])
    BY DEF SearchInv, SearchTypes, WorkInv
  <2>2. edits \in Nat /\ edits' = edits + 1
    BY <1>1 DEF SearchInv, SearchTypes, Search!SearchAssumption
  <2>3. CASE work'[g][q] = work[g][q]
    BY <2>1, <2>2, <2>3 DEF RowOK, WorkRow
  <2>4. CASE q = p /\ work'[g][q] = Search!Bumped(work[g][q])
    BY <1>2, <2>1, <2>2, <2>4 DEF RowOK, Search!SearchAssumption
  <2> QED
    BY <1>6, <2>3, <2>4
<1>10. OneActive'
  BY <1>1 DEF SearchInv, OneActive
<1>11. CurrentInv'
  <2> SUFFICES ASSUME NEW g \in Search!Gen, NEW q \in TextPage
               PROVE  /\ gen'[g] \in {"active", "building"} /\ ~work'[g][q].queued
                         => vectors'[g][q] = text'[q]
                      /\ text'[q] = NoWords => vectors'[g][q] = NoWords
    BY DEF CurrentInv
  <2>1. CASE q = p
    <3>1. work[g][p] \in WorkRow /\ RowOK(work[g][p])
      BY DEF SearchInv, SearchTypes, WorkInv
    <3>2. gen[g] \in {"active", "building"} => work'[g][p].queued
      BY <1>2, <1>6, <3>1 DEF Search!Follows
    <3> QED
      BY <1>1, <1>3, <1>4, <2>1, <3>2
  <2>2. CASE q # p
    BY <1>1, <1>3, <1>4, <1>6, <2>2 DEF SearchInv, CurrentInv
  <2> QED
    BY <2>1, <2>2
<1> QED
  BY <1>8, <1>9, <1>10, <1>11 DEF SearchInv

\* Rows are claimed, given back or left by a worker.
LEMMA WorkerStep ==
  ASSUME Search!SearchAssumption, SearchInv, NEW w \in Embedder,
         Search!Claim(w) \/ Search!ReadText(w) \/ Search!Fail(w) \/ Search!Drop(w)
  PROVE  SearchInv'
<1>1. call[w] \in Call
  BY DEF SearchInv, SearchTypes
<1>2. CASE Search!Claim(w)
  <2>1. PICK g \in Search!Gen, p \in TextPage :
          /\ work[g][p].queued /\ ~work[g][p].failed
          /\ work' = [work EXCEPT ![g][p].lease = w]
          /\ call' = [call EXCEPT ![w] = [Search!Free EXCEPT !.step = "claimed", !.g = g, !.p = p,
                                                            !.version = work[g][p].version]]
    BY <1>2 DEF Search!Claim
  <2> DEFINE row == [work[g][p] EXCEPT !.lease = w]
             c == [Search!Free EXCEPT !.step = "claimed", !.g = g, !.p = p,
                                      !.version = work[g][p].version]
  <2>2. work[g][p] \in WorkRow /\ RowOK(work[g][p])
    BY DEF SearchInv, SearchTypes, WorkInv
  <2>3. /\ row \in WorkRow /\ row.queued = work[g][p].queued /\ row.failed = work[g][p].failed
        /\ row.version = work[g][p].version /\ row.attempts = work[g][p].attempts
    BY <2>2 DEF WorkRow
  <2>4. c \in Call
    BY <2>2, FreeCall DEF Call, WorkRow
  <2>5. /\ work' \in [Search!Gen -> [TextPage -> WorkRow]] /\ work'[g][p] = row
        /\ \A h \in Search!Gen, q \in TextPage : h # g \/ q # p => work'[h][q] = work[h][q]
    BY <2>1, <2>3 DEF SearchInv, SearchTypes
  <2> HIDE DEF row, c
  <2>6. call' \in [Embedder -> Call]
    BY <2>1, <2>4 DEF c, SearchInv, SearchTypes
  <2>7. ASSUME NEW h \in Search!Gen, NEW q \in TextPage
        PROVE  RowOK(work'[h][q]) /\ work'[h][q].queued = work[h][q].queued
    BY <2>1, <2>2, <2>3, <2>5 DEF SearchInv, WorkInv, RowOK
  <2> QED
    BY <1>2, <2>5, <2>6, <2>7, RowsChange DEF Search!Claim
<1>3. CASE Search!ReadText(w)
  <2>1. call' \in [Embedder -> Call]
    <3> DEFINE c == [call[w] EXCEPT !.step = "embedded", !.body = text[call[w].p]]
    <3>1. text[call[w].p] \in Words \cup {NoWords}
      BY <1>1 DEF Call, SearchInv, SearchTypes
    <3>2. c \in Call
      BY <1>1, <3>1 DEF Call
    <3>3. call' = [call EXCEPT ![w] = c]
      BY <1>3 DEF Search!ReadText, SearchInv, SearchTypes
    <3> QED
      BY <3>2, <3>3 DEF SearchInv, SearchTypes
  <2> QED
    BY <1>3, <2>1, RowsChange DEF Search!ReadText, SearchInv, SearchTypes, WorkInv
<1>4. CASE Search!Fail(w)
  <2> DEFINE g == call[w].g
             p == call[w].p
             row == work[g][p]
  <2>1. g \in Search!Gen /\ p \in TextPage
    BY <1>1 DEF Call
  <2>2. row \in WorkRow /\ RowOK(row)
    BY <2>1 DEF SearchInv, SearchTypes, WorkInv
  <2>3. call' \in [Embedder -> Call]
    BY <1>4, FreeCall DEF Search!Fail, SearchInv, SearchTypes
  <2>4. \/ work' = work
        \/ row.lease = w /\ work' = [work EXCEPT ![g][p] = Search!Failed(row)]
    BY <1>4 DEF Search!Fail
  <2> HIDE DEF g, p
  <2>5. CASE work' = work
    BY <1>4, <2>3, <2>5, RowsChange DEF Search!Fail, SearchInv, SearchTypes, WorkInv
  <2>6. CASE row.lease = w /\ work' = [work EXCEPT ![g][p] = Search!Failed(row)]
    <3> DEFINE f == Search!Failed(row)
    <3>1. ~row.failed /\ row.attempts \in Nat /\ row.attempts < MaxTries
      BY <2>2, <2>6 DEF RowOK, WorkRow, Search!SearchAssumption
    <3>2. /\ f \in WorkRow /\ f.queued = row.queued /\ f.version = row.version
          /\ f.attempts = row.attempts + 1 /\ (f.failed <=> row.attempts + 1 >= MaxTries)
          /\ f.lease = NoEmbedder
      <4> DEFINE n == row.attempts + 1
                 b == n >= MaxTries
      <4>1. f = [row EXCEPT !.attempts = n, !.lease = NoEmbedder, !.failed = b]
        BY DEF Search!Failed
      <4>2. n \in Nat /\ b \in BOOLEAN
        BY <3>1 DEF Search!SearchAssumption
      <4> HIDE DEF n, b, f
      <4>3. /\ f \in WorkRow /\ f.queued = row.queued /\ f.version = row.version
            /\ f.attempts = n /\ f.failed = b /\ f.lease = NoEmbedder
        BY <2>2, <4>1, <4>2 DEF WorkRow
      <4> QED
        BY <4>3 DEF n, b
    <3> HIDE DEF f
    <3>3. RowOK(f)
      BY <2>2, <3>1, <3>2 DEF RowOK, Search!SearchAssumption
    <3>4. /\ work' \in [Search!Gen -> [TextPage -> WorkRow]] /\ work'[g][p] = f
          /\ \A h \in Search!Gen, q \in TextPage : h # g \/ q # p => work'[h][q] = work[h][q]
      BY <2>1, <2>6, <3>2 DEF f, SearchInv, SearchTypes
    <3>5. ASSUME NEW h \in Search!Gen, NEW q \in TextPage
          PROVE  RowOK(work'[h][q]) /\ work'[h][q].queued = work[h][q].queued
      BY <3>2, <3>3, <3>4 DEF SearchInv, WorkInv
    <3> QED
      BY <1>4, <2>3, <3>4, <3>5, RowsChange DEF Search!Fail
  <2> QED
    BY <2>4, <2>5, <2>6
<1>5. CASE Search!Drop(w)
  <2>1. call' \in [Embedder -> Call]
    BY <1>5, FreeCall DEF Search!Drop, SearchInv, SearchTypes
  <2> QED
    BY <1>5, <2>1, RowsChange DEF Search!Drop, SearchInv, SearchTypes, WorkInv
<1> QED
  BY <1>2, <1>3, <1>4, <1>5

\* An answer is recorded: vectors of the text as it is now.
LEMMA RecordStep ==
  ASSUME Search!SearchAssumption, SearchInv, NEW w \in Embedder, Search!Record(w)
  PROVE  SearchInv'
<1> DEFINE g == call[w].g
           p == call[w].p
<1>1. g \in Search!Gen /\ p \in TextPage
  BY DEF Call, SearchInv, SearchTypes
<1>2. /\ vectors' = [vectors EXCEPT ![g][p] = text[p]]
      /\ work' = [work EXCEPT ![g][p] = Search!NoWork]
      /\ gen' = Search!Activated(g, gen, work')
      /\ call' = [call EXCEPT ![w] = Search!Free]
      /\ UNCHANGED <<text, enabled, edits>>
  BY DEF Search!Record
<1> HIDE DEF g, p
<1>3. /\ gen' \in [Search!Gen -> {"none", "building", "active", "retired"}]
      /\ OneActive'
      /\ \A h \in Search!Gen : gen'[h] \in {"active", "building"} => gen[h] \in {"active", "building"}
  <2>1. /\ gen \in [Search!Gen -> {"none", "building", "active", "retired"}]
        /\ \A x, y \in Search!Gen : gen[x] = "active" /\ gen[y] = "active" => x = y
    BY DEF SearchInv, SearchTypes, OneActive
  <2> QED
    BY <1>1, <1>2, <2>1, ActivatedFacts DEF OneActive
<1>4. /\ vectors' \in [Search!Gen -> [TextPage -> Words \cup {NoWords}]] /\ vectors'[g][p] = text[p]
      /\ \A h \in Search!Gen, q \in TextPage : h # g \/ q # p => vectors'[h][q] = vectors[h][q]
  BY <1>1, <1>2 DEF SearchInv, SearchTypes
<1>5. /\ work' \in [Search!Gen -> [TextPage -> WorkRow]] /\ work'[g][p] = Search!NoWork
      /\ \A h \in Search!Gen, q \in TextPage : h # g \/ q # p => work'[h][q] = work[h][q]
  BY <1>1, <1>2, WorkRows DEF SearchInv, SearchTypes
<1>6. SearchTypes'
  <2>1. call' \in [Embedder -> Call]
    BY <1>2, FreeCall DEF SearchInv, SearchTypes
  <2> QED
    BY <1>2, <1>3, <1>4, <1>5, <2>1 DEF SearchInv, SearchTypes
<1>7. WorkInv'
  <2>1. RowOK(Search!NoWork)
    BY WorkRows DEF RowOK, Search!SearchAssumption, SearchInv, SearchTypes
  <2> QED
    BY <1>2, <1>5, <2>1 DEF SearchInv, WorkInv, RowOK
<1>8. CurrentInv'
  <2> SUFFICES ASSUME NEW h \in Search!Gen, NEW q \in TextPage
               PROVE  /\ gen'[h] \in {"active", "building"} /\ ~work'[h][q].queued
                         => vectors'[h][q] = text'[q]
                      /\ text'[q] = NoWords => vectors'[h][q] = NoWords
    BY DEF CurrentInv
  <2>1. CASE h = g /\ q = p
    BY <1>2, <1>4, <2>1
  <2>2. CASE h # g \/ q # p
    <3>1. vectors'[h][q] = vectors[h][q] /\ work'[h][q] = work[h][q]
      BY <1>4, <1>5, <2>2
    <3> QED
      BY <1>2, <1>3, <3>1 DEF SearchInv, CurrentInv
  <2> QED
    BY <2>1, <2>2
<1> QED
  BY <1>3, <1>6, <1>7, <1>8 DEF SearchInv

\* A step that changes nothing.
LEMMA SearchStutter ==
  ASSUME SearchInv, UNCHANGED Search!evars
  PROVE  SearchInv'
BY DEF SearchInv, SearchTypes, WorkInv, RowOK, OneActive, CurrentInv, Search!evars

\* The invariant implies what the model promises.
LEMMA SearchPromised ==
  ASSUME Search!SearchAssumption, SearchInv
  PROVE  VectorsCurrent
<1>1. Search!TypeOK
  <2>1. \A g \in Search!Gen, q \in TextPage : work[g][q] \in WorkRow /\ RowOK(work[g][q])
    BY DEF SearchInv, SearchTypes, WorkInv
  <2>2. \A g \in Search!Gen, q \in TextPage :
          /\ work[g][q].lease \in Embedder \cup {NoEmbedder}
          /\ work[g][q].version \in 0..MaxEdits /\ work[g][q].attempts \in 0..MaxTries
    BY <2>1 DEF RowOK, WorkRow, SearchInv, SearchTypes, Search!SearchAssumption
  <2>3. \A w \in Embedder : call[w].step \in {"free", "claimed", "embedded"}
    BY DEF SearchInv, SearchTypes, Call
  <2> QED
    BY <2>2, <2>3 DEF Search!TypeOK, SearchInv, SearchTypes
<1>2. \A g, h \in Search!Gen : Search!Active(g) /\ Search!Active(h) => g = h
  BY DEF SearchInv, OneActive, Search!Active
<1>3. \A g \in Search!Gen, q \in TextPage :
        /\ gen[g] \in {"active", "building"} /\ ~work[g][q].queued => vectors[g][q] = text[q]
        /\ text[q] = NoWords => vectors[g][q] = NoWords
  BY DEF SearchInv, CurrentInv
<1>4. Search!VectorsCurrent
  BY <1>2, <1>3 DEF Search!VectorsCurrent
<1> QED
  BY <1>1, <1>4 DEF VectorsCurrent

\* A page with nothing left to embed has the vectors of its current text, in every
\* generation in use (providers/index.go:160-272).
THEOREM VectorsStayCurrent == Search!Spec => []VectorsCurrent
<1>1. Search!Init => SearchInv
  BY ServerAssumption, SearchInit
<1>2. SearchInv /\ [Search!Next]_Search!evars => SearchInv'
  BY ServerAssumption, BuildStep, EnableStep, RetryStep, ChangeTextStep, WorkerStep, RecordStep,
     SearchStutter DEF Search!Next
<1>3. SearchInv => VectorsCurrent
  BY ServerAssumption, SearchPromised
<1> QED
  BY <1>1, <1>2, <1>3, PTL DEF Search!Spec

-----------------------------------------------------------------------------
(* The note actions.                                                        *)

\* What a run is, or none.
RunTypes == {NoteAction!Idle} \cup NoteAction!RunState

\* A transaction that has done nothing yet, or nothing more.
Still(r) == r.todo = {} /\ r.asked = NoteAction!None /\ r.pending = {}

\* A run was claimed; outside its transaction, and for a notebook that is gone, it
\* makes nothing; it makes what no transaction committed.
RunsInv ==
  \A r \in NoteAction!Run : making[r] # NoteAction!Idle =>
    /\ r <= claims
    /\ making[r].step # "claimed" => making[r].ink \in NoteAction!Version
    /\ making[r].step # "making" \/ gone => Still(making[r])
    /\ making[r].pending \cap ledger = {}

\* Two transactions never have the same passage.
ApartInv ==
  \A q, r \in NoteAction!Run :
    q # r /\ making[q] # NoteAction!Idle /\ making[r] # NoteAction!Idle =>
      making[q].pending \cap making[r].pending = {}

\* A token is of a run that was claimed, and only a row in processing has one; the
\* row goes with the notebook.
TokenInv ==
  action # NoteAction!NoRow =>
    /\ action.token <= claims /\ ~gone
    /\ action.token # NoteAction!NoRun => action.state = "processing"

\* A run under the lease has passed over no passage.
CoverInv ==
  \A r \in NoteAction!Run : making[r] # NoteAction!Idle /\ NoteAction!Holds(r) =>
    /\ action.attempts = making[r].attempts
    /\ making[r].step = "making" =>
         PassagesOf[making[r].ink] \subseteq
           making[r].todo \cup {making[r].asked} \cup making[r].pending \cup ledger
    /\ making[r].step = "made" => PassagesOf[making[r].ink] \subseteq ledger

\* Until the notebook is gone, what was made is remembered.
LedgerInv == ~gone => \A i \in items : i[1] \in ledger

ItemInv ==
  /\ ItemsRight /\ RunsInv /\ ApartInv /\ TokenInv /\ CoverInv /\ LedgerInv

\* The fields of a run.
LEMMA RunFacts ==
  ASSUME NEW r \in RunTypes
  PROVE  /\ r # NoteAction!Idle <=> r.step # "idle"
         /\ r # NoteAction!Idle =>
              /\ r \in NoteAction!RunState
              /\ r.step \in {"claimed", "read", "making", "made"}
              /\ r.ink \in NoteAction!Version \cup {0} /\ r.attempts \in 0..MaxFailures
              /\ r.todo \subseteq Passage /\ r.pending \subseteq Passage
              /\ r.asked \in Passage \cup {NoteAction!None}
BY DEF RunTypes, NoteAction!Idle, NoteAction!RunState

\* The fields of a row.
LEMMA RowFacts ==
  ASSUME NEW row \in NoteAction!Row
  PROVE  /\ row # NoteAction!NoRow
         /\ row.token \in NoteAction!Run \cup {NoteAction!NoRun}
         /\ row.attempts \in 0..MaxFailures /\ row.input \in NoteAction!Version \cup {0}
         /\ row.state \in {"queued", "processing", "ready", "failed"}
BY DEF NoteAction!Row, NoteAction!NoRow

\* One run goes on, the others stay.
LEMMA SetFacts ==
  ASSUME NEW r \in NoteAction!Run, NEW new \in RunTypes, ItemInv, NoteAction!Set(r, new)
  PROVE  /\ making' \in [NoteAction!Run -> RunTypes] /\ making'[r] = new
         /\ \A q \in NoteAction!Run : q # r => making'[q] = making[q]
BY DEF ItemInv, ItemsRight, NoteAction!TypeOK, NoteAction!Set, RunTypes

\* The initial states satisfy the invariant.
LEMMA ItemInit ==
  ASSUME NoteAction!ActionAssumption, NoteAction!Init
  PROVE  ItemInv
<1>1. NoteAction!TypeOK
  <2>1. 1 \in NoteAction!Version /\ 0 \in 0..MaxRuns
    BY DEF NoteAction!ActionAssumption, NoteAction!Version
  <2>2. making \in [NoteAction!Run -> {NoteAction!Idle} \cup NoteAction!RunState]
    BY DEF NoteAction!Init
  <2>3. items \subseteq Passage \X NoteAction!Run
    BY DEF NoteAction!Init
  <2> QED
    BY <2>1, <2>2, <2>3 DEF NoteAction!Init, NoteAction!TypeOK, NoteAction!Actions
<1>2. \A r \in NoteAction!Run : making[r] = NoteAction!Idle
  BY DEF NoteAction!Init
<1>3. RunsInv /\ ApartInv /\ CoverInv
  BY <1>2 DEF RunsInv, ApartInv, CoverInv
<1>4. TokenInv /\ LedgerInv /\ NoteAction!OnePerPassage /\ NoteAction!MadeAll
  BY DEF NoteAction!Init, TokenInv, LedgerInv, NoteAction!OnePerPassage, NoteAction!MadeAll
<1> QED
  BY <1>1, <1>3, <1>4 DEF ItemInv, ItemsRight

\* The row changes while no run holds it, or the ink and the setting change.
LEMMA ActionRowStep ==
  ASSUME NoteAction!ActionAssumption, ItemInv,
         drawn' \in NoteAction!Version, meaning' \in NoteAction!Actions \cup {"off"},
         \/ action' = action
         \/ /\ action' \in NoteAction!Row /\ ~gone /\ action'.token = NoteAction!NoRun
            /\ action'.state = "queued",
         UNCHANGED <<making, claims, ledger, items, gone>>
  PROVE  ItemInv'
<1>1. NoteAction!TypeOK'
  BY DEF ItemInv, ItemsRight, NoteAction!TypeOK
<1>2. NoteAction!OnePerPassage' /\ RunsInv' /\ ApartInv' /\ LedgerInv'
  BY DEF ItemInv, ItemsRight, NoteAction!OnePerPassage, RunsInv, ApartInv, LedgerInv
<1>3. claims \in Nat
  BY DEF ItemInv, ItemsRight, NoteAction!TypeOK, NoteAction!ActionAssumption
<1>4. NoteAction!MadeAll' /\ TokenInv'
  BY <1>3 DEF ItemInv, ItemsRight, NoteAction!MadeAll, TokenInv, NoteAction!NoRun
<1>5. CoverInv'
  <2>1. CASE action' = action
    BY <2>1 DEF ItemInv, CoverInv, NoteAction!Holds
  <2>2. CASE action' # action
    <3>1. \A r \in NoteAction!Run : ~NoteAction!Holds(r)'
      BY <2>2 DEF NoteAction!Holds, NoteAction!Run, NoteAction!NoRun, NoteAction!ActionAssumption
    <3> QED
      BY <3>1 DEF CoverInv
  <2> QED
    BY <2>1, <2>2
<1> QED
  BY <1>1, <1>2, <1>4, <1>5 DEF ItemInv, ItemsRight

\* The owner draws, changes a setting, or ink is noted.
LEMMA OwnerItems ==
  ASSUME NoteAction!ActionAssumption, ItemInv,
         \/ NoteAction!Draw \/ NoteAction!ChangeSetting
         \/ \E v \in NoteAction!Version, force \in BOOLEAN : NoteAction!NoteInk(v, force)
  PROVE  ItemInv'
<1>1. /\ drawn \in NoteAction!Version /\ meaning \in NoteAction!Actions \cup {"off"}
      /\ action \in {NoteAction!NoRow} \cup NoteAction!Row
  BY DEF ItemInv, ItemsRight, NoteAction!TypeOK
<1>2. CASE NoteAction!Draw
  <2>1. drawn' \in NoteAction!Version
    BY <1>1, <1>2 DEF NoteAction!Draw, NoteAction!Version, NoteAction!ActionAssumption
  <2> QED
    BY <1>1, <1>2, <2>1, ActionRowStep DEF NoteAction!Draw
<1>3. CASE NoteAction!ChangeSetting
  BY <1>1, <1>3, ActionRowStep DEF NoteAction!ChangeSetting
<1>4. ASSUME NEW v \in NoteAction!Version, NEW force \in BOOLEAN, NoteAction!NoteInk(v, force)
      PROVE  ItemInv'
  <2> DEFINE i == IF action = NoteAction!NoRow THEN 0 ELSE action.input
  <2>1. i \in NoteAction!Version \cup {0}
    BY <1>1, RowFacts
  <2>2. meaning \in NoteAction!Actions
    BY <1>1, <1>4 DEF NoteAction!NoteInk
  <2>3. action' = [state |-> "queued", ink |-> v, action |-> meaning, token |-> NoteAction!NoRun,
                   attempts |-> 0, made |-> FALSE, input |-> i]
    BY <1>4 DEF NoteAction!NoteInk
  <2> HIDE DEF i
  <2>4. action' \in NoteAction!Row /\ action'.token = NoteAction!NoRun /\ action'.state = "queued"
    BY <2>1, <2>2, <2>3 DEF NoteAction!Row, NoteAction!ActionAssumption
  <2> QED
    BY <1>1, <1>4, <2>4, ActionRowStep DEF NoteAction!NoteInk
<1> QED
  BY <1>2, <1>3, <1>4

\* A run claims the row, whoever held it.
LEMMA ClaimItems ==
  ASSUME NoteAction!ActionAssumption, ItemInv, NoteAction!Claim
  PROVE  ItemInv'
<1> DEFINE r == claims + 1
           new == [step |-> "claimed", action |-> action.action, attempts |-> action.attempts,
                   ink |-> 0, todo |-> {}, asked |-> NoteAction!None, pending |-> {}]
<1>1. action \in NoteAction!Row /\ claims \in 0..MaxRuns /\ claims < MaxRuns
  BY DEF ItemInv, ItemsRight, NoteAction!TypeOK, NoteAction!Claim
<1>2. claims' = r /\ r \in NoteAction!Run /\ claims' \in 0..MaxRuns
  BY <1>1 DEF NoteAction!Claim, NoteAction!Run, NoteAction!ActionAssumption
<1>3. new \in RunTypes /\ Still(new) /\ new.step = "claimed" /\ new.attempts = action.attempts
  BY <1>1 DEF RunTypes, NoteAction!RunState, NoteAction!Row, Still
<1>4. /\ action' \in NoteAction!Row /\ action'.token = r /\ action'.state = "processing"
      /\ action'.attempts = action.attempts
  BY <1>1, <1>2 DEF NoteAction!Claim, NoteAction!Row
<1>5. NoteAction!Set(r, new)
  BY DEF NoteAction!Claim
<1>6. UNCHANGED <<drawn, meaning, ledger, items, gone>>
  BY DEF NoteAction!Claim
<1>7. r # NoteAction!NoRun /\ r > claims
  BY <1>1 DEF NoteAction!NoRun
<1> HIDE DEF r, new
<1>8. /\ making' \in [NoteAction!Run -> RunTypes] /\ making'[r] = new
      /\ \A q \in NoteAction!Run : q # r => making'[q] = making[q]
  BY <1>2, <1>3, <1>5, SetFacts
<1>9. NoteAction!TypeOK'
  BY <1>2, <1>4, <1>6, <1>8 DEF ItemInv, ItemsRight, NoteAction!TypeOK, RunTypes
<1>10. NoteAction!OnePerPassage' /\ LedgerInv' /\ NoteAction!MadeAll'
  BY <1>4, <1>6 DEF ItemInv, ItemsRight, NoteAction!OnePerPassage, LedgerInv, NoteAction!MadeAll
<1>11. RunsInv'
  <2> SUFFICES ASSUME NEW q \in NoteAction!Run, making'[q] # NoteAction!Idle
               PROVE  /\ q <= claims'
                      /\ making'[q].step # "claimed" => making'[q].ink \in NoteAction!Version
                      /\ making'[q].step # "making" \/ gone' => Still(making'[q])
                      /\ making'[q].pending \cap ledger' = {}
    BY DEF RunsInv, Still
  <2>1. CASE q = r
    BY <1>2, <1>3, <1>8, <2>1 DEF Still, NoteAction!Run
  <2>2. CASE q # r
    BY <1>1, <1>2, <1>6, <1>8, <2>2 DEF ItemInv, RunsInv, r, NoteAction!Run
  <2> QED
    BY <2>1, <2>2
<1>12. ApartInv'
  BY <1>3, <1>8 DEF ItemInv, ApartInv, Still
<1>13. TokenInv'
  BY <1>1, <1>2, <1>4, <1>6, RowFacts DEF ItemInv, TokenInv
<1>14. CoverInv'
  <2>1. \A q \in NoteAction!Run : NoteAction!Holds(q)' => q = r
    BY <1>4, RowFacts DEF NoteAction!Holds
  <2>2. making'[r].step = "claimed" /\ making'[r].attempts = action'.attempts
    BY <1>3, <1>4, <1>8
  <2> QED
    BY <2>1, <2>2 DEF CoverInv
<1> QED
  BY <1>9, <1>10, <1>11, <1>12, <1>13, <1>14 DEF ItemInv, ItemsRight

\* A run ends, and gives the row back if it holds it.
LEMMA EndRun ==
  ASSUME NoteAction!ActionAssumption, ItemInv, NEW r \in NoteAction!Run, NoteAction!End(r),
         \/ action' = action
         \/ action' \in NoteAction!Row /\ ~gone /\ action'.token = NoteAction!NoRun,
         NoteAction!MadeAll',
         UNCHANGED <<drawn, meaning, claims, ledger, items, gone>>
  PROVE  ItemInv'
<1>1. /\ making' \in [NoteAction!Run -> RunTypes] /\ making'[r] = NoteAction!Idle
      /\ \A q \in NoteAction!Run : q # r => making'[q] = making[q]
  BY SetFacts DEF NoteAction!End, RunTypes
<1>2. NoteAction!TypeOK'
  BY <1>1 DEF ItemInv, ItemsRight, NoteAction!TypeOK, RunTypes
<1>3. NoteAction!OnePerPassage' /\ LedgerInv'
  BY DEF ItemInv, ItemsRight, NoteAction!OnePerPassage, LedgerInv
<1>4. RunsInv' /\ ApartInv'
  BY <1>1 DEF ItemInv, RunsInv, ApartInv
<1>5. TokenInv'
  BY DEF ItemInv, ItemsRight, NoteAction!TypeOK, TokenInv, NoteAction!NoRun
<1>6. CoverInv'
  <2> SUFFICES ASSUME NEW q \in NoteAction!Run, making'[q] # NoteAction!Idle, NoteAction!Holds(q)'
               PROVE  q # r /\ action' = action
    BY <1>1 DEF ItemInv, CoverInv, NoteAction!Holds
  <2> QED
    BY <1>1 DEF NoteAction!Holds, NoteAction!NoRun, NoteAction!Run
<1> QED
  BY <1>2, <1>3, <1>4, <1>5, <1>6 DEF ItemInv, ItemsRight

\* A run ends early, fails, has made its items, or dies.
LEMMA EndItems ==
  ASSUME NoteAction!ActionAssumption, ItemInv, NEW r \in NoteAction!Run,
         \/ NoteAction!FinishEarly(r) \/ NoteAction!Retry(r)
         \/ NoteAction!Finish(r) \/ NoteAction!Abort(r)
  PROVE  ItemInv'
<1>1. NoteAction!End(r) /\ UNCHANGED <<drawn, meaning, claims, ledger, items, gone>>
  BY DEF NoteAction!FinishEarly, NoteAction!Retry, NoteAction!Finish, NoteAction!Abort
<1>2. CASE action' = action
  <2>1. NoteAction!MadeAll'
    BY <1>1, <1>2 DEF ItemInv, ItemsRight, NoteAction!MadeAll
  <2> QED
    BY <1>1, <1>2, <2>1, EndRun
<1>3. CASE action' # action
  <2>1. NoteAction!Holds(r)
    BY <1>3 DEF NoteAction!FinishEarly, NoteAction!Retry, NoteAction!Finish, NoteAction!Abort,
         NoteAction!FinishMade, NoteAction!Under
  <2>2. action \in NoteAction!Row /\ ~gone
    BY <2>1 DEF NoteAction!Holds, ItemInv, ItemsRight, NoteAction!TypeOK, TokenInv
  <2>3. making[r] \in RunTypes
    BY DEF ItemInv, ItemsRight, NoteAction!TypeOK, RunTypes
  <2>8. 0 \in 0..MaxFailures
    BY DEF NoteAction!ActionAssumption
  <2>4. CASE NoteAction!FinishEarly(r)
    <3>1. action' = [action EXCEPT !.state = "ready", !.made = FALSE, !.token = NoteAction!NoRun,
                                   !.attempts = 0]
      BY <2>1, <2>4 DEF NoteAction!FinishEarly, NoteAction!Under, NoteAction!Ready
    <3>2. action' \in NoteAction!Row
      BY <2>2, <2>8, <3>1 DEF NoteAction!Row
    <3>3. action'.token = NoteAction!NoRun
      BY <2>2, <3>1 DEF NoteAction!Row
    <3>4. ~action'.made
      BY <2>2, <3>1 DEF NoteAction!Row
    <3> QED
      BY <1>1, <2>2, <3>2, <3>3, <3>4, EndRun DEF NoteAction!MadeAll
  <2>5. CASE NoteAction!Retry(r)
    <3>1. /\ making[r] # NoteAction!Idle /\ making[r].attempts = action.attempts
          /\ action.attempts \in 0..MaxFailures
      BY <2>1, <2>2, <2>3, <2>5, RunFacts, RowFacts DEF NoteAction!Retry, ItemInv, CoverInv
    <3>2. \/ action' = [[action EXCEPT !.state = "ready", !.made = FALSE, !.token = NoteAction!NoRun,
                                       !.attempts = 0] EXCEPT !.state = "failed"]
          \/ /\ ~(making[r].attempts >= MaxFailures)
             /\ action' = [action EXCEPT !.state = "queued", !.attempts = action.attempts + 1,
                                         !.token = NoteAction!NoRun]
      BY <2>1, <2>5 DEF NoteAction!Retry, NoteAction!Under, NoteAction!Ready
    <3>3. making[r].attempts < MaxFailures => action.attempts + 1 \in 0..MaxFailures
      BY <3>1 DEF NoteAction!ActionAssumption
    <3>4. action' \in NoteAction!Row
      <4>1. CASE action' = [[action EXCEPT !.state = "ready", !.made = FALSE,
                                           !.token = NoteAction!NoRun, !.attempts = 0]
                            EXCEPT !.state = "failed"]
        BY <2>2, <2>8, <4>1 DEF NoteAction!Row
      <4>2. CASE /\ ~(making[r].attempts >= MaxFailures)
                 /\ action' = [action EXCEPT !.state = "queued", !.attempts = action.attempts + 1,
                                             !.token = NoteAction!NoRun]
        <5>1. action.attempts + 1 \in 0..MaxFailures
          BY <3>1, <3>3, <4>2 DEF NoteAction!ActionAssumption
        <5> QED
          BY <2>2, <4>2, <5>1 DEF NoteAction!Row
      <4> QED
        BY <3>2, <4>1, <4>2
    <3>5. action'.token = NoteAction!NoRun
      BY <2>2, <3>2 DEF NoteAction!Row
    <3>6. action'.state \in {"failed", "queued"}
      BY <2>2, <3>2 DEF NoteAction!Row
    <3> QED
      BY <1>1, <2>2, <3>4, <3>5, <3>6, EndRun DEF NoteAction!MadeAll
  <2>6. CASE NoteAction!Finish(r)
    <3>1. /\ making[r] # NoteAction!Idle /\ making[r].ink \in NoteAction!Version
          /\ PassagesOf[making[r].ink] \subseteq ledger
      BY <2>1, <2>3, <2>6, RunFacts DEF NoteAction!Finish, ItemInv, RunsInv, CoverInv
    <3>2. action' = [[action EXCEPT !.state = "ready", !.made = TRUE, !.token = NoteAction!NoRun,
                                    !.attempts = 0] EXCEPT !.input = making[r].ink]
      BY <2>1, <2>6 DEF NoteAction!Finish, NoteAction!FinishMade, NoteAction!Under, NoteAction!Ready
    <3>3. action' \in NoteAction!Row /\ action'.token = NoteAction!NoRun
      BY <2>2, <2>8, <3>1, <3>2 DEF NoteAction!Row
    <3>4. action'.input = making[r].ink
      BY <2>2, <3>2 DEF NoteAction!Row
    <3>5. NoteAction!MadeAll'
      BY <1>1, <3>1, <3>4 DEF NoteAction!MadeAll
    <3> QED
      BY <1>1, <2>2, <3>3, <3>5, EndRun
  <2>7. CASE NoteAction!Abort(r)
    BY <1>3, <2>7 DEF NoteAction!Abort
  <2> QED
    BY <2>4, <2>5, <2>6, <2>7
<1> QED
  BY <1>2, <1>3

\* A run goes on, before its transaction commits.
LEMMA GoOn ==
  ASSUME NoteAction!ActionAssumption, ItemInv, NEW r \in NoteAction!Run,
         NEW new \in RunTypes, new # NoteAction!Idle, making[r] # NoteAction!Idle,
         NoteAction!Set(r, new),
         \/ action' = action
         \/ /\ NoteAction!Holds(r) /\ action' \in NoteAction!Row
            /\ action'.token = action.token /\ action'.attempts = action.attempts
            /\ action'.state = action.state,
         new.attempts = making[r].attempts,
         new.step # "claimed" => new.ink \in NoteAction!Version,
         new.step # "making" \/ gone => Still(new),
         new.pending \cap ledger = {},
         \A q \in NoteAction!Run : q # r /\ making[q] # NoteAction!Idle =>
           making[q].pending \cap new.pending = {},
         NoteAction!Holds(r) /\ new.step = "making" =>
           PassagesOf[new.ink] \subseteq new.todo \cup {new.asked} \cup new.pending \cup ledger,
         NoteAction!Holds(r) /\ new.step = "made" => PassagesOf[new.ink] \subseteq ledger,
         UNCHANGED <<drawn, meaning, claims, ledger, items, gone>>
  PROVE  ItemInv'
<1>1. /\ making' \in [NoteAction!Run -> RunTypes] /\ making'[r] = new
      /\ \A q \in NoteAction!Run : q # r => making'[q] = making[q]
  BY SetFacts
<1>2. NoteAction!TypeOK'
  BY <1>1 DEF ItemInv, ItemsRight, NoteAction!TypeOK, RunTypes
<1>3. NoteAction!OnePerPassage' /\ LedgerInv'
  BY DEF ItemInv, ItemsRight, NoteAction!OnePerPassage, LedgerInv
<1>4. \A q \in NoteAction!Run : q = r \/ making'[q] = making[q]
  BY <1>1
<1>5. RunsInv'
  BY <1>1, <1>4 DEF ItemInv, RunsInv, Still
<1>6. ApartInv'
  <2> SUFFICES ASSUME NEW p \in NoteAction!Run, NEW q \in NoteAction!Run, p # q,
                      making'[p] # NoteAction!Idle, making'[q] # NoteAction!Idle
               PROVE  making'[p].pending \cap making'[q].pending = {}
    BY DEF ApartInv
  <2> QED
    BY <1>1, <1>4 DEF ItemInv, ApartInv
<1>7. NoteAction!Holds(r) => action \in NoteAction!Row /\ action.state = "processing" /\ ~gone
  BY DEF NoteAction!Holds, ItemInv, ItemsRight, NoteAction!TypeOK, TokenInv, NoteAction!NoRun, NoteAction!Run
<1>8. TokenInv' /\ NoteAction!MadeAll'
  BY <1>7 DEF ItemInv, ItemsRight, TokenInv, NoteAction!MadeAll, NoteAction!Holds
<1>9. \A q \in NoteAction!Run : NoteAction!Holds(q)' => NoteAction!Holds(q) /\ action'.attempts = action.attempts
  BY DEF NoteAction!Holds
<1>10. CoverInv'
  <2> SUFFICES ASSUME NEW q \in NoteAction!Run, making'[q] # NoteAction!Idle, NoteAction!Holds(q)'
               PROVE  /\ action'.attempts = making'[q].attempts
                      /\ making'[q].step = "making" =>
                           PassagesOf[making'[q].ink] \subseteq making'[q].todo \cup {making'[q].asked}
                                                              \cup making'[q].pending \cup ledger
                      /\ making'[q].step = "made" => PassagesOf[making'[q].ink] \subseteq ledger
    BY DEF CoverInv
  <2> QED
    BY <1>1, <1>4, <1>9 DEF ItemInv, CoverInv
<1> QED
  BY <1>2, <1>3, <1>5, <1>6, <1>8, <1>10 DEF ItemInv, ItemsRight

\* A run reads, begins its transaction, and goes through its passages.
LEMMA GoOnItems ==
  ASSUME NoteAction!ActionAssumption, ItemInv, NEW r \in NoteAction!Run,
         \/ NoteAction!Read(r) \/ NoteAction!BeginItems(r) \/ NoteAction!InsertPassage(r)
         \/ \E p \in Passage : NoteAction!AskPassage(r, p)
  PROVE  ItemInv'
<1> DEFINE now == making[r]
<1>1. now \in RunTypes
  BY DEF ItemInv, ItemsRight, NoteAction!TypeOK, RunTypes
<1>2. now # NoteAction!Idle /\ now.step \in {"claimed", "read", "making"}
  BY <1>1, RunFacts DEF NoteAction!Read, NoteAction!BeginItems, NoteAction!InsertPassage, NoteAction!AskPassage
<1>3. /\ now \in NoteAction!RunState /\ now.ink \in NoteAction!Version \cup {0}
      /\ now.todo \subseteq Passage /\ now.pending \subseteq Passage
      /\ now.asked \in Passage \cup {NoteAction!None}
  BY <1>1, <1>2, RunFacts
<1>4. /\ now.step # "claimed" => now.ink \in NoteAction!Version
      /\ now.step # "making" \/ gone => Still(now)
      /\ now.pending \cap ledger = {}
      /\ \A q \in NoteAction!Run : q # r /\ making[q] # NoteAction!Idle =>
           making[q].pending \cap now.pending = {}
      /\ NoteAction!Holds(r) /\ now.step = "making" =>
           PassagesOf[now.ink] \subseteq now.todo \cup {now.asked} \cup now.pending \cup ledger
  BY <1>2 DEF ItemInv, RunsInv, ApartInv, CoverInv
<1>5. /\ drawn \in NoteAction!Version
      /\ \A v \in NoteAction!Version : PassagesOf[v] \subseteq Passage
      /\ NoteAction!None \notin Passage
  BY DEF ItemInv, ItemsRight, NoteAction!TypeOK, NoteAction!ActionAssumption
<1>6. NoteAction!Holds(r) => action \in NoteAction!Row
  BY DEF NoteAction!Holds, ItemInv, ItemsRight, NoteAction!TypeOK
<1>7. CASE NoteAction!Read(r)
  <2> DEFINE new == [now EXCEPT !.step = "read", !.ink = drawn]
  <2>1. /\ NoteAction!Set(r, new) /\ now.step = "claimed"
        /\ action' = IF NoteAction!Holds(r) THEN [action EXCEPT !.input = drawn] ELSE action
        /\ UNCHANGED <<drawn, meaning, claims, ledger, items, gone>>
    BY <1>7 DEF NoteAction!Read, NoteAction!Under
  <2>2. new \in NoteAction!RunState
    BY <1>3, <1>5 DEF NoteAction!RunState
  <2>3. /\ new.step = "read" /\ new.ink = drawn /\ new.attempts = now.attempts
        /\ new.todo = now.todo /\ new.asked = now.asked /\ new.pending = now.pending
    BY <1>3 DEF NoteAction!RunState
  <2>4. NoteAction!Holds(r) =>
          /\ action' \in NoteAction!Row
          /\ action'.token = action.token /\ action'.attempts = action.attempts
          /\ action'.state = action.state
    BY <1>5, <1>6, <2>1 DEF NoteAction!Row
  <2> HIDE DEF new, now
  <2>5. new \in RunTypes /\ new # NoteAction!Idle /\ Still(new)
    BY <1>4, <2>1, <2>2, <2>3, RunFacts DEF RunTypes, Still
  <2> QED
    BY <1>2, <1>4, <1>5, <2>1, <2>3, <2>4, <2>5, GoOn DEF now
<1>8. CASE NoteAction!BeginItems(r)
  <2> DEFINE t == IF gone THEN {} ELSE PassagesOf[now.ink]
             new == [now EXCEPT !.step = "making", !.todo = t]
  <2>1. /\ NoteAction!Set(r, new) /\ now.step = "read" /\ action' = action
        /\ UNCHANGED <<drawn, meaning, claims, ledger, items, gone>>
    BY <1>8 DEF NoteAction!BeginItems
  <2>2. now.ink \in NoteAction!Version /\ t \subseteq Passage
    BY <1>4, <1>5, <2>1
  <2>3. t = IF gone THEN {} ELSE PassagesOf[now.ink]
    OBVIOUS
  <2> HIDE DEF t
  <2>4. new \in NoteAction!RunState
    BY <1>3, <2>2 DEF NoteAction!RunState
  <2>5. /\ new.step = "making" /\ new.ink = now.ink /\ new.attempts = now.attempts
        /\ new.todo = t /\ new.asked = now.asked /\ new.pending = now.pending
    BY <1>3 DEF NoteAction!RunState
  <2>6. NoteAction!Holds(r) => ~gone
    BY DEF NoteAction!Holds, ItemInv, TokenInv
  <2> HIDE DEF new, now
  <2>7. new \in RunTypes /\ new # NoteAction!Idle
    BY <2>4, <2>5, RunFacts DEF RunTypes, NoteAction!Idle
  <2>8. gone => Still(new)
    BY <1>4, <2>3, <2>5 DEF Still
  <2> QED
    BY <1>2, <1>4, <2>1, <2>2, <2>3, <2>5, <2>6, <2>7, <2>8, GoOn DEF now
<1>9. CASE NoteAction!InsertPassage(r)
  <2> DEFINE asking == now.pending \cup ({now.asked} \ ledger)
             new == [now EXCEPT !.asked = NoteAction!None, !.pending = asking]
  <2>1. /\ NoteAction!Set(r, new) /\ now.step = "making" /\ now.asked # NoteAction!None
        /\ action' = action /\ NoteAction!Unclaimed(r, now.asked)
        /\ UNCHANGED <<drawn, meaning, claims, ledger, items, gone>>
    BY <1>9 DEF NoteAction!InsertPassage
  <2>2. now.asked \in Passage /\ asking \subseteq Passage
    BY <1>3, <2>1
  <2>3. asking = now.pending \cup ({now.asked} \ ledger)
    OBVIOUS
  <2>4. ~gone
    BY <1>4, <2>1 DEF Still
  <2>5. \A q \in NoteAction!Run : q # r /\ making[q] # NoteAction!Idle => now.asked \notin making[q].pending
    BY <2>1 DEF NoteAction!Unclaimed
  <2> HIDE DEF asking
  <2>6. new \in NoteAction!RunState
    BY <1>3, <2>2 DEF NoteAction!RunState
  <2>7. /\ new.step = "making" /\ new.ink = now.ink /\ new.attempts = now.attempts
        /\ new.todo = now.todo /\ new.asked = NoteAction!None /\ new.pending = asking
    BY <1>3, <2>1 DEF NoteAction!RunState
  <2> HIDE DEF new, now
  <2>8. new \in RunTypes /\ new # NoteAction!Idle
    BY <2>6, <2>7, RunFacts DEF RunTypes, NoteAction!Idle
  <2>9. asking \cap ledger = {}
    BY <1>4, <2>3
  <2>10. \A q \in NoteAction!Run : q # r /\ making[q] # NoteAction!Idle => making[q].pending \cap asking = {}
    BY <1>4, <2>3, <2>5
  <2>11. NoteAction!Holds(r) =>
           PassagesOf[new.ink] \subseteq new.todo \cup {new.asked} \cup new.pending \cup ledger
    BY <1>4, <2>1, <2>3, <2>7
  <2>12. new.ink \in NoteAction!Version
    BY <1>4, <2>1, <2>7
  <2> QED
    BY <1>2, <2>1, <2>4, <2>7, <2>8, <2>9, <2>10, <2>11, <2>12, GoOn DEF now
<1>10. ASSUME NEW p \in Passage, NoteAction!AskPassage(r, p) PROVE ItemInv'
  <2> DEFINE a == IF NoteAction!Holds(r) THEN p ELSE NoteAction!None
             new == [now EXCEPT !.todo = now.todo \ {p}, !.asked = a]
  <2>1. /\ NoteAction!Set(r, new) /\ now.step = "making" /\ now.asked = NoteAction!None
        /\ action' = action /\ p \in now.todo
        /\ UNCHANGED <<drawn, meaning, claims, ledger, items, gone>>
    BY <1>10 DEF NoteAction!AskPassage
  <2>2. a \in Passage \cup {NoteAction!None} /\ (NoteAction!Holds(r) => a = p)
    OBVIOUS
  <2>3. ~gone
    BY <1>4, <2>1 DEF Still
  <2> HIDE DEF a
  <2>4. new \in NoteAction!RunState
    BY <1>3, <2>2 DEF NoteAction!RunState
  <2>5. /\ new.step = "making" /\ new.ink = now.ink /\ new.attempts = now.attempts
        /\ new.todo = now.todo \ {p} /\ new.asked = a /\ new.pending = now.pending
    BY <1>3, <2>1 DEF NoteAction!RunState
  <2> HIDE DEF new, now
  <2>6. new \in RunTypes /\ new # NoteAction!Idle
    BY <2>4, <2>5, RunFacts DEF RunTypes, NoteAction!Idle
  <2>7. NoteAction!Holds(r) =>
          PassagesOf[new.ink] \subseteq new.todo \cup {new.asked} \cup new.pending \cup ledger
    <3> SUFFICES ASSUME NoteAction!Holds(r), NEW x \in PassagesOf[now.ink]
                 PROVE  x \in (now.todo \ {p}) \cup {p} \cup now.pending \cup ledger
      BY <2>2, <2>5
    <3>1. x \in Passage
      BY <1>4, <1>5, <2>1
    <3> QED
      BY <1>4, <1>5, <2>1, <3>1
  <2>8. new.ink \in NoteAction!Version
    BY <1>4, <2>1, <2>5
  <2> QED
    BY <1>2, <1>4, <2>1, <2>3, <2>5, <2>6, <2>7, <2>8, GoOn DEF now
<1> QED
  BY <1>7, <1>8, <1>9, <1>10

\* The transaction commits: what it held is made, and remembered.
LEMMA CommitItemsStep ==
  ASSUME NoteAction!ActionAssumption, ItemInv, NEW r \in NoteAction!Run, NoteAction!CommitItems(r)
  PROVE  ItemInv'
<1> DEFINE now == making[r]
           new == [now EXCEPT !.step = "made", !.pending = {}]
<1>1. now \in RunTypes
  BY DEF ItemInv, ItemsRight, NoteAction!TypeOK, RunTypes
<1>2. /\ now.step = "making" /\ now.todo = {} /\ now.asked = NoteAction!None
      /\ ledger' = ledger \cup now.pending /\ items' = items \cup (now.pending \X {r})
      /\ NoteAction!Set(r, new) /\ UNCHANGED <<drawn, meaning, action, claims, gone>>
  BY DEF NoteAction!CommitItems
<1>3. now # NoteAction!Idle /\ now \in NoteAction!RunState /\ now.pending \subseteq Passage
  BY <1>1, <1>2, RunFacts
<1>4. new \in NoteAction!RunState
  BY <1>3 DEF NoteAction!RunState
<1>5. /\ new.step = "made" /\ new.ink = now.ink /\ new.attempts = now.attempts
      /\ new.todo = now.todo /\ new.asked = now.asked /\ new.pending = {}
  BY <1>3 DEF NoteAction!RunState
<1> HIDE DEF new
<1>6. new \in RunTypes /\ new # NoteAction!Idle /\ Still(new)
  BY <1>2, <1>4, <1>5, RunFacts DEF RunTypes, Still, NoteAction!Idle
<1>7. /\ making' \in [NoteAction!Run -> RunTypes] /\ making'[r] = new
      /\ \A q \in NoteAction!Run : q # r => making'[q] = making[q]
  BY <1>2, <1>6, SetFacts
<1>8. /\ r <= claims /\ now.ink \in NoteAction!Version
      /\ gone => now.pending = {}
      /\ now.pending \cap ledger = {}
  BY <1>2, <1>3 DEF ItemInv, RunsInv, Still
<1>9. NoteAction!TypeOK'
  <2>1. ledger' \subseteq Passage /\ items' \subseteq Passage \X NoteAction!Run
    BY <1>2, <1>3 DEF ItemInv, ItemsRight, NoteAction!TypeOK
  <2> QED
    BY <1>2, <1>7, <2>1 DEF ItemInv, ItemsRight, NoteAction!TypeOK, RunTypes
<1> HIDE DEF now
<1>10. NoteAction!OnePerPassage'
  <2> SUFFICES ASSUME NEW i \in items', NEW j \in items', i[1] = j[1]
               PROVE  i = j
    BY DEF NoteAction!OnePerPassage
  <2>1. ASSUME NEW k \in items' PROVE k \in items \/ k \in now.pending \X {r}
    BY <1>2
  <2>2. CASE i \in items /\ j \in items
    BY <2>2 DEF ItemInv, ItemsRight, NoteAction!OnePerPassage
  <2>3. CASE i \in now.pending \X {r} /\ j \in now.pending \X {r}
    BY <2>3
  <2>4. ASSUME NEW k \in items, NEW l \in now.pending \X {r} PROVE k[1] # l[1]
    BY <1>8, <2>4 DEF ItemInv, LedgerInv
  <2> QED
    BY <2>1, <2>2, <2>3, <2>4
<1>11. LedgerInv'
  <2> SUFFICES ASSUME ~gone, NEW i \in items' PROVE i[1] \in ledger'
    BY <1>2 DEF LedgerInv
  <2>1. CASE i \in items
    BY <1>2, <2>1 DEF ItemInv, LedgerInv
  <2>2. CASE i \in now.pending \X {r}
    BY <1>2, <2>2
  <2> QED
    BY <1>2, <2>1, <2>2
<1>12. RunsInv'
  <2> SUFFICES ASSUME NEW q \in NoteAction!Run, making'[q] # NoteAction!Idle
               PROVE  /\ q <= claims
                      /\ making'[q].step # "claimed" => making'[q].ink \in NoteAction!Version
                      /\ making'[q].step # "making" \/ gone => Still(making'[q])
                      /\ making'[q].pending \cap ledger' = {}
    BY <1>2 DEF RunsInv, Still
  <2>1. CASE q = r
    BY <1>5, <1>6, <1>7, <1>8, <2>1
  <2>2. CASE q # r
    <3>1. making[q].pending \cap now.pending = {}
      BY <1>3, <1>7, <2>2 DEF ItemInv, ApartInv, now
    <3> QED
      BY <1>2, <1>7, <2>2, <3>1 DEF ItemInv, RunsInv
  <2> QED
    BY <2>1, <2>2
<1>13. ApartInv'
  BY <1>5, <1>7 DEF ItemInv, ApartInv
<1>14. TokenInv' /\ NoteAction!MadeAll'
  BY <1>2 DEF ItemInv, ItemsRight, TokenInv, NoteAction!MadeAll
<1>15. CoverInv'
  <2> SUFFICES ASSUME NEW q \in NoteAction!Run, making'[q] # NoteAction!Idle, NoteAction!Holds(q)
               PROVE  /\ action.attempts = making'[q].attempts
                      /\ making'[q].step = "making" =>
                           PassagesOf[making'[q].ink] \subseteq making'[q].todo \cup {making'[q].asked}
                                                              \cup making'[q].pending \cup ledger'
                      /\ making'[q].step = "made" => PassagesOf[making'[q].ink] \subseteq ledger'
    BY <1>2 DEF CoverInv, NoteAction!Holds
  <2>1. CASE q = r
    <3>1. /\ action.attempts = now.attempts
          /\ PassagesOf[now.ink] \subseteq now.todo \cup {now.asked} \cup now.pending \cup ledger
      BY <1>2, <1>3, <2>1 DEF ItemInv, CoverInv, now
    <3>2. PassagesOf[now.ink] \subseteq Passage /\ NoteAction!None \notin Passage
      BY <1>8 DEF NoteAction!ActionAssumption
    <3>3. PassagesOf[now.ink] \subseteq ledger'
      BY <1>2, <3>1, <3>2
    <3> QED
      BY <1>5, <1>7, <2>1, <3>1, <3>3
  <2>2. CASE q # r
    BY <1>2, <1>7, <2>2 DEF ItemInv, CoverInv
  <2> QED
    BY <2>1, <2>2
<1> QED
  BY <1>9, <1>10, <1>11, <1>12, <1>13, <1>14, <1>15 DEF ItemInv, ItemsRight

\* The notebook is purged, and later what was remembered of it.
LEMMA PurgeItems ==
  ASSUME NoteAction!ActionAssumption, ItemInv, NoteAction!Purge \/ NoteAction!PurgeRows
  PROVE  ItemInv'
<1>1. /\ gone' /\ gone' \in BOOLEAN /\ action' = NoteAction!NoRow
      /\ ledger' \subseteq ledger /\ ledger' \subseteq Passage
      /\ UNCHANGED <<drawn, meaning, making, claims, items>>
  BY DEF NoteAction!Purge, NoteAction!PurgeRows, ItemInv, ItemsRight, NoteAction!TypeOK, TokenInv
<1>2. NoteAction!TypeOK'
  BY <1>1 DEF ItemInv, ItemsRight, NoteAction!TypeOK
<1>3. RunsInv'
  BY <1>1 DEF NoteAction!Purge, NoteAction!PurgeRows, ItemInv, RunsInv, Still
<1>4. ApartInv' /\ NoteAction!OnePerPassage'
  BY <1>1 DEF ItemInv, ItemsRight, ApartInv, NoteAction!OnePerPassage
<1>5. TokenInv' /\ CoverInv' /\ LedgerInv' /\ NoteAction!MadeAll'
  BY <1>1 DEF TokenInv, CoverInv, LedgerInv, NoteAction!MadeAll, NoteAction!Holds
<1> QED
  BY <1>2, <1>3, <1>4, <1>5 DEF ItemInv, ItemsRight

\* Every step preserves the invariant.
LEMMA ItemNext ==
  ASSUME NoteAction!ActionAssumption, ItemInv, NoteAction!Next
  PROVE  ItemInv'
BY OwnerItems, ClaimItems, EndItems, GoOnItems, CommitItemsStep, PurgeItems
DEF NoteAction!Next, NoteAction!Process

\* A step that changes nothing.
LEMMA ItemStutter ==
  ASSUME ItemInv, UNCHANGED NoteAction!nvars
  PROVE  ItemInv'
<1>1. ItemsRight' /\ LedgerInv'
  BY DEF ItemInv, ItemsRight, NoteAction!TypeOK, NoteAction!OnePerPassage, NoteAction!MadeAll, LedgerInv,
     NoteAction!nvars
<1>2. RunsInv' /\ ApartInv' /\ TokenInv' /\ CoverInv'
  BY DEF ItemInv, RunsInv, Still, ApartInv, TokenInv, CoverInv, NoteAction!Holds, NoteAction!nvars
<1> QED
  BY <1>1, <1>2 DEF ItemInv

\* A passage becomes one task or event, whichever runs overlap, and a row that says its
\* items were made has one for every passage of the ink it read
\* (boox/note_actions.go:315-391).
THEOREM ItemsStayRight == NoteAction!Spec => []ItemsRight
<1>1. NoteAction!Init => ItemInv
  BY ServerAssumption, ItemInit
<1>2. ItemInv /\ [NoteAction!Next]_(NoteAction!nvars) => ItemInv'
  BY ServerAssumption, ItemNext, ItemStutter
<1>3. ItemInv => ItemsRight
  BY DEF ItemInv
<1> QED
  BY <1>1, <1>2, <1>3, PTL DEF NoteAction!Spec

-----------------------------------------------------------------------------
(* The AI settings.                                                         *)

\* What a tab shows or is about to save, and what a pass remembers.
TabTypes ==
  {Settings!Closed} \cup [stage : {"shown"}, revision : 1..MaxSaves]
  \cup [stage : {"candidate"}, form : Settings!Form, revision : 1..MaxSaves, config : Settings!Config]

PassTypes ==
  {Settings!Idle} \cup [stage : {"loaded", "inserted"}, reset : 1..MaxClock]
  \cup [stage : {"started"}, reset : 1..MaxClock, start : 1..MaxClock]
  \cup [stage : {"read"}, reset : 1..MaxClock, since : 0..MaxClock]

SettingsTypes ==
  /\ settings \in [revision : 1..MaxSaves, config : Settings!Config]
  /\ since \in 0..MaxClock /\ reset \in 1..MaxClock
  /\ tab \in [Tab -> TabTypes] /\ pass \in [Pass -> PassTypes]
  /\ book \in [changed : 0..MaxClock, pending : BOOLEAN]
  /\ clock \in 1..MaxClock /\ swept \in BOOLEAN /\ late \in BOOLEAN

\* Two settings agree on what a form does not carry.
Agree(form, c, d) ==
  /\ form # "models" => /\ c.recognition = d.recognition /\ c.semantic = d.semantic
  /\ form # "minutes" => c.summary = d.summary
  /\ form = "minutes" => c.automatic = d.automatic

\* A candidate was made of the row at its revision, which it changes only in what its
\* form carries.
CandidateInv ==
  \A t \in Tab : tab[t].stage = "candidate" =>
    /\ tab[t].revision <= settings.revision
    /\ Settings!Keyed(tab[t].config)
    /\ tab[t].revision = settings.revision => Agree(tab[t].form, tab[t].config, settings.config)

\* A start in force, and one a pass has read, is of the present choice unless it was
\* saved late.
ClockInv ==
  /\ reset <= clock
  /\ since # 0 => since >= reset \/ late
  /\ \A p \in Pass : pass[p] # Settings!Idle => pass[p].reset <= reset
  /\ \A p \in Pass : pass[p].stage = "read" => pass[p].since >= pass[p].reset \/ late
  /\ swept => late

SettingsInv == SettingsTypes /\ Settings!Keyed(settings.config) /\ CandidateInv /\ ClockInv

\* The parts of the settings.
LEMMA ConfigFacts ==
  ASSUME NEW c \in Settings!Config
  PROVE  /\ DOMAIN c = {"recognition", "summary", "automatic", "semantic"}
         /\ c.recognition \in Settings!Endpoint /\ c.summary \in Settings!Endpoint
         /\ c.automatic \in [recognize : BOOLEAN, summarize : BOOLEAN]
         /\ c.semantic \in BOOLEAN
         /\ Settings!Keyed(c) <=>
              /\ c.recognition.key \in {NoUrl, c.recognition.url}
              /\ c.summary.key \in {NoUrl, c.summary.url}
BY DEF Settings!Config, Settings!Keyed, Settings!Provider

\* What agrees on the parts agrees on the fields outside what the form carries.
LEMMA AgreeFacts ==
  ASSUME NEW form \in Settings!Form, NEW c \in Settings!Config, NEW d \in Settings!Config,
         Agree(form, c, d)
  PROVE  \A part \in DOMAIN d \ Settings!Carried(form) : c[part] = d[part]
<1> SUFFICES ASSUME NEW part \in {"recognition", "summary", "automatic", "semantic"},
                    part \notin Settings!Carried(form)
             PROVE  c[part] = d[part]
  BY ConfigFacts
<1>1. CASE form = "models"
  BY <1>1 DEF Agree, Settings!Carried
<1>2. CASE form = "minutes"
  BY <1>2 DEF Agree, Settings!Carried
<1>3. CASE form = "automatic"
  BY <1>3 DEF Agree, Settings!Carried
<1> QED
  BY <1>1, <1>2, <1>3 DEF Settings!Form

\* A form leaves an endpoint with a key that was typed for it, or none.
LEMMA EndpointFacts ==
  ASSUME NEW e \in Settings!Endpoint, e.key \in {NoUrl, e.url}, NEW n \in Settings!EndpointEdits(e)
  PROVE  n \in Settings!Endpoint /\ n.key \in {NoUrl, n.url}
<1>1. PICK url \in Settings!Addresses, on \in BOOLEAN : n \in Settings!KeyChanges(e, url, on)
  BY DEF Settings!EndpointEdits
<1>2. \/ n = [url |-> url, on |-> on, key |-> url]
      \/ n = [url |-> url, on |-> on, key |-> NoUrl]
      \/ n = [url |-> url, on |-> on, key |-> e.key] /\ (e.key = NoUrl \/ url = e.url)
  BY <1>1 DEF Settings!KeyChanges
<1>3. e.key \in Settings!Addresses /\ NoUrl \in Settings!Addresses
  BY DEF Settings!Endpoint, Settings!Addresses
<1> QED
  BY <1>2, <1>3 DEF Settings!Endpoint

\* A candidate of a form.
LEMMA CandidateFacts ==
  ASSUME Settings!SettingsAssumption, NEW c \in Settings!Config, Settings!Keyed(c),
         NEW form \in Settings!Form, NEW d \in Settings!Candidates(form, c)
  PROVE  d \in Settings!Config /\ Settings!Keyed(d) /\ Agree(form, d, c)
<1>1. CASE form = "models"
  <2> DEFINE a == Settings!Defaults.automatic
  <2>0. PICK e \in Settings!EndpointEdits(c.recognition), b \in BOOLEAN :
          d = Settings!ModelsForm(c, e, b)
    BY <1>1 DEF Settings!Candidates, Settings!ModelsCandidates
  <2>1. d = [c EXCEPT !.recognition = e, !.semantic = b, !.automatic = a]
    BY <2>0 DEF Settings!ModelsForm
  <2>2. a \in [recognize : BOOLEAN, summarize : BOOLEAN]
    BY DEF Settings!Defaults
  <2>3. e \in Settings!Endpoint /\ e.key \in {NoUrl, e.url}
    BY ConfigFacts, EndpointFacts
  <2> HIDE DEF a
  <2>4. d \in Settings!Config
    BY <2>1, <2>2, <2>3 DEF Settings!Config, a
  <2>5. d.recognition = e /\ d.summary = c.summary
    BY <2>1 DEF Settings!Config
  <2> QED
    BY <1>1, <2>3, <2>4, <2>5, ConfigFacts DEF Agree
<1>2. CASE form = "minutes"
  <2>1. PICK e \in Settings!EndpointEdits(c.summary) : d = [c EXCEPT !.summary = e]
    BY <1>2 DEF Settings!Candidates, Settings!MinutesCandidates
  <2>2. e \in Settings!Endpoint /\ e.key \in {NoUrl, e.url}
    BY ConfigFacts, EndpointFacts
  <2>3. d \in Settings!Config
    BY <2>1, <2>2 DEF Settings!Config
  <2>4. /\ d.summary = e /\ d.recognition = c.recognition /\ d.automatic = c.automatic
        /\ d.semantic = c.semantic
    BY <2>1 DEF Settings!Config
  <2> QED
    BY <1>2, <2>2, <2>3, <2>4, ConfigFacts DEF Agree
<1>3. CASE form = "automatic"
  <2>1. PICK a \in [recognize : BOOLEAN, summarize : BOOLEAN] : d = [c EXCEPT !.automatic = a]
    BY <1>3 DEF Settings!Candidates, Settings!AutomaticCandidates
  <2>2. d \in Settings!Config
    BY <2>1 DEF Settings!Config
  <2>3. /\ d.summary = c.summary /\ d.recognition = c.recognition /\ d.semantic = c.semantic
    BY <2>1 DEF Settings!Config
  <2> QED
    BY <1>3, <2>2, <2>3, ConfigFacts DEF Agree
<1> QED
  BY <1>1, <1>2, <1>3 DEF Settings!Form

\* The fields of a tab and of a pass.
LEMMA TabFacts ==
  ASSUME NEW t \in TabTypes
  PROVE  /\ t.stage \in {"closed", "shown", "candidate"}
         /\ t.stage # "closed" => t.revision \in 1..MaxSaves
         /\ t.stage = "candidate" => t.form \in Settings!Form /\ t.config \in Settings!Config
BY DEF TabTypes, Settings!Closed

LEMMA PassFacts ==
  ASSUME NEW p \in PassTypes
  PROVE  /\ p.stage \in {"idle", "loaded", "started", "inserted", "read"}
         /\ p = Settings!Idle <=> p.stage = "idle"
         /\ p # Settings!Idle => p.reset \in 1..MaxClock
         /\ p.stage = "started" => p.start \in 1..MaxClock
         /\ p.stage = "read" => p.since \in 0..MaxClock
BY DEF PassTypes, Settings!Idle

\* The initial states satisfy the invariant.
LEMMA SettingsInit ==
  ASSUME Settings!SettingsAssumption, Settings!Init
  PROVE  SettingsInv
<1>1. /\ Settings!Defaults \in Settings!Config
      /\ Settings!Defaults.recognition = Deployed /\ Settings!Defaults.summary.key = NoUrl
  BY DEF Settings!SettingsAssumption, Settings!Defaults, Settings!Config, Settings!Endpoint, Settings!Addresses
<1>2. Settings!Keyed(Settings!Defaults)
  BY <1>1, ConfigFacts DEF Settings!SettingsAssumption
<1>3. 1 \in 1..MaxSaves /\ 1 \in 1..MaxClock /\ 0 \in 0..MaxClock
  BY DEF Settings!SettingsAssumption
<1>4. /\ tab \in [Tab -> TabTypes] /\ pass \in [Pass -> PassTypes]
      /\ \A t \in Tab : tab[t].stage = "closed" /\ \A p \in Pass : pass[p] = Settings!Idle
  BY DEF Settings!Init, TabTypes, PassTypes, Settings!Closed
<1>5. /\ settings \in [revision : 1..MaxSaves, config : Settings!Config]
      /\ settings.config = Settings!Defaults
  BY <1>1, <1>3 DEF Settings!Init
<1>6. SettingsTypes
  BY <1>3, <1>4, <1>5 DEF Settings!Init, SettingsTypes
<1>7. CandidateInv
  BY <1>4 DEF CandidateInv
<1>8. \A p \in Pass : pass[p] = Settings!Idle /\ pass[p].stage = "idle"
  BY DEF Settings!Init, Settings!Idle
<1>9. ClockInv
  BY <1>3, <1>8 DEF Settings!Init, ClockInv
<1> QED
  BY <1>2, <1>5, <1>6, <1>7, <1>9 DEF SettingsInv

\* What one tab shows or is about to save changes.
LEMMA TabStep ==
  ASSUME SettingsInv, NEW t \in Tab, NEW x \in TabTypes, tab' = [tab EXCEPT ![t] = x],
         x.stage = "candidate" =>
           /\ x.revision <= settings.revision /\ Settings!Keyed(x.config)
           /\ x.revision = settings.revision => Agree(x.form, x.config, settings.config),
         UNCHANGED <<settings, since, pass, book, clock, reset, swept, late>>
  PROVE  SettingsInv'
<1>1. tab' \in [Tab -> TabTypes] /\ \A q \in Tab : tab'[q] = IF q = t THEN x ELSE tab[q]
  BY DEF SettingsInv, SettingsTypes
<1>2. SettingsTypes'
  BY <1>1 DEF SettingsInv, SettingsTypes
<1>3. CandidateInv'
  <2> SUFFICES ASSUME NEW q \in Tab, tab'[q].stage = "candidate"
               PROVE  /\ tab'[q].revision <= settings.revision
                      /\ Settings!Keyed(tab'[q].config)
                      /\ tab'[q].revision = settings.revision =>
                           Agree(tab'[q].form, tab'[q].config, settings.config)
    BY DEF CandidateInv, Settings!Keyed, Agree
  <2>1. CASE q = t
    BY <1>1, <2>1
  <2>2. CASE q # t
    BY <1>1, <2>2 DEF SettingsInv, CandidateInv
  <2> QED
    BY <2>1, <2>2
<1>4. ClockInv' /\ Settings!Keyed(settings.config)'
  BY DEF SettingsInv, ClockInv, Settings!Keyed
<1> QED
  BY <1>2, <1>3, <1>4 DEF SettingsInv

\* A new revision of the row: candidates of other tabs are of an earlier one.
LEMMA RowSaved ==
  ASSUME Settings!SettingsAssumption, SettingsInv, NEW t \in Tab, NEW c \in Settings!Config,
         Settings!Keyed(c), settings.revision < MaxSaves,
         settings' = [revision |-> settings.revision + 1, config |-> c],
         tab' = [tab EXCEPT ![t] = Settings!Closed],
         \/ UNCHANGED <<since, reset>>
         \/ since' = 0 /\ reset' = clock,
         UNCHANGED <<pass, book, clock, swept, late>>
  PROVE  SettingsInv'
<1>1. /\ tab' \in [Tab -> TabTypes]
      /\ \A q \in Tab : tab'[q] = IF q = t THEN Settings!Closed ELSE tab[q]
  BY DEF SettingsInv, SettingsTypes, TabTypes
<1>2. settings.revision \in 1..MaxSaves /\ MaxSaves \in Nat /\ MaxClock \in Nat
  BY DEF SettingsInv, SettingsTypes, Settings!SettingsAssumption
<1>3. settings.revision + 1 \in 1..MaxSaves
  BY <1>2
<1>4. /\ settings' \in [revision : 1..MaxSaves, config : Settings!Config]
      /\ settings'.config = c /\ settings'.revision = settings.revision + 1
  BY <1>3
<1>5. since' \in 0..MaxClock /\ reset' \in 1..MaxClock
  BY <1>2 DEF SettingsInv, SettingsTypes
<1>6. SettingsTypes'
  BY <1>1, <1>4, <1>5 DEF SettingsInv, SettingsTypes
<1>7. CandidateInv'
  <2> SUFFICES ASSUME NEW q \in Tab, tab'[q].stage = "candidate"
               PROVE  /\ tab'[q].revision < settings'.revision
                      /\ Settings!Keyed(tab'[q].config)
    <3>1. \A q \in Tab : tab'[q] \in TabTypes
      BY <1>1
    <3>2. \A q \in Tab : tab'[q].stage = "candidate" => tab'[q].revision \in 1..MaxSaves
      BY <3>1, TabFacts
    <3>3. \A q \in Tab : tab'[q].stage = "candidate" =>
            tab'[q].revision <= settings'.revision /\ tab'[q].revision # settings'.revision
      BY <3>2, <1>2, <1>4
    <3> QED
      BY <3>3 DEF CandidateInv, Settings!Keyed, Agree
  <2>1. q # t /\ tab'[q] = tab[q]
    BY <1>1 DEF Settings!Closed
  <2>2. tab[q].revision <= settings.revision /\ Settings!Keyed(tab[q].config)
    BY <2>1 DEF SettingsInv, CandidateInv
  <2>3. tab[q].revision \in 1..MaxSaves
    BY <2>1, TabFacts DEF SettingsInv, SettingsTypes
  <2> QED
    BY <1>2, <1>4, <2>1, <2>2, <2>3
<1>8. Settings!Keyed(settings.config)'
  BY <1>4 DEF Settings!Keyed
<1>9. ClockInv'
  <2>1. \A p \in Pass : pass[p] \in PassTypes
    BY DEF SettingsInv, SettingsTypes
  <2>2. \A p \in Pass : pass[p] # Settings!Idle => pass[p].reset \in 1..MaxClock
    BY <2>1, PassFacts
  <2>3. reset \in 1..MaxClock /\ clock \in 1..MaxClock
    BY DEF SettingsInv, SettingsTypes
  <2>4. reset' <= clock /\ reset <= reset'
    BY <1>2, <2>3 DEF SettingsInv, ClockInv
  <2>5. \A p \in Pass : pass[p] # Settings!Idle => pass[p].reset <= reset'
    BY <1>2, <1>5, <2>2, <2>3, <2>4 DEF SettingsInv, ClockInv
  <2>6. since' # 0 => since' >= reset' \/ late
    BY DEF SettingsInv, ClockInv
  <2> QED
    BY <2>4, <2>5, <2>6 DEF SettingsInv, ClockInv
<1> QED
  BY <1>6, <1>7, <1>8, <1>9 DEF SettingsInv

\* A pass goes on: a start it saves or has read is of the choice it loaded, or late.
LEMMA PassStep ==
  ASSUME SettingsInv, NEW p \in Pass, NEW x \in PassTypes, pass' = [pass EXCEPT ![p] = x],
         x # Settings!Idle => x.reset <= reset,
         x.stage = "read" => x.since >= x.reset \/ late',
         since' \in 0..MaxClock, since' # 0 => since' >= reset \/ late',
         late' \in BOOLEAN, late => late', swept' \in BOOLEAN, swept' => late',
         book' \in [changed : 0..MaxClock, pending : BOOLEAN],
         UNCHANGED <<settings, tab, clock, reset>>
  PROVE  SettingsInv'
<1>1. pass' \in [Pass -> PassTypes] /\ \A q \in Pass : pass'[q] = IF q = p THEN x ELSE pass[q]
  BY DEF SettingsInv, SettingsTypes
<1>2. SettingsTypes'
  BY <1>1 DEF SettingsInv, SettingsTypes
<1>3. CandidateInv' /\ Settings!Keyed(settings.config)'
  BY DEF SettingsInv, CandidateInv, Settings!Keyed, Agree
<1>4. ClockInv'
  BY <1>1 DEF SettingsInv, ClockInv
<1> QED
  BY <1>2, <1>3, <1>4 DEF SettingsInv

\* Each action of a tab preserves the invariant.
LEMMA TabKeeps ==
  ASSUME Settings!SettingsAssumption, SettingsInv, NEW t \in Tab,
         Settings!Show(t) \/ Settings!Submit(t) \/ Settings!Save(t) \/ Settings!Test(t)
           \/ Settings!SetSemantic(t)
  PROVE  SettingsInv'
<1> DEFINE r == settings.revision
           c == settings.config
<1>1. /\ r \in 1..MaxSaves /\ c \in Settings!Config /\ Settings!Keyed(c)
      /\ tab[t] \in TabTypes
  BY DEF SettingsInv, SettingsTypes
<1>2. /\ tab[t].stage # "closed" => tab[t].revision \in 1..MaxSaves
      /\ tab[t].stage = "candidate" =>
           tab[t].form \in Settings!Form /\ tab[t].config \in Settings!Config
  BY <1>1, TabFacts
<1>3. CASE Settings!Show(t)
  <2> DEFINE x == [stage |-> "shown", revision |-> r]
  <2>1. x \in TabTypes /\ x.stage # "candidate"
    BY <1>1 DEF TabTypes
  <2>2. /\ tab' = [tab EXCEPT ![t] = x]
        /\ UNCHANGED <<settings, since, pass, book, clock, reset, swept, late>>
    BY <1>3 DEF Settings!Show
  <2> QED
    BY <2>1, <2>2, TabStep
<1>4. CASE Settings!Submit(t)
  <2>1. PICK form \in Settings!Form : \E d \in Settings!Candidates(form, c) :
          tab' = [tab EXCEPT ![t] = [stage |-> "candidate", form |-> form,
                                     revision |-> r, config |-> d]]
    BY <1>4 DEF Settings!Submit
  <2>2. PICK d \in Settings!Candidates(form, c) :
          tab' = [tab EXCEPT ![t] = [stage |-> "candidate", form |-> form,
                                     revision |-> r, config |-> d]]
    BY <2>1
  <2>3. d \in Settings!Config /\ Settings!Keyed(d) /\ Agree(form, d, c)
    BY <1>1, CandidateFacts
  <2> DEFINE x == [stage |-> "candidate", form |-> form, revision |-> r, config |-> d]
  <2>4. /\ x \in TabTypes /\ x.revision = r /\ x.config = d /\ x.form = form
    BY <1>1, <2>3 DEF TabTypes
  <2>5. UNCHANGED <<settings, since, pass, book, clock, reset, swept, late>>
    BY <1>4 DEF Settings!Submit
  <2>6. tab' = [tab EXCEPT ![t] = x] /\ x.revision <= r
    BY <1>1, <2>2, <2>4
  <2> HIDE DEF x
  <2> QED
    BY <2>3, <2>4, <2>5, <2>6, TabStep
<1>5. CASE Settings!Save(t)
  <2> DEFINE d == tab[t].config
  <2>1. /\ tab[t].stage = "candidate" /\ r < MaxSaves
        /\ tab' = [tab EXCEPT ![t] = Settings!Closed]
        /\ UNCHANGED <<pass, book, clock, swept, late>>
    BY <1>5 DEF Settings!Save
  <2>2. d \in Settings!Config /\ Settings!Keyed(d)
    BY <1>2, <2>1 DEF SettingsInv, CandidateInv
  <2>3. CASE Settings!Fresh(tab[t])
    <3>1. settings' = [revision |-> r + 1, config |-> d]
      BY <1>5, <2>3 DEF Settings!Save
    <3>2. since' = IF Settings!Restarts(c, d) THEN 0 ELSE since
      BY <1>5, <2>3 DEF Settings!Save
    <3>3. reset' = IF Settings!Chosen(c) # Settings!Chosen(d) THEN clock ELSE reset
      BY <1>5, <2>3 DEF Settings!Save
    <3>4. UNCHANGED <<since, reset>> \/ (since' = 0 /\ reset' = clock)
      <4> DEFINE a == Settings!Chosen(c)
                 b == Settings!Chosen(d)
      <4>1. since' = IF a # b THEN 0 ELSE since
        BY <3>2 DEF Settings!Restarts
      <4>2. reset' = IF a # b THEN clock ELSE reset
        BY <3>3
      <4> HIDE DEF a, b
      <4> QED
        BY <4>1, <4>2
    <3> HIDE DEF d
    <3> QED
      BY <2>1, <2>2, <3>1, <3>4, RowSaved
  <2>4. CASE ~Settings!Fresh(tab[t])
    <3>1. UNCHANGED <<settings, since, reset>>
      BY <1>5, <2>4 DEF Settings!Save
    <3>2. Settings!Closed \in TabTypes /\ Settings!Closed.stage # "candidate"
      BY DEF TabTypes, Settings!Closed
    <3> QED
      BY <2>1, <3>1, <3>2, TabStep
  <2> QED
    BY <2>3, <2>4
<1>6. CASE Settings!Test(t)
  <2> DEFINE x == [stage |-> "shown", revision |-> tab[t].revision]
  <2>1. x \in TabTypes /\ x.stage # "candidate"
    BY <1>2, <1>6 DEF TabTypes, Settings!Test
  <2>2. /\ tab' = [tab EXCEPT ![t] = x]
        /\ UNCHANGED <<settings, since, pass, book, clock, reset, swept, late>>
    BY <1>6 DEF Settings!Test
  <2> QED
    BY <2>1, <2>2, TabStep
<1>7. CASE Settings!SetSemantic(t)
  <2> DEFINE d == [c EXCEPT !.semantic = ~c.semantic]
  <2>1. d \in Settings!Config /\ d.recognition = c.recognition /\ d.summary = c.summary
    BY <1>1 DEF Settings!Config
  <2>2. Settings!Keyed(d)
    <3> HIDE DEF d
    <3> QED
      BY <1>1, <2>1, ConfigFacts
  <2>3. /\ r < MaxSaves /\ settings' = [revision |-> r + 1, config |-> d]
        /\ tab' = [tab EXCEPT ![t] = Settings!Closed]
        /\ UNCHANGED <<since, pass, book, clock, reset, swept, late>>
    BY <1>7 DEF Settings!SetSemantic
  <2> HIDE DEF d
  <2> QED
    BY <2>1, <2>2, <2>3, RowSaved
<1> QED
  BY <1>3, <1>4, <1>5, <1>6, <1>7

\* Each action of a pass preserves the invariant.
LEMMA PassKeeps ==
  ASSUME Settings!SettingsAssumption, SettingsInv, NEW p \in Pass,
         Settings!Load(p) \/ Settings!Start(p) \/ Settings!Insert(p) \/ Settings!Read(p)
           \/ Settings!Queue(p) \/ Settings!Abandon(p)
  PROVE  SettingsInv'
<1>1. /\ reset \in 1..MaxClock /\ clock \in 1..MaxClock /\ since \in 0..MaxClock
      /\ book \in [changed : 0..MaxClock, pending : BOOLEAN]
      /\ pass[p] \in PassTypes /\ MaxClock \in Nat
  BY DEF SettingsInv, SettingsTypes, Settings!SettingsAssumption
<1>2. late \in BOOLEAN /\ swept \in BOOLEAN /\ (swept => late)
  BY DEF SettingsInv, SettingsTypes, ClockInv
<1>3. /\ reset <= clock /\ (since # 0 => since >= reset \/ late)
      /\ pass[p] # Settings!Idle => pass[p].reset <= reset
      /\ pass[p].stage = "read" => pass[p].since >= pass[p].reset \/ late
  BY DEF SettingsInv, ClockInv
<1>4. /\ pass[p] = Settings!Idle <=> pass[p].stage = "idle"
      /\ pass[p] # Settings!Idle => pass[p].reset \in 1..MaxClock
      /\ pass[p].stage = "started" => pass[p].start \in 1..MaxClock
      /\ pass[p].stage = "read" => pass[p].since \in 0..MaxClock
  BY <1>1, PassFacts
<1>5. Settings!Idle \in PassTypes /\ Settings!Idle.stage = "idle"
  BY DEF PassTypes, Settings!Idle
<1>6. CASE Settings!Load(p)
  <2> DEFINE x == [stage |-> "loaded", reset |-> reset]
  <2>1. x \in PassTypes /\ x.reset <= reset /\ x.stage # "read"
    BY <1>1 DEF PassTypes
  <2>2. /\ pass' = [pass EXCEPT ![p] = x]
        /\ UNCHANGED <<settings, since, tab, book, clock, reset, swept, late>>
    BY <1>6 DEF Settings!Load
  <2> HIDE DEF x
  <2> QED
    BY <1>1, <1>2, <1>3, <2>1, <2>2, PassStep
<1>7. CASE Settings!Start(p)
  <2> DEFINE x == [stage |-> "started", reset |-> pass[p].reset, start |-> clock]
  <2>1. pass[p].stage = "loaded"
    BY <1>7 DEF Settings!Start
  <2>2. x \in PassTypes /\ x.reset <= reset /\ x.stage # "read"
    BY <1>1, <1>3, <1>4, <2>1 DEF PassTypes
  <2>3. /\ pass' = [pass EXCEPT ![p] = x]
        /\ UNCHANGED <<settings, since, tab, book, clock, reset, swept, late>>
    BY <1>7 DEF Settings!Start
  <2> HIDE DEF x
  <2> QED
    BY <1>1, <1>2, <1>3, <2>2, <2>3, PassStep
<1>8. CASE Settings!Insert(p)
  <2> DEFINE x == [stage |-> "inserted", reset |-> pass[p].reset]
  <2>1. pass[p].stage = "started"
    BY <1>8 DEF Settings!Insert
  <2>2. x \in PassTypes /\ x.reset <= reset /\ x.stage # "read"
    BY <1>3, <1>4, <2>1 DEF PassTypes
  <2>3. /\ pass' = [pass EXCEPT ![p] = x]
        /\ since' = IF since = 0 THEN pass[p].start ELSE since
        /\ late' = (late \/ (since = 0 /\ pass[p].start < reset))
        /\ UNCHANGED <<settings, tab, book, clock, reset, swept>>
    BY <1>8 DEF Settings!Insert
  <2>4. late' \in BOOLEAN /\ (late => late') /\ (since = 0 /\ pass[p].start < reset => late')
    BY <2>3, Zenon
  <2>5. since' \in 0..MaxClock /\ (since' # 0 => since' >= reset \/ late')
    BY <1>1, <1>3, <1>4, <2>1, <2>3, <2>4
  <2> HIDE DEF x
  <2> QED
    BY <1>1, <1>2, <2>2, <2>3, <2>4, <2>5, PassStep
<1>9. CASE Settings!Read(p)
  <2>1. /\ pass[p].stage = "inserted"
        /\ UNCHANGED <<settings, since, tab, book, clock, reset, swept, late>>
    BY <1>9 DEF Settings!Read
  <2>2. CASE since = 0
    <3>1. pass' = [pass EXCEPT ![p] = Settings!Idle]
      BY <1>9, <2>2 DEF Settings!Read
    <3> QED
      BY <1>1, <1>2, <1>3, <1>5, <2>1, <3>1, PassStep
  <2>3. CASE since # 0
    <3> DEFINE x == [stage |-> "read", reset |-> pass[p].reset, since |-> since]
    <3>1. pass' = [pass EXCEPT ![p] = x]
      BY <1>9, <2>3 DEF Settings!Read
    <3>2. pass[p].reset \in 1..MaxClock /\ pass[p].reset <= reset
      BY <1>3, <1>4, <2>1
    <3>3. x \in PassTypes /\ x.reset = pass[p].reset /\ x.since = since
      BY <1>1, <3>2 DEF PassTypes
    <3>4. x.since >= x.reset \/ late
      BY <1>1, <1>3, <2>3, <3>2, <3>3
    <3> HIDE DEF x
    <3> QED
      BY <1>1, <1>2, <1>3, <2>1, <3>1, <3>2, <3>3, <3>4, PassStep
  <2> QED
    BY <2>2, <2>3
<1>10. CASE Settings!Queue(p)
  <2>1. /\ pass[p].stage = "read" /\ pass' = [pass EXCEPT ![p] = Settings!Idle]
        /\ UNCHANGED <<settings, since, tab, clock, reset, late>>
    BY <1>10 DEF Settings!Queue
  <2>2. CASE Settings!Due(p)
    <3>1. /\ book' = [book EXCEPT !.pending = FALSE]
          /\ swept' = (swept \/ book.changed < pass[p].reset)
      BY <1>10, <2>2 DEF Settings!Queue
    <3>2. book' \in [changed : 0..MaxClock, pending : BOOLEAN]
      BY <1>1, <3>1
    <3>3. book.changed < pass[p].reset => late
      <4>1. book.changed \in 0..MaxClock /\ pass[p].since <= book.changed
        BY <1>1, <2>2 DEF Settings!Due
      <4> QED
        BY <1>1, <1>3, <1>4, <2>1, <4>1
    <3>4. swept' \in BOOLEAN /\ (swept' => late)
      BY <1>2, <3>1, <3>3, Zenon
    <3> QED
      BY <1>1, <1>2, <1>3, <1>5, <2>1, <3>2, <3>4, PassStep
  <2>3. CASE ~Settings!Due(p)
    <3>1. UNCHANGED <<book, swept>>
      BY <1>10, <2>3 DEF Settings!Queue
    <3> QED
      BY <1>1, <1>2, <1>3, <1>5, <2>1, <3>1, PassStep
  <2> QED
    BY <2>2, <2>3
<1>11. CASE Settings!Abandon(p)
  <2>1. /\ pass' = [pass EXCEPT ![p] = Settings!Idle]
        /\ UNCHANGED <<settings, since, tab, book, clock, reset, swept, late>>
    BY <1>11 DEF Settings!Abandon
  <2> QED
    BY <1>1, <1>2, <1>3, <1>5, <2>1, PassStep
<1> QED
  BY <1>6, <1>7, <1>8, <1>9, <1>10, <1>11

\* Time, a tablet and a stutter preserve the invariant.
LEMMA RestKeeps ==
  ASSUME Settings!SettingsAssumption, SettingsInv,
         Settings!Change \/ Settings!Tick
           \/ UNCHANGED <<settings, since, tab, pass, book, clock, reset, swept, late>>
  PROVE  SettingsInv'
<1>1. /\ reset \in 1..MaxClock /\ clock \in 1..MaxClock /\ MaxClock \in Nat
  BY DEF SettingsInv, SettingsTypes, Settings!SettingsAssumption
<1>2. /\ UNCHANGED <<settings, since, tab, pass, reset, swept, late>>
      /\ clock' \in 1..MaxClock /\ clock <= clock'
      /\ book' \in [changed : 0..MaxClock, pending : BOOLEAN]
  <2>1. CASE Settings!Change
    BY <1>1, <2>1 DEF Settings!Change
  <2>2. CASE Settings!Tick
    <3>1. clock < MaxClock /\ clock' = clock + 1 /\ book' = book
          /\ UNCHANGED <<settings, since, tab, pass, reset, swept, late>>
      BY <2>2 DEF Settings!Tick
    <3> QED
      BY <1>1, <3>1 DEF SettingsInv, SettingsTypes
  <2>3. CASE UNCHANGED <<settings, since, tab, pass, book, clock, reset, swept, late>>
    BY <1>1, <2>3 DEF SettingsInv, SettingsTypes
  <2> QED
    BY <2>1, <2>2, <2>3
<1>3. SettingsTypes'
  BY <1>2 DEF SettingsInv, SettingsTypes
<1>4. CandidateInv' /\ Settings!Keyed(settings.config)'
  BY <1>2 DEF SettingsInv, CandidateInv, Settings!Keyed, Agree
<1>5. reset' <= clock'
  BY <1>1, <1>2 DEF SettingsInv, ClockInv
<1>6. ClockInv'
  BY <1>2, <1>5 DEF SettingsInv, ClockInv
<1> QED
  BY <1>3, <1>4, <1>6 DEF SettingsInv

\* Every step preserves the invariant.
LEMMA SettingsNext ==
  ASSUME Settings!SettingsAssumption, SettingsInv,
         Settings!Next
           \/ UNCHANGED <<scope, settings, since, tab, pass, book, clock, reset, swept, late>>
  PROVE  SettingsInv'
BY TabKeeps, PassKeeps, RestKeeps DEF Settings!Next

\* A saved candidate is the row but for what its form carries.
LEMMA SettingsForms ==
  ASSUME Settings!SettingsAssumption, SettingsInv,
         Settings!Next
           \/ UNCHANGED <<scope, settings, since, tab, pass, book, clock, reset, swept, late>>
  PROVE  Settings!FormsKeepOthers
<1> SUFFICES ASSUME NEW t \in Tab, tab[t].stage = "candidate",
                    settings'.revision # settings.revision, tab'[t] = Settings!Closed
             PROVE  \A part \in DOMAIN settings.config \ Settings!Carried(tab[t].form) :
                      settings'.config[part] = settings.config[part]
  BY DEF Settings!FormsKeepOthers
<1>1. /\ tab \in [Tab -> TabTypes] /\ settings.config \in Settings!Config
      /\ settings.revision \in 1..MaxSaves
      /\ tab[t].form \in Settings!Form /\ tab[t].config \in Settings!Config
  <2>1. tab[t] \in TabTypes
    BY DEF SettingsInv, SettingsTypes
  <2> QED
    BY <2>1, TabFacts DEF SettingsInv, SettingsTypes
<1>2. PICK q \in Tab : Settings!Save(q) \/ Settings!SetSemantic(q)
  BY DEF Settings!Next, Settings!Show, Settings!Submit, Settings!Test, Settings!Load, Settings!Start,
         Settings!Insert, Settings!Read, Settings!Queue, Settings!Abandon, Settings!Change, Settings!Tick
<1>3. tab' = [tab EXCEPT ![q] = Settings!Closed]
  BY <1>2 DEF Settings!Save, Settings!SetSemantic
<1>4. q = t
  BY <1>1, <1>3 DEF Settings!Closed
<1>5. Settings!Save(t) /\ Settings!Fresh(tab[t])
  BY <1>2, <1>4 DEF Settings!Save, Settings!SetSemantic
<1>6. settings'.config = tab[t].config
  BY <1>5 DEF Settings!Save
<1>7. Agree(tab[t].form, tab[t].config, settings.config)
  BY <1>5 DEF SettingsInv, CandidateInv, Settings!Fresh
<1> QED
  BY <1>1, <1>6, <1>7, AgreeFacts

\* The invariant has the types and the two safety properties.
LEMMA SettingsSafe ==
  ASSUME SettingsInv
  PROVE  Settings!TypeOK /\ Settings!KeysStay /\ Settings!NothingSwept
<1>1. \A t \in Tab : tab[t] \in TabTypes
  BY DEF SettingsInv, SettingsTypes
<1>2. \A p \in Pass : pass[p].stage \in {"idle", "loaded", "started", "inserted", "read"}
  BY PassFacts DEF SettingsInv, SettingsTypes
<1>3. \A t \in Tab :
        \/ tab[t] = Settings!Closed
        \/ tab[t].stage = "shown" /\ tab[t].revision \in 1..MaxSaves
        \/ /\ tab[t].stage = "candidate" /\ tab[t].form \in Settings!Form
           /\ tab[t].revision \in 1..MaxSaves /\ tab[t].config \in Settings!Config
  BY <1>1 DEF TabTypes
<1>4. Settings!TypeOK
  BY <1>2, <1>3 DEF SettingsInv, SettingsTypes, Settings!TypeOK
<1>5. Settings!KeysStay
  BY DEF SettingsInv, CandidateInv, Settings!KeysStay
<1> QED
  BY <1>4, <1>5 DEF SettingsInv, ClockInv, Settings!NothingSwept

\* Whatever the forms of several tabs and the passes of the worker do, a key stays with
\* the address it was typed for, a form changes only what it carries, and no notebook is
\* queued for what it was before the last change of choice (providers/store.go:615-700).
THEOREM SettingsStaySound == Settings!Spec => SettingsSound
<1> USE ServerAssumption DEF ServerAssumption
<1>1. Settings!Init => SettingsInv
  BY SettingsInit
<1>2. SettingsInv
        /\ [Settings!Next]_<<scope, settings, since, tab, pass, book, clock, reset, swept, late>>
        => SettingsInv'
  BY SettingsNext
<1>3. SettingsInv
        /\ [Settings!Next]_<<scope, settings, since, tab, pass, book, clock, reset, swept, late>>
        => Settings!FormsKeepOthers
  BY SettingsForms
<1>4. SettingsInv => Settings!TypeOK /\ Settings!KeysStay /\ Settings!NothingSwept
  BY SettingsSafe
<1> QED
  BY <1>1, <1>2, <1>3, <1>4, PTL DEF Settings!Spec, Settings!svars, SettingsSound
=============================================================================
