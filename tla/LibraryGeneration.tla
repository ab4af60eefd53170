-------------------------- MODULE LibraryGeneration --------------------------
(***************************************************************************)
(* alexandria/generation, restore, identity: the whole-library replacement  *)
(* and the devices that follow it.  The generation row is the fence: every  *)
(* mutation holds it FOR SHARE from its check to its commit, a publication  *)
(* takes it FOR UPDATE, and enrolments and adoptions share it under the     *)
(* identity lock.  Requests may be repeated or arrive late.                 *)
(***************************************************************************)
EXTENDS Naturals

CONSTANTS
  DeviceKey,  \* device keys, each with the site id it is bound to
  First,      \* the sites enrolled before the behaviour starts
  Snapshots,
  PublisherOf,\* the publisher a snapshot's manifest names
  Replacement, \* replacement requests, by request_id
  MaxGen,     \* bound: replacements
  NoReceipt

\* Snapshots name their publisher; the bound is a number.
GenerationAssumption == MaxGen \in Nat /\ PublisherOf \in [Snapshots -> DeviceKey]

VARIABLES
  generation, \* sync_library_generation; a new one is random, here the next number
  baseline,   \* sync_restore_baseline: generation and snapshot
  identity,   \* sync_device_identity: absent, live or revoked
  bound,      \* sync_device_generation
  heirs,      \* sync_restore_adoption
  receipt,    \* sync_library_replacement
  enrolling,  \* sites whose enrolment has passed its checks (at most one)
  request,    \* the exchange or asset request of each device
  attempts,   \* publications past their first check, uploading books
  library,    \* rows written since the last replacement
  held        \* the generation whose content each device has installed

gvars == <<generation, baseline, identity, bound, heirs, receipt, enrolling,
           request, attempts, library, held>>

Gen == 0..MaxGen
Idle == [step |-> "idle"]

Publications == [id : Replacement, expected : Gen, snapshot : Snapshots, publisher : DeviceKey]

TypeOK ==
  /\ generation \in Gen
  /\ baseline \in [generation : Gen, snapshot : Snapshots \cup {NoReceipt}]
  /\ identity \in [DeviceKey -> {"absent", "live", "revoked"}]
  /\ bound \in [DeviceKey -> Gen] /\ held \in [DeviceKey -> Gen]
  /\ heirs \subseteq [old : DeviceKey, generation : Gen, site : DeviceKey, snapshot : Snapshots]
  /\ receipt \in [Replacement -> {NoReceipt} \cup
       [expected : Gen, snapshot : Snapshots, publisher : DeviceKey, generation : Gen]]
  /\ enrolling \subseteq DeviceKey
  /\ request \in [DeviceKey -> {Idle} \cup [step : {"admitted", "checked"}, claim : Gen]]
  /\ attempts \subseteq Publications
  /\ library \subseteq [site : DeviceKey, content : Gen]

Init ==
  /\ generation = 0
  /\ baseline = [generation |-> 0, snapshot |-> NoReceipt]
  /\ identity = [s \in DeviceKey |-> IF s \in First THEN "live" ELSE "absent"]
  /\ bound = [s \in DeviceKey |-> 0] /\ held = [s \in DeviceKey |-> 0]
  /\ heirs = {} /\ enrolling = {}
  /\ receipt = [r \in Replacement |-> NoReceipt]
  /\ request = [s \in DeviceKey |-> Idle]
  /\ attempts = {} /\ library = {}

-----------------------------------------------------------------------------
(* Identity.  IdentityLock: one enrolment or adoption at a time.            *)

\* An approved new key; the retry of an enrolled one changes nothing.
Enroll(s) ==
  /\ enrolling = {} /\ identity[s] = "absent"
  /\ enrolling' = {s}
  /\ UNCHANGED <<generation, baseline, identity, bound, heirs, receipt, request,
                 attempts, library, held>>

\* EnrollTx: the active generation is read when the checks are over.
EnrollCommit(s) ==
  /\ s \in enrolling
  /\ identity' = [identity EXCEPT ![s] = "live"]
  /\ bound' = [bound EXCEPT ![s] = generation]
  /\ held' = [held EXCEPT ![s] = generation]
  /\ enrolling' = {}
  /\ UNCHANGED <<generation, baseline, heirs, receipt, request, attempts, library>>

EnrollFails ==
  /\ enrolling # {}
  /\ enrolling' = {}
  /\ UNCHANGED <<generation, baseline, identity, bound, heirs, receipt, request,
                 attempts, library, held>>

Revoke(s) ==
  /\ identity[s] = "live"
  /\ identity' = [identity EXCEPT ![s] = "revoked"]
  /\ UNCHANGED <<generation, baseline, bound, heirs, receipt, enrolling, request,
                 attempts, library, held>>

-----------------------------------------------------------------------------
(* Mutations: exchanges and asset uploads.                                  *)

\* Resolve and Admit: the generation is pinned to the request.
Admit(s) ==
  /\ request[s] = Idle
  /\ identity[s] = "live" /\ bound[s] = generation
  /\ request' = [request EXCEPT ![s] = [step |-> "admitted", claim |-> generation]]
  /\ UNCHANGED <<generation, baseline, identity, bound, heirs, receipt, enrolling,
                 attempts, library, held>>

\* Fault: the admission made before is enough.
AdmissionHolds(s) == identity[s] = "live"

\* CheckTx.
Fenced(s) ==
  /\ request[s].claim = generation /\ bound[s] = generation
  /\ identity[s] = "live"

\* From here to the commit the transaction holds the generation FOR SHARE.
Check(s) ==
  /\ request[s].step = "admitted"
  /\ request' = [request EXCEPT ![s] = IF Fenced(s) THEN [@ EXCEPT !.step = "checked"] ELSE Idle]
  /\ UNCHANGED <<generation, baseline, identity, bound, heirs, receipt, enrolling,
                 attempts, library, held>>

WriteCommit(s) ==
  /\ request[s].step = "checked"
  /\ library' = library \cup {[site |-> s, content |-> held[s]]}
  /\ request' = [request EXCEPT ![s] = Idle]
  /\ UNCHANGED <<generation, baseline, identity, bound, heirs, receipt, enrolling,
                 attempts, held>>

RequestFails(s) ==
  /\ request[s] # Idle
  /\ request' = [request EXCEPT ![s] = Idle]
  /\ UNCHANGED <<generation, baseline, identity, bound, heirs, receipt, enrolling,
                 attempts, library, held>>

-----------------------------------------------------------------------------
(* Replacement.                                                             *)

\* Service.Publish up to the upload of the books: a request with a receipt is
\* answered from it, one on another generation is refused.
StartPublish(r, x) ==
  /\ receipt[r] = NoReceipt
  /\ attempts' = attempts \cup {[id |-> r, expected |-> generation, snapshot |-> x,
                                 publisher |-> PublisherOf[x]]}
  /\ UNCHANGED <<generation, baseline, identity, bound, heirs, receipt, enrolling,
                 request, library, held>>

\* Under the fence: the request is new and the library is still its own.
Current(a) ==
  /\ receipt[a.id] = NoReceipt
  /\ a.expected = generation
  /\ identity[a.publisher] = "live" /\ bound[a.publisher] = generation

\* PublishWithGeneration and replace.  FOR UPDATE waits for every reader of the
\* row.  An attempt repeated by its client stays in attempts.
Publish(a) ==
  /\ a \in attempts /\ Current(a)
  /\ \A s \in DeviceKey : request[s].step # "checked"
  /\ generation < MaxGen
  /\ generation' = generation + 1
  /\ library' = {}
  /\ baseline' = [generation |-> generation', snapshot |-> a.snapshot]
  /\ bound' = [bound EXCEPT ![a.publisher] = generation']
  /\ held' = [held EXCEPT ![a.publisher] = generation']
  /\ receipt' = [receipt EXCEPT ![a.id] = [expected |-> a.expected, snapshot |-> a.snapshot,
                                           publisher |-> a.publisher, generation |-> generation']]
  /\ attempts' \in {attempts, attempts \ {a}}
  /\ UNCHANGED <<identity, heirs, enrolling, request>>

\* An invalid snapshot, a refusal, a crash: everything rolls back.
PublishFails(a) ==
  /\ a \in attempts
  /\ attempts' = attempts \ {a}
  /\ UNCHANGED <<generation, baseline, identity, bound, heirs, receipt, enrolling,
                 request, library, held>>

-----------------------------------------------------------------------------
(* Adoption.                                                                *)

\* The request names the baseline of the active generation.
SameBaseline(g, x) ==
  /\ baseline.generation = generation
  /\ g = generation /\ x = baseline.snapshot

NoHeir(old) == ~\E h \in heirs : h.old = old /\ h.generation = generation

\* A device that has installed generation g asks, with its old key, for a
\* fresh one; the repetition of a recorded adoption only answers.
Adopt(old, s, g, x) ==
  /\ enrolling = {}
  /\ SameBaseline(g, x)
  /\ identity[old] = "live" /\ bound[old] # generation
  /\ NoHeir(old) /\ identity[s] = "absent"
  /\ identity' = [identity EXCEPT ![s] = "live"]
  /\ bound' = [bound EXCEPT ![s] = generation]
  /\ held' = [held EXCEPT ![s] = g]
  /\ heirs' = heirs \cup {[old |-> old, generation |-> generation, site |-> s,
                           snapshot |-> baseline.snapshot]}
  /\ UNCHANGED <<generation, baseline, receipt, enrolling, request, attempts, library>>

-----------------------------------------------------------------------------
Next ==
  \/ \E s \in DeviceKey :
       \/ Enroll(s) \/ EnrollCommit(s) \/ Revoke(s)
       \/ Admit(s) \/ Check(s) \/ WriteCommit(s) \/ RequestFails(s)
  \/ EnrollFails
  \/ \E r \in Replacement, x \in Snapshots : StartPublish(r, x)
  \/ \E a \in attempts : Publish(a) \/ PublishFails(a)
  \/ \E old, s \in DeviceKey, g \in Gen, x \in Snapshots : Adopt(old, s, g, x)

Spec == Init /\ [][Next]_gvars

-----------------------------------------------------------------------------
(* Properties.                                                              *)

\* Every row accepted since a replacement was written by a device that had the
\* replaced library installed: no request admitted before, no late adoption
\* and no enrolment under way carries older content across the fence.
WrittenOnContent == \A w \in library : w.content = generation

\* Replacements form one line: each replaced the generation its request was
\* approved for, so none undoes a later one, and the active generation is the
\* last one's, with its snapshot as the baseline.
ReplacementsLinear ==
  /\ \A r \in Replacement : receipt[r] # NoReceipt => receipt[r].generation = receipt[r].expected + 1
  /\ \A r, q \in Replacement : receipt[r] # NoReceipt /\ receipt[q] # NoReceipt /\ r # q =>
       receipt[r].expected # receipt[q].expected
  /\ \A r \in Replacement : receipt[r] # NoReceipt /\ receipt[r].generation = generation =>
       baseline = [generation |-> generation, snapshot |-> receipt[r].snapshot]
=============================================================================
