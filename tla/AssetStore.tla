------------------------------ MODULE AssetStore ------------------------------
(***************************************************************************)
(* alexandria/assetstore: books and snapshots in chunks.  A chunk is an    *)
(* object under its hash and a row that names the hash; the row is the     *)
(* authority.  Uploads, verifiers, the restore of a library and the        *)
(* garbage collector run side by side, each in short transactions with the *)
(* object store between them.                                              *)
(***************************************************************************)
EXTENDS Naturals

CONSTANTS
  Asset,
  Index,     \* chunk positions, from 0
  Digest,    \* chunk contents, by hash
  Right,     \* the digests whose concatenation hashes to the asset's id
  Uploader,  \* requests that upload a chunk at the same time
  Verifier,  \* requests that complete an asset at the same time
  MaxReset,  \* bound: resets of an invalid asset
  Losable,   \* bound: objects the object store may lose, once each
  NoDigest

\* Positions are counted from 0; the id of an asset stands for one list of chunks.
AssetAssumption ==
  /\ Index \subseteq Nat /\ \A i \in Index : 0..i \subseteq Index
  /\ Right \in [Asset -> [Index -> Digest]]
  /\ NoDigest \notin Digest /\ MaxReset \in Nat

VARIABLES
  asset,     \* rhizome_asset: absent, or its state and generation
  chunk,     \* rhizome_asset_chunk
  store,     \* the objects that exist
  intent,    \* rhizome_asset_object: none, fresh, or older than the grace
  upload,    \* what each WriteChunk has done so far
  verify,    \* what each Complete knows
  publish,   \* the asset a restore uploads, with the chunks it has stored
  collector, \* the digest whose intent row collect holds locked
  lost       \* history: objects the store lost

avars == <<asset, chunk, store, intent, upload, verify, publish, collector, lost>>

Idle == [step |-> "idle"]

States == {"absent", "staging", "verifying", "ready", "invalid"}

TypeOK ==
  /\ asset \in [Asset -> [state : States, generation : 0..MaxReset]]
  /\ chunk \in [Asset -> [Index -> Digest \cup {NoDigest}]]
  /\ store \subseteq Digest /\ lost \subseteq Digest
  /\ intent \in [Digest -> {"none", "fresh", "old"}]
  /\ upload \in [Uploader -> {Idle} \cup [step : {"touched", "stored"}, asset : Asset,
                                          index : Index, digest : Digest]]
  /\ verify \in [Verifier -> {Idle} \cup
       [step : {"marked", "reading", "forget", "reset", "finish"}, asset : Asset,
        generation : 0..MaxReset, next : Nat, good : BOOLEAN, missing : Digest \cup {NoDigest}]]
  /\ publish \in {Idle} \cup [step : {"upload"}, asset : Asset, touched : SUBSET Digest,
                              stored : SUBSET Digest]
  /\ collector \in {Idle} \cup [step : {"locked", "deleted"}, digest : Digest]

Init ==
  /\ asset = [a \in Asset |-> [state |-> "absent", generation |-> 0]]
  /\ chunk = [a \in Asset |-> [i \in Index |-> NoDigest]]
  /\ store = {} /\ lost = {}
  /\ intent = [d \in Digest |-> "none"]
  /\ upload = [u \in Uploader |-> Idle]
  /\ verify = [v \in Verifier |-> Idle]
  /\ publish = Idle /\ collector = Idle

Rows == UNCHANGED <<asset, chunk>>
Requests == UNCHANGED <<upload, verify, publish>>

-----------------------------------------------------------------------------
(* Upload: Stage, then WriteChunk for every chunk.                          *)

Stage(a) ==
  /\ asset[a].state = "absent"
  /\ asset' = [asset EXCEPT ![a].state = "staging"]
  /\ UNCHANGED <<chunk, store, intent, collector, lost>> /\ Requests

\* The intent row of a digest is locked while its object is being deleted.
Touchable(d) == ~(collector # Idle /\ collector.digest = d)

\* PutObject, first half: the intent is written before the bytes.
Touch(u, a, i, d) ==
  /\ upload[u] = Idle /\ asset[a].state # "absent"
  /\ Touchable(d)
  /\ intent' = [intent EXCEPT ![d] = "fresh"]
  /\ upload' = [upload EXCEPT ![u] = [step |-> "touched", asset |-> a, index |-> i, digest |-> d]]
  /\ UNCHANGED <<store, verify, publish, collector, lost>> /\ Rows

PutBytes(u) ==
  /\ upload[u].step = "touched"
  /\ store' = store \cup {upload[u].digest}
  /\ upload' = [upload EXCEPT ![u].step = "stored"]
  /\ UNCHANGED <<intent, verify, publish, collector, lost>> /\ Rows

\* The row is written while the asset is staging and the position is free;
\* otherwise the request is refused, or repeats what is already there.
InsertRow(u) ==
  LET w == upload[u]
  IN /\ w.step = "stored"
     /\ chunk' = IF asset[w.asset].state = "staging" /\ chunk[w.asset][w.index] = NoDigest
                 THEN [chunk EXCEPT ![w.asset][w.index] = w.digest] ELSE chunk
     /\ upload' = [upload EXCEPT ![u] = Idle]
     /\ UNCHANGED <<asset, store, intent, verify, publish, collector, lost>>

UploadFails(u) ==
  /\ upload[u] # Idle
  /\ upload' = [upload EXCEPT ![u] = Idle]
  /\ UNCHANGED <<store, intent, verify, publish, collector, lost>> /\ Rows

-----------------------------------------------------------------------------
(* Complete.                                                                *)

StartVerify(v, a) ==
  /\ verify[v] = Idle /\ asset[a].state \in {"staging", "verifying"}
  /\ asset' = [asset EXCEPT ![a].state = "verifying"]
  /\ verify' = [verify EXCEPT ![v] = [step |-> "marked", asset |-> a, next |-> 0,
                  generation |-> 0, good |-> TRUE, missing |-> NoDigest]]
  /\ UNCHANGED <<chunk, store, intent, upload, publish, collector, lost>>

\* The state and the generation are read in a statement of their own.
ReadGeneration(v) ==
  /\ verify[v].step = "marked"
  /\ verify' = [verify EXCEPT ![v] =
       IF asset[verify[v].asset].state = "verifying"
       THEN [verify[v] EXCEPT !.step = "reading", !.generation = asset[verify[v].asset].generation]
       ELSE Idle]
  /\ UNCHANGED <<store, intent, upload, publish, collector, lost>> /\ Rows

\* One chunk is read: its row, then its object.
ReadChunk(v) ==
  LET w == verify[v]
      d == chunk[w.asset][w.next]
  IN /\ w.step = "reading" /\ w.next \in Index
     /\ verify' = [verify EXCEPT ![v] =
          IF d = NoDigest THEN [w EXCEPT !.step = "reset"]
          ELSE IF d \notin store THEN [w EXCEPT !.step = "forget", !.missing = d]
          ELSE [w EXCEPT !.next = w.next + 1, !.good = w.good /\ d = Right[w.asset][w.next]]]
     /\ UNCHANGED <<store, intent, upload, publish, collector, lost>> /\ Rows

\* The row of a lost object is forgotten, for the client to upload it again.
ForgetRow(v) ==
  LET w == verify[v]
  IN /\ w.step = "forget"
     /\ chunk' = IF chunk[w.asset][w.next] = w.missing
                 THEN [chunk EXCEPT ![w.asset][w.next] = NoDigest] ELSE chunk
     /\ verify' = [verify EXCEPT ![v] = [w EXCEPT !.step = "reset", !.missing = NoDigest]]
     /\ UNCHANGED <<asset, store, intent, upload, publish, collector, lost>>

\* The WHERE clause of the two final updates.
SameVerification(w) ==
  asset[w.asset].state = "verifying" /\ asset[w.asset].generation = w.generation

Conclude(v, state) ==
  /\ asset' = IF SameVerification(verify[v])
              THEN [asset EXCEPT ![verify[v].asset].state = state] ELSE asset
  /\ verify' = [verify EXCEPT ![v] = Idle]
  /\ UNCHANGED <<chunk, store, intent, upload, publish, collector, lost>>

\* A chunk is missing: back to staging, where uploads are taken.
ResetStaging(v) == verify[v].step = "reset" /\ Conclude(v, "staging")

\* finish
Finish(v) ==
  /\ verify[v].step = "reading" /\ verify[v].next \notin Index
  /\ Conclude(v, IF verify[v].good THEN "ready" ELSE "invalid")

VerifierDies(v) ==
  /\ verify[v] # Idle
  /\ verify' = [verify EXCEPT ![v] = Idle]
  /\ UNCHANGED <<store, intent, upload, publish, collector, lost>> /\ Rows

ResetInvalid(a) ==
  /\ asset[a].state = "invalid" /\ asset[a].generation < MaxReset
  /\ asset' = [asset EXCEPT ![a] = [state |-> "staging", generation |-> @.generation + 1]]
  /\ chunk' = [chunk EXCEPT ![a] = [i \in Index |-> NoDigest]]
  /\ UNCHANGED <<store, intent, collector, lost>> /\ Requests

-----------------------------------------------------------------------------
(* Restore: the chunks of a snapshot's book are stored first, the rows are  *)
(* written in the transaction that publishes the library.                   *)

BeginPublish(a) ==
  /\ publish = Idle
  /\ publish' = [step |-> "upload", asset |-> a, touched |-> {}, stored |-> {}]
  /\ UNCHANGED <<store, intent, upload, verify, collector, lost>> /\ Rows

Needed == {Right[publish.asset][i] : i \in Index}

PublishTouch(d) ==
  /\ publish # Idle /\ d \in Needed \ publish.touched
  /\ Touchable(d)
  /\ intent' = [intent EXCEPT ![d] = "fresh"]
  /\ publish' = [publish EXCEPT !.touched = @ \cup {d}]
  /\ UNCHANGED <<store, upload, verify, collector, lost>> /\ Rows

PublishPut(d) ==
  /\ publish # Idle /\ d \in publish.touched \ publish.stored
  /\ store' = store \cup {d}
  /\ publish' = [publish EXCEPT !.stored = @ \cup {d}]
  /\ UNCHANGED <<intent, upload, verify, collector, lost>> /\ Rows

\* replace: whatever the asset was, it is ready with the snapshot's chunks.
PublishRows ==
  /\ publish # Idle /\ publish.stored = Needed
  /\ asset' = [asset EXCEPT ![publish.asset] = [state |-> "ready", generation |-> 0]]
  /\ chunk' = [chunk EXCEPT ![publish.asset] = Right[publish.asset]]
  /\ publish' = Idle
  /\ UNCHANGED <<store, intent, upload, verify, collector, lost>>

PublishFails ==
  /\ publish # Idle
  /\ publish' = Idle
  /\ UNCHANGED <<store, intent, upload, verify, collector, lost>> /\ Rows

-----------------------------------------------------------------------------
(* The collector, time and loss.                                            *)

Referenced(d) == \E a \in Asset, i \in Index : chunk[a][i] = d

\* Fault: only the age of the intent counts.
OldEnough(d) == intent[d] = "old"

Collectable(d) == intent[d] = "old" /\ ~Referenced(d)

\* collect: the conditions are checked again as the intent row is locked.
LockIntent(d) ==
  /\ collector = Idle /\ Collectable(d)
  /\ collector' = [step |-> "locked", digest |-> d]
  /\ UNCHANGED <<store, intent, lost>> /\ Rows /\ Requests

DeleteBytes ==
  /\ collector.step = "locked"
  /\ store' = store \ {collector.digest}
  /\ collector' = [collector EXCEPT !.step = "deleted"]
  /\ UNCHANGED <<intent, lost>> /\ Rows /\ Requests

CommitCollect ==
  /\ collector.step = "deleted"
  /\ intent' = [intent EXCEPT ![collector.digest] = "none"]
  /\ collector' = Idle
  /\ UNCHANGED <<store, lost>> /\ Rows /\ Requests

CollectFails ==
  /\ collector # Idle
  /\ collector' = Idle
  /\ UNCHANGED <<store, intent, lost>> /\ Rows /\ Requests

InFlight(d) ==
  \/ \E u \in Uploader : upload[u] # Idle /\ upload[u].digest = d
  \/ publish # Idle /\ d \in publish.touched

\* AssetGrace, seven days, "must exceed any plausible gap between a chunk PUT
\* and its row commit" (runtime.go): an intent does not age during its upload.
GraceEnds(d) ==
  /\ intent[d] = "fresh" /\ ~InFlight(d)
  /\ intent' = [intent EXCEPT ![d] = "old"]
  /\ UNCHANGED <<store, collector, lost>> /\ Rows /\ Requests

LoseObject(d) ==
  /\ d \in store /\ d \in Losable \ lost
  /\ store' = store \ {d}
  /\ lost' = lost \cup {d}
  /\ UNCHANGED <<intent, collector>> /\ Rows /\ Requests

-----------------------------------------------------------------------------
Uploads ==
  \/ \E a \in Asset : Stage(a) \/ ResetInvalid(a)
  \/ \E u \in Uploader : PutBytes(u) \/ InsertRow(u) \/ UploadFails(u)
  \/ \E u \in Uploader, a \in Asset, i \in Index, d \in Digest : Touch(u, a, i, d)

Verification ==
  \E v \in Verifier :
    \/ ReadGeneration(v) \/ ReadChunk(v) \/ ForgetRow(v) \/ ResetStaging(v)
    \/ Finish(v) \/ VerifierDies(v)
    \/ \E a \in Asset : StartVerify(v, a)

Restores ==
  \/ \E a \in Asset : BeginPublish(a)
  \/ \E d \in Digest : PublishTouch(d) \/ PublishPut(d)
  \/ PublishRows \/ PublishFails

Collection ==
  \/ \E d \in Digest : LockIntent(d) \/ GraceEnds(d) \/ LoseObject(d)
  \/ DeleteBytes \/ CommitCollect \/ CollectFails

Next == Uploads \/ Verification \/ Restores \/ Collection

Spec == Init /\ [][Next]_avars

-----------------------------------------------------------------------------
(* Properties.                                                              *)

\* An asset that is ready has every chunk, in the contents its id stands for,
\* and every object is there to be read, whatever verifiers, resets, restores
\* and collections ran side by side; nothing is claimed of an asset the object
\* store lost a chunk of.
ReadyWhole ==
  \A a \in Asset :
    asset[a].state = "ready" /\ {Right[a][i] : i \in Index} \cap lost = {} =>
      chunk[a] = Right[a] /\ {Right[a][i] : i \in Index} \subseteq store
=============================================================================
