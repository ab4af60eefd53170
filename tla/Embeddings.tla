------------------------------ MODULE Embeddings ------------------------------
(* The semantic index (internal/alexandria/providers/index.go and the       *)
(* triggers of migrations/0021 and 0023).  A generation of vectors is built *)
(* beside the active one and replaces it when no page of it is left to      *)
(* embed; a text that changes queues its page for every generation in use; *)
(* a worker embeds outside any transaction and its answer may be late.  The *)
(* advisory lock is held to the end of a text's transaction, of a build and *)
(* of a worker's recording, so each is one step.                            *)
EXTENDS Naturals

CONSTANTS
  Page, Text, Worker,
  NoText,       \* no row for the page
  NoWorker,
  MaxBuilds,    \* bound: generations
  MaxEdits,     \* bound: text changes
  MaxAttempts   \* failures after which a row waits for a retry

VARIABLES
  text,         \* alexandria_note_content: body_text of the indexed pages
  enabled,      \* provider settings: semantic search is on
  gen,          \* alexandria_embedding_generation: its state
  work,         \* alexandria_embedding_work
  vectors,      \* alexandria_embedding_vectors: body_hash of the page's vectors
  call,         \* ProcessIndex of each worker: the row it holds and the text it read
  edits

evars == <<text, enabled, gen, work, vectors, call, edits>>

SearchAssumption ==
  /\ NoText \notin Text /\ NoWorker \notin Worker
  /\ Page # {}
  /\ MaxBuilds \in Nat \ {0} /\ MaxEdits \in Nat /\ MaxAttempts \in Nat \ {0}

Gen == 1..MaxBuilds
NoWork == [queued |-> FALSE, version |-> 0, lease |-> NoWorker, attempts |-> 0, failed |-> FALSE]
New == [NoWork EXCEPT !.queued = TRUE]
Free == [step |-> "free", g |-> 1, p |-> CHOOSE p \in Page : TRUE, version |-> 0, body |-> NoText]

Active(g) == gen[g] = "active"
\* The generations that workers fill.
InUse(g) == gen[g] \in {"active", "building"}
\* Fault: only the index that answers searches follows the texts.
FollowsActive(g) == gen[g] = "active"
\* The generations that a changed text reaches.
Follows(g) == gen[g] \in {"active", "building"}

Init ==
  /\ text \in [Page -> {NoText} \cup Text]
  /\ enabled = FALSE /\ gen = [g \in Gen |-> "none"]
  /\ work = [g \in Gen |-> [p \in Page |-> NoWork]]
  /\ vectors = [g \in Gen |-> [p \in Page |-> NoText]]
  /\ call = [w \in Worker |-> Free]
  /\ edits = 0

-----------------------------------------------------------------------------
\* activate: a generation under construction with nothing left to do replaces
\* the active one.
Activated(g, states, rows) ==
  IF states[g] = "building" /\ \A p \in Page : ~rows[g][p].queued
  THEN [h \in Gen |-> IF h = g THEN "active"
                      ELSE IF states[h] = "active" THEN "retired" ELSE states[h]]
  ELSE states

\* BuildIndex, EnableAndBuildIndex: the generation that was being built is
\* given up, and every page that has a text is queued for the new one.
Build ==
  \E g \in Gen, enable \in BOOLEAN :
    /\ gen[g] = "none" /\ \A h \in 1..(g - 1) : gen[h] # "none"
    /\ enabled \/ enable
    /\ enabled' = TRUE
    /\ work' = [work EXCEPT ![g] =
         [p \in Page |-> IF text[p] = NoText THEN NoWork ELSE New]]
    /\ gen' = Activated(g, [h \in Gen |-> IF h = g THEN "building"
                                          ELSE IF gen[h] = "building" THEN "retired"
                                          ELSE gen[h]], work')
    /\ UNCHANGED <<text, vectors, call, edits>>

\* SetEmbeddingEnabled pauses the workers, or resumes them on a retained index.
SetEmbeddingEnabled ==
  /\ enabled \/ \E g \in Gen : InUse(g)
  /\ enabled' = ~enabled
  /\ UNCHANGED <<text, gen, work, vectors, call, edits>>

RetryIndex ==
  /\ work' = [g \in Gen |-> [p \in Page |->
       IF InUse(g) /\ work[g][p].failed
       THEN [work[g][p] EXCEPT !.failed = FALSE, !.attempts = 0]
       ELSE work[g][p]]]
  /\ UNCHANGED <<text, enabled, gen, vectors, call, edits>>

\* The trigger alexandria_queue_embedding on one row and one generation.
Bumped(row) == [New EXCEPT !.version = IF row.queued THEN row.version + 1 ELSE 0]

\* A text is indexed, changed, or removed with its vectors of every
\* generation (alexandria_remove_search_vectors).
ChangeText ==
  \E p \in Page, t \in Text \cup {NoText} :
    /\ edits < MaxEdits /\ edits' = edits + 1
    /\ t # text[p] /\ text' = [text EXCEPT ![p] = t]
    /\ work' = [g \in Gen |-> IF Follows(g)
                              THEN [work[g] EXCEPT ![p] = Bumped(work[g][p])] ELSE work[g]]
    /\ vectors' = IF t = NoText THEN [g \in Gen |-> [vectors[g] EXCEPT ![p] = NoText]]
                  ELSE vectors
    /\ UNCHANGED <<enabled, gen, call>>

-----------------------------------------------------------------------------
(* ProcessIndex.                                                            *)

\* The claim; a lease may have run out at any time.
Claim(w) ==
  /\ enabled /\ call[w].step = "free"
  /\ \E g \in Gen, p \in Page :
       /\ InUse(g) /\ work[g][p].queued /\ ~work[g][p].failed
       /\ work' = [work EXCEPT ![g][p].lease = w]
       /\ call' = [call EXCEPT ![w] = [Free EXCEPT !.step = "claimed", !.g = g, !.p = p,
                                                   !.version = work[g][p].version]]
  /\ UNCHANGED <<text, enabled, gen, vectors, edits>>

\* The text is read and sent to the embedding service.
ReadText(w) ==
  /\ call[w].step = "claimed"
  /\ call' = [call EXCEPT ![w].step = "embedded", ![w].body = text[call[w].p]]
  /\ UNCHANGED <<text, enabled, gen, work, vectors, edits>>

\* What a failure leaves of the row, if the worker still holds it.
Failed(row) ==
  [row EXCEPT !.attempts = row.attempts + 1, !.lease = NoWorker,
              !.failed = row.attempts + 1 >= MaxAttempts]
Fail(w) ==
  LET g == call[w].g  p == call[w].p IN
  /\ call[w].step # "free" /\ call' = [call EXCEPT ![w] = Free]
  /\ work' = IF work[g][p].queued /\ work[g][p].lease = w
             THEN [work EXCEPT ![g][p] = Failed(work[g][p])] ELSE work
  /\ UNCHANGED <<text, enabled, gen, vectors, edits>>

\* The row is still this worker's, for the version it claimed.
Valid(w) ==
  LET row == work[call[w].g][call[w].p] IN
  row.queued /\ row.lease = w /\ row.version = call[w].version /\ InUse(call[w].g)

\* The recording: vectors of the current text only, none for a removed row.
Record(w) ==
  LET g == call[w].g  p == call[w].p IN
  /\ call[w].step = "embedded" /\ Valid(w)
  /\ text[p] \in {NoText, call[w].body}
  /\ vectors' = [vectors EXCEPT ![g][p] = text[p]]
  /\ work' = [work EXCEPT ![g][p] = NoWork]
  /\ gen' = Activated(g, gen, work')
  /\ call' = [call EXCEPT ![w] = Free]
  /\ UNCHANGED <<text, enabled, edits>>

\* A late answer is dropped, and a worker may die at any point.
Drop(w) ==
  /\ call[w].step # "free" /\ call' = [call EXCEPT ![w] = Free]
  /\ UNCHANGED <<text, enabled, gen, work, vectors, edits>>

Next ==
  \/ Build \/ SetEmbeddingEnabled \/ RetryIndex \/ ChangeText
  \/ \E w \in Worker : Claim(w) \/ ReadText(w) \/ Fail(w) \/ Record(w) \/ Drop(w)

Spec == Init /\ [][Next]_evars

-----------------------------------------------------------------------------
TypeOK ==
  /\ text \in [Page -> Text \cup {NoText}] /\ enabled \in BOOLEAN
  /\ gen \in [Gen -> {"none", "building", "active", "retired"}]
  /\ vectors \in [Gen -> [Page -> Text \cup {NoText}]]
  /\ \A g \in Gen, p \in Page :
       /\ work[g][p].lease \in Worker \cup {NoWorker}
       /\ work[g][p].version \in 0..MaxEdits /\ work[g][p].attempts \in 0..MaxAttempts
  /\ \A w \in Worker : call[w].step \in {"free", "claimed", "embedded"}

\* At most one index answers searches; a page with nothing left to do has the
\* vectors of its current text in every generation in use, so an index never
\* goes live with stale pages; and a removed page has no vectors anywhere, not
\* even from an answer that was under way (providers/index.go:18-19, 250, 0023).
VectorsCurrent ==
  /\ \A g, h \in Gen : Active(g) /\ Active(h) => g = h
  /\ \A g \in Gen, p \in Page :
       /\ gen[g] \in {"active", "building"} /\ ~work[g][p].queued => vectors[g][p] = text[p]
       /\ text[p] = NoText => vectors[g][p] = NoText
===============================================================================
