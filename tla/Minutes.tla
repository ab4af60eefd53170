-------------------------------- MODULE Minutes --------------------------------
(***************************************************************************)
(* internal/boox/minutes.go, auto.go: the audio minutes of one notebook.    *)
(* A request, the owner's or an automatic one, lists the notebook's         *)
(* recordings and resets the minutes' row.  Workers lease one transcription *)
(* at a time, and the row once its inputs are there; a provider's answer    *)
(* is stored if the lease still holds.  Meanwhile tablets replace           *)
(* recordings and ink, and the owner changes the provider, asks again,      *)
(* cancels and retries.                                                     *)
(***************************************************************************)
EXTENDS Naturals, Sequences, Functions

CONSTANTS
  Recording,   \* 1..n, in the order of the files' names
  ByTime,      \* the recordings in the order they were made
  Body,        \* contents of a recording
  NoBody,
  Identity,    \* settings of the transcription provider
  Worker,
  Requester,   \* browsers, and the automatic pass of each process
  NoWorker,
  MaxAttempts, \* a failure at this many attempts is final (5)
  MaxRequests, \* bound
  MaxEdits     \* bound: changes by tablets and of the provider, repeated requests, lapsed leases

\* Every recording has a place in the order of time.
MinutesAssumption ==
  /\ ByTime \in Seq(Recording) /\ DOMAIN ByTime = Recording /\ Range(ByTime) = Recording
  /\ NoBody \notin Body /\ NoWorker \notin Worker
  /\ MaxAttempts \in Nat \ {0} /\ MaxRequests \in Nat /\ MaxEdits \in Nat

VARIABLES
  audio,      \* the live recordings
  page,       \* the row of the notebook's page in the recognition queue, and its ink
  identity,
  trans,      \* alexandria_transcription
  min,        \* alexandria_note_minutes
  work,       \* the locals of each ProcessMinutes
  ask,        \* the locals of each requestMinutes
  retrying,   \* a retry is between its two statements
  sent,       \* how many notes each request's automatic send queued
  asked,      \* requests made
  changes

mvars == <<audio, page, identity, trans, min, work, ask, retrying, sent, asked, changes>>

Source == Recording \X Body
Request == 1..MaxRequests
NoRequest == 0
Active == {"queued", "processing"}

\* recordings: the recordings of notebook a, with their bodies, in a given order.
Listing(a, order) ==
  LET upto[k \in 0..Len(order)] ==
        IF k = 0 THEN <<>>
        ELSE IF a[order[k]] = NoBody THEN upto[k - 1]
        ELSE Append(upto[k - 1], <<order[k], a[order[k]]>>)
  IN  upto[Len(order)]
ByName == [r \in Recording |-> r]

\* The hash's inputs: the recordings in the order they were listed, the text.
NoText == 0
NoInput == <<>>
TextOf(p) == IF p.state = "ready" THEN p.ink ELSE NoText

Idle == [job |-> "none"]
Sources == Seq(Source)
Text == 0..(MaxEdits + 1)

TransRow ==
  [state : {"none", "queued", "processing", "ready", "failed"}, token : Worker \cup {NoWorker},
   leased : BOOLEAN, attempts : 0..MaxAttempts, config : Identity, made : Nat]
MinRow ==
  [state : {"none", "queued", "processing", "ready", "failed", "cancelled"},
   request : {NoRequest} \cup Request, recordings : Sources, token : Worker \cup {NoWorker},
   leased : BOOLEAN, attempts : 0..(MaxAttempts - 1), input : {NoInput} \cup Sources \X Text,
   from : SUBSET (Source \X Nat)]

\* What a worker and a request have in hand.
Transcribing ==
  [job : {"transcribe"}, of : Source, config : Identity, attempts : 0..(MaxAttempts - 1)]
Reading ==
  [job : {"transcribe"}, of : Source, config : Identity, attempts : 0..(MaxAttempts - 1),
   read : {TRUE}]
Summarizing ==
  [job : {"summarize"}, request : Request, attempts : 0..(MaxAttempts - 1),
   recordings : Sources, from : SUBSET (Source \X Nat), text : Text, left : Sources,
   pages : BOOLEAN]
Sending == [job : {"send"}, request : Request]
Requesting ==
  [job : {"request"}, id : Request, automatic : BOOLEAN, config : Identity,
   recordings : Sources, queue : BOOLEAN]

TypeOK ==
  /\ audio \in [Recording -> Body \cup {NoBody}]
  /\ page \in [state : {"other", "pending", "ready"}, ink : 1..(MaxEdits + 1)]
  /\ identity \in Identity
  /\ trans \in [Source -> TransRow] /\ min \in MinRow
  /\ work \in [Worker -> {Idle} \cup Transcribing \cup Reading \cup Summarizing \cup Sending]
  /\ ask \in [Requester -> {Idle} \cup Requesting]
  /\ retrying \in BOOLEAN /\ sent \in [Request -> Nat]
  /\ asked \in 0..MaxRequests /\ changes \in 0..MaxEdits

Init ==
  /\ audio \in [Recording -> Body \cup {NoBody}]
  /\ page = [state |-> "other", ink |-> 1]
  /\ identity \in Identity
  /\ trans = [s \in Source |-> [state |-> "none", token |-> NoWorker, leased |-> FALSE,
                                attempts |-> 0, config |-> identity, made |-> 0]]
  /\ min = [state |-> "none", request |-> NoRequest, recordings |-> <<>>, token |-> NoWorker,
            leased |-> FALSE, attempts |-> 0, input |-> NoInput, from |-> {}]
  /\ work = [w \in Worker |-> Idle] /\ ask = [q \in Requester |-> Idle]
  /\ retrying = FALSE /\ sent = [id \in Request |-> 0] /\ asked = 0 /\ changes = 0

-----------------------------------------------------------------------------
(* Requests.                                                                *)

\* A snapshot of the notebook.
Snapshot(q, id, automatic, recognize) ==
  /\ ask[q] = Idle
  /\ ask' = [ask EXCEPT ![q] =
       [job |-> "request", id |-> id, automatic |-> automatic, config |-> identity,
        recordings |-> Listing(audio, ByTime), queue |-> recognize /\ page.state = "other"]]
  /\ UNCHANGED <<audio, page, identity, trans, min, work, retrying, sent>>

Review(q) ==
  /\ asked < MaxRequests /\ asked' = asked + 1
  /\ \E automatic, recognize \in BOOLEAN :
       (automatic => recognize) /\ Snapshot(q, asked + 1, automatic, recognize)
  /\ UNCHANGED changes

\* A browser sends its request a second time.
Repeat(q) ==
  /\ changes < MaxEdits /\ changes' = changes + 1
  /\ \E id \in 1..asked : Snapshot(q, id, FALSE, TRUE)
  /\ UNCHANGED asked

\* An automatic request is for a recording the last request did not have, and
\* leaves work in progress alone.
Handled(a) ==
  a.automatic /\ (min.state \in Active \/ Range(a.recordings) \subseteq Range(min.recordings))

\* The transcription of a requested recording: kept, unless it failed or another
\* provider made it.
Wanted(t, config) ==
  IF t.state \in {"none", "failed"} \/ (t.state = "ready" /\ t.config # config)
  THEN [t EXCEPT !.state = "queued", !.config = config, !.attempts = 0,
                 !.token = NoWorker, !.leased = FALSE]
  ELSE t

\* The transaction of requestMinutes, under the notebook's advisory lock.
Commit(q) ==
  LET a == ask[q] IN
  /\ a # Idle /\ ~Handled(a) /\ min.request # a.id
  /\ page' = IF a.queue THEN [page EXCEPT !.state = "pending"] ELSE page
  /\ trans' = [s \in Source |-> IF s \in Range(a.recordings) THEN Wanted(trans[s], a.config)
                                ELSE trans[s]]
  /\ min' = [min EXCEPT !.state = "queued", !.request = a.id, !.recordings = a.recordings,
                        !.attempts = 0, !.token = NoWorker, !.leased = FALSE]
  /\ ask' = [ask EXCEPT ![q] = Idle]
  /\ UNCHANGED <<audio, identity, work, retrying, sent, asked, changes>>

\* Already handled, a repeated request, or an error.
GiveUp(q) ==
  /\ ask[q] # Idle /\ ask' = [ask EXCEPT ![q] = Idle]
  /\ UNCHANGED <<audio, page, identity, trans, min, work, retrying, sent, asked, changes>>

\* ControlMinutes.
Cancel ==
  /\ min.state \in Active
  /\ min' = [min EXCEPT !.state = "cancelled", !.token = NoWorker, !.leased = FALSE]
  /\ UNCHANGED <<audio, page, identity, trans, work, ask, retrying, sent, asked, changes>>

\* Retry is two statements: the failed transcriptions of the minutes, the minutes.
RetryTranscripts ==
  /\ ~retrying /\ min.state # "none" /\ retrying' = TRUE
  /\ trans' = [s \in Source |->
       IF s \in Range(min.recordings) /\ trans[s].state = "failed"
       THEN [trans[s] EXCEPT !.state = "queued", !.attempts = 0] ELSE trans[s]]
  /\ UNCHANGED <<audio, page, identity, min, work, ask, sent, asked, changes>>

RetryMinutes ==
  /\ retrying /\ retrying' = FALSE
  /\ min' = IF min.state \in {"failed", "cancelled"}
            THEN [min EXCEPT !.state = "queued", !.attempts = 0, !.token = NoWorker,
                             !.leased = FALSE]
            ELSE min
  /\ UNCHANGED <<audio, page, identity, trans, work, ask, sent, asked, changes>>

-----------------------------------------------------------------------------
(* processTranscription.                                                    *)

ClaimTranscription(w) ==
  \E s \in Source :
    /\ work[w] = Idle /\ trans[s].state \in Active /\ ~trans[s].leased
    /\ trans' = [trans EXCEPT ![s].state = "processing", ![s].token = w, ![s].leased = TRUE]
    /\ work' = [work EXCEPT ![w] = [job |-> "transcribe", of |-> s, config |-> identity,
                                    attempts |-> trans[s].attempts]]
    /\ UNCHANGED <<audio, page, identity, min, ask, retrying, sent, asked, changes>>

\* A statement of the worker goes through only while its lease is the row's.
SetTrans(w, new) ==
  LET s == work[w].of IN
  trans' = IF trans[s].token = w THEN [trans EXCEPT ![s] = new] ELSE trans

Final(w, terminal) == terminal \/ work[w].attempts + 1 >= MaxAttempts

\* The provider or the store failed, or the recording is no longer the one asked for.
FailTranscription(w) ==
  /\ work[w].job = "transcribe"
  /\ LET s == work[w].of IN
     \E terminal \in BOOLEAN :
       SetTrans(w, [trans[s] EXCEPT !.state = IF Final(w, terminal) THEN "failed" ELSE "queued",
                      !.attempts = @ + 1, !.token = NoWorker, !.leased = FALSE])
  /\ work' = [work EXCEPT ![w] = Idle]
  /\ UNCHANGED <<audio, page, identity, min, ask, retrying, sent, asked, changes>>

\* The body is checked before it is sent to the provider.
ReadRecording(w) ==
  /\ work[w].job = "transcribe" /\ audio[work[w].of[1]] = work[w].of[2]
  /\ work' = [work EXCEPT ![w] = [job |-> "transcribe", of |-> @.of, config |-> @.config,
                                  attempts |-> @.attempts, read |-> TRUE]]
  /\ UNCHANGED <<audio, page, identity, trans, min, ask, retrying, sent, asked, changes>>

Transcribe(w) ==
  /\ work[w].job = "transcribe" /\ "read" \in DOMAIN work[w]
  /\ LET s == work[w].of IN
     SetTrans(w, [trans[s] EXCEPT !.state = "ready", !.config = work[w].config, !.made = @ + 1,
                    !.token = NoWorker, !.leased = FALSE])
  /\ work' = [work EXCEPT ![w] = Idle]
  /\ UNCHANGED <<audio, page, identity, min, ask, retrying, sent, asked, changes>>

-----------------------------------------------------------------------------
(* processSummary.                                                          *)

ClaimMinutes(w) ==
  /\ work[w] = Idle /\ min.state \in Active /\ ~min.leased
  /\ \A s \in Source : trans[s].state \in Active => trans[s].leased
  /\ min' = [min EXCEPT !.state = "processing", !.token = w, !.leased = TRUE]
  /\ work' = [work EXCEPT ![w] =
       [job |-> "summarize", request |-> min.request, attempts |-> min.attempts,
        recordings |-> min.recordings, from |-> {}, text |-> NoText, left |-> min.recordings,
        pages |-> FALSE]]
  /\ UNCHANGED <<audio, page, identity, trans, ask, retrying, sent, asked, changes>>

\* Fault: the answer is stored whoever holds the lease, if the row waits for one.
HoldsByState(w) == min.state = "processing"

\* The fence of every statement.
Holds(w) == min.token = w /\ min.request = work[w].request

Settle(w, state) ==
  /\ min' = IF Holds(w)
            THEN [min EXCEPT !.state = state, !.token = NoWorker, !.leased = FALSE] ELSE min
  /\ work' = [work EXCEPT ![w] = Idle]

\* The next transcript: waited for, the end of the minutes, or an input.
ReadTranscript(w) ==
  /\ work[w].job = "summarize" /\ work[w].left # <<>>
  /\ LET s == Head(work[w].left)
         state == trans[s].state
     IN
     \/ state \in Active /\ Settle(w, "queued")
     \/ state \in {"none", "failed"} /\ Settle(w, "failed")
     \/ /\ state = "ready" /\ UNCHANGED min
        /\ work' = [work EXCEPT ![w].left = Tail(@), ![w].from = @ \cup {<<s, trans[s].made>>}]
  /\ UNCHANGED <<audio, page, identity, trans, ask, retrying, sent, asked, changes>>

\* The page's text, or nothing to summarize.
ReadPages(w) ==
  /\ work[w].job = "summarize" /\ work[w].left = <<>> /\ ~work[w].pages
  /\ \/ page.state = "pending" /\ Settle(w, "queued")
     \/ page.state # "pending" /\ work[w].from = {} /\ TextOf(page) = NoText /\ Settle(w, "failed")
     \/ /\ page.state # "pending" /\ (work[w].from # {} \/ TextOf(page) # NoText)
        /\ work' = [work EXCEPT ![w].text = TextOf(page), ![w].pages = TRUE]
        /\ UNCHANGED min
  /\ UNCHANGED <<audio, page, identity, trans, ask, retrying, sent, asked, changes>>

\* The model or the store failed, or nobody spoke.
FailSummary(w) ==
  /\ work[w].job = "summarize"
  /\ \E terminal \in BOOLEAN :
       min' = IF ~Holds(w) THEN min
              ELSE [min EXCEPT !.state = IF Final(w, terminal) THEN "failed" ELSE "queued",
                      !.attempts = IF Final(w, terminal) THEN @ ELSE @ + 1,
                      !.token = NoWorker, !.leased = FALSE]
  /\ work' = [work EXCEPT ![w] = Idle]
  /\ UNCHANGED <<audio, page, identity, trans, ask, retrying, sent, asked, changes>>

\* The answer, with the hash of what was read.  The automatic send follows whether
\* or not the statement found its row.
Finish(w) ==
  /\ work[w].job = "summarize" /\ work[w].pages
  /\ min' = IF Holds(w)
            THEN [min EXCEPT !.state = "ready", !.attempts = 0, !.token = NoWorker,
                    !.leased = FALSE, !.input = <<work[w].recordings, work[w].text>>,
                    !.from = work[w].from]
            ELSE min
  /\ work' = [work EXCEPT ![w] = [job |-> "send", request |-> work[w].request]]
  /\ UNCHANGED <<audio, page, identity, trans, ask, retrying, sent, asked, changes>>

\* QueueTextNote knows the request it has queued a note for.
Unsent(id) == sent[id] = 0

\* SendMinutesToBOOX: whatever minutes are stored.
Send(w) ==
  /\ work[w].job = "send"
  /\ \/ /\ min.input # NoInput /\ Unsent(work[w].request)
        /\ sent' = [sent EXCEPT ![work[w].request] = @ + 1]
     \/ sent' = sent
  /\ work' = [work EXCEPT ![w] = Idle]
  /\ UNCHANGED <<audio, page, identity, trans, min, ask, retrying, asked, changes>>

-----------------------------------------------------------------------------
Crash(w) ==
  /\ work[w] # Idle /\ work' = [work EXCEPT ![w] = Idle]
  /\ UNCHANGED <<audio, page, identity, trans, min, ask, retrying, sent, asked, changes>>

Lapse ==
  /\ changes < MaxEdits /\ changes' = changes + 1
  /\ \/ /\ min.leased /\ min' = [min EXCEPT !.leased = FALSE] /\ UNCHANGED trans
     \/ /\ \E s \in Source : trans[s].leased /\ trans' = [trans EXCEPT ![s].leased = FALSE]
        /\ UNCHANGED min
  /\ UNCHANGED <<audio, page, identity, work, ask, retrying, sent, asked>>

\* A tablet replaces or removes a recording, or writes on the page; the owner
\* changes the provider.
Change ==
  /\ changes < MaxEdits /\ changes' = changes + 1
  /\ \/ /\ \E r \in Recording, b \in Body \cup {NoBody} :
             b # audio[r] /\ audio' = [audio EXCEPT ![r] = b]
        /\ UNCHANGED <<page, identity>>
     \/ /\ page' = [ink |-> changes + 2,
                    state |-> IF page.state = "other" THEN "other" ELSE "pending"]
        /\ UNCHANGED <<audio, identity>>
     \/ identity' \in Identity \ {identity} /\ UNCHANGED <<audio, page>>
  /\ UNCHANGED <<trans, min, work, ask, retrying, sent, asked>>

Recognize ==
  /\ page.state = "pending"
  /\ \E state \in {"ready", "other"} : page' = [page EXCEPT !.state = state]
  /\ UNCHANGED <<audio, identity, trans, min, work, ask, retrying, sent, asked, changes>>

Next ==
  \/ \E q \in Requester : Review(q) \/ Repeat(q) \/ Commit(q) \/ GiveUp(q)
  \/ Cancel \/ RetryTranscripts \/ RetryMinutes
  \/ \E w \in Worker :
       \/ ClaimTranscription(w) \/ FailTranscription(w) \/ ReadRecording(w) \/ Transcribe(w)
       \/ ClaimMinutes(w) \/ ReadTranscript(w) \/ ReadPages(w) \/ FailSummary(w)
       \/ Finish(w) \/ Send(w) \/ Crash(w)
  \/ Lapse \/ Change \/ Recognize

Spec == Init /\ [][Next]_mvars

-----------------------------------------------------------------------------
(* Properties.                                                              *)

\* Minutes that are ready were made from the transcripts shown beside them: of the
\* recordings of their request, none of which a worker will still replace
\* (minutes.go:280-313, 419-560; docs/note-minutes.md, "Flow").
MadeFromShown ==
  min.state = "ready" =>
    /\ {f[1] : f \in min.from} = Range(min.recordings)
    /\ \A f \in min.from : trans[f[1]].state = "ready" /\ trans[f[1]].made = f[2]

\* A request sends one note to the tablets at most, however often its summary is
\* finished (minutes.go:549-558: "The send is keyed on the minutes request ID, so
\* replays never duplicate it", docs/state-history-through-20261019.md:412).
SentByRequest == \A id \in Request : sent[id] <= 1

\* Minutes that are not marked out of date were made from the notebook as it is
\* (minutes_views.go:234-244).
Stale == min.input # <<Listing(audio, ByName), TextOf(page)>>
FreshOrFlagged ==
  min.state = "ready" /\ ~Stale =>
    {f[1] : f \in min.from} = {<<r, audio[r]>> : r \in {x \in Recording : audio[x] # NoBody}}
===============================================================================
