-------------------------- MODULE RecognitionProofs ---------------------------
(***************************************************************************)
(* Theorems of the two parts of the server that hand work to the            *)
(* recognition queue: the minutes of recordings, and runs of recognition    *)
(* over the library, each for every value of its constants.  A lemma about  *)
(* one of them assumes only its constants' assumption.                      *)
(***************************************************************************)
EXTENDS RecognitionParts, Naturals, Sequences, FiniteSets, TLAPS, FiniteSetTheorems,
  SequenceTheorems, WellFoundedInduction

-----------------------------------------------------------------------------
(* The minutes of recordings.                                               *)

\* Induction, as a fact about sets.
LEMMA NaturalsAll ==
  ASSUME NEW S, 0 \in S, \A n \in Nat : n \in S => n + 1 \in S
  PROVE  Nat \subseteq S
<1> DEFINE R == {p \in Nat \X Nat : p[1] < p[2]}
           T == Nat \ S
<1>1. IsWellFoundedOn(R, Nat)
  BY NatLessThanWellFounded DEF OpToRel
<1>2. SUFFICES ASSUME T # {} PROVE FALSE
  OBVIOUS
<1>3. PICK x \in T : \A y \in T : ~(<<y, x>> \in R)
  <2> HIDE DEF R, T
  <2>1. T \subseteq Nat
    BY DEF T
  <2> QED
    BY <1>1, <1>2, <2>1, WFMin
<1>4. x \in Nat /\ x # 0
  OBVIOUS
<1>5. x - 1 \in Nat /\ x - 1 < x
  BY <1>4
<1>6. x - 1 \in S
  BY <1>3, <1>5
<1>7. x \in S
  BY <1>4, <1>5, <1>6
<1> QED
  BY <1>7

\* What a listing adds for the k-th recording of the order.
NextListed(a, order, u, k) ==
  IF k = 0 THEN <<>>
  ELSE IF a[order[k]] = NoBody THEN u[k - 1]
  ELSE Append(u[k - 1], <<order[k], a[order[k]]>>)

\* The recursion of a listing has a solution.
LEMMA ListingStart ==
  ASSUME NEW a, NEW order, Len(order) \in Nat
  PROVE  \E u : u = [k \in 0..Len(order) |-> NextListed(a, order, u, k)]
<1> DEFINE Solved(n) == \E u : u = [k \in 0..n |-> NextListed(a, order, u, k)]
           S == {n \in Nat : Solved(n)}
<1>1. 0 \in S
  <2> DEFINE u == [k \in 0..0 |-> <<>>]
  <2>1. u = [k \in 0..0 |-> NextListed(a, order, u, k)]
    BY DEF NextListed
  <2> QED
    BY <2>1
<1>2. ASSUME NEW n \in Nat, n \in S PROVE n + 1 \in S
  <2>1. PICK u : u = [k \in 0..n |-> NextListed(a, order, u, k)]
    BY <1>2
  <2> DEFINE v == [k \in 0..(n + 1) |-> IF k \in 0..n THEN u[k] ELSE NextListed(a, order, u, k)]
  <2>2. \A k \in 0..n : v[k] = u[k]
    OBVIOUS
  <2>3. \A k \in 0..(n + 1) : NextListed(a, order, v, k) = NextListed(a, order, u, k)
    <3> TAKE k \in 0..(n + 1)
    <3>1. k = 0 \/ k - 1 \in 0..n
      OBVIOUS
    <3> HIDE DEF v
    <3> QED
      BY <2>2, <3>1 DEF NextListed
  <2>4. \A k \in 0..(n + 1) : v[k] = NextListed(a, order, u, k)
    <3> TAKE k \in 0..(n + 1)
    <3> QED
      BY <2>1
  <2>5. v = [k \in 0..(n + 1) |-> NextListed(a, order, v, k)]
    BY <2>3, <2>4
  <2>6. Solved(n + 1)
    <3> HIDE DEF v
    <3> QED
      BY <2>5
  <2> QED
    BY <2>6
<1>3. Nat \subseteq S
  <2> HIDE DEF S
  <2> QED
    BY <1>1, <1>2, NaturalsAll
<1> QED
  BY <1>3

\* What is listed: the recordings of the order that are there.
LEMMA ListingOf ==
  ASSUME NEW a \in [Recording -> Body \cup {NoBody}], NEW order \in Seq(Recording)
  PROVE  /\ Minute!Listing(a, order) \in Minute!Sources
         /\ Minute!Range(Minute!Listing(a, order))
              = {<<r, a[r]>> : r \in {x \in Minute!Range(order) : a[x] # NoBody}}
<1> DEFINE N == Len(order)
           u == CHOOSE w : w = [k \in 0..N |-> NextListed(a, order, w, k)]
           Upto(k) == {<<order[i], a[order[i]]>> : i \in {j \in 1..k : a[order[j]] # NoBody}}
           Good(k) == u[k] \in Seq(Minute!Source) /\ {u[k][i] : i \in 1..Len(u[k])} = Upto(k)
           S == {k \in Nat : k <= N => Good(k)}
<1>0. N \in Nat
  OBVIOUS
<1>1. u = [k \in 0..N |-> NextListed(a, order, u, k)]
  <2>1. \E w : w = [k \in 0..N |-> NextListed(a, order, w, k)]
    BY <1>0, ListingStart
  <2> HIDE DEF N
  <2> QED
    BY <2>1, Zenon
<1>2. Minute!Listing(a, order) = u[N]
  BY DEF Minute!Listing, NextListed
<1> HIDE DEF u
<1>3. \A k \in 0..N : u[k] = NextListed(a, order, u, k)
  BY <1>1
<1>4. 0 \in S
  <2>1. u[0] = NextListed(a, order, u, 0)
    <3>1. 0 \in 0..N
      BY <1>0
    <3> QED
      BY <1>3, <3>1
  <2>2. NextListed(a, order, u, 0) = <<>>
    BY DEF NextListed
  <2>3. Upto(0) = {}
    OBVIOUS
  <2>4. Good(0)
    <3> HIDE DEF Upto, N
    <3>1. \A v : v = <<>> => v \in Seq(Minute!Source) /\ {v[i] : i \in 1..Len(v)} = {}
      OBVIOUS
    <3> QED
      BY <2>1, <2>2, <2>3, <3>1
  <2> HIDE DEF Good
  <2> QED
    BY <2>4
<1>5. ASSUME NEW k \in Nat, k \in S PROVE k + 1 \in S
  <2> SUFFICES ASSUME k + 1 <= N
               PROVE  Good(k + 1)
    <3> HIDE DEF Good
    <3> QED
      OBVIOUS
  <2> DEFINE r == order[k + 1]
             x == <<r, a[r]>>
  <2>1. u[k] \in Seq(Minute!Source) /\ {u[k][i] : i \in 1..Len(u[k])} = Upto(k)
    <3>1. Good(k)
      <4> HIDE DEF Good
      <4> QED
        BY <1>0, <1>5
    <3> QED
      BY <3>1
  <2>2. r \in Recording /\ a[r] \in Body \cup {NoBody}
    OBVIOUS
  <2>3. u[k + 1] = IF a[r] = NoBody THEN u[k] ELSE Append(u[k], x)
    BY <1>3 DEF NextListed
  <2>4. CASE a[r] = NoBody
    <3>1. Upto(k + 1) = Upto(k)
      BY <2>4
    <3> QED
      BY <2>1, <2>3, <2>4, <3>1
  <2>5. CASE a[r] # NoBody
    <3>1. x \in Minute!Source
      BY <2>2, <2>5 DEF Minute!Source
    <3>2. Upto(k + 1) = Upto(k) \cup {x}
      <4>1. \A j \in 1..(k + 1) : j \in 1..k \/ j = k + 1
        OBVIOUS
      <4>2. k + 1 \in 1..(k + 1) /\ \A j \in 1..k : j \in 1..(k + 1)
        OBVIOUS
      <4> QED
        BY <2>5, <4>1, <4>2
    <3> DEFINE v == u[k]
               y == Append(v, x)
    <3>3. y \in Seq(Minute!Source) /\ Len(y) = Len(v) + 1
          /\ y[Len(v) + 1] = x /\ \A i \in 1..Len(v) : y[i] = v[i]
      BY <2>1, <3>1
    <3>4. {y[i] : i \in 1..Len(y)} = {v[i] : i \in 1..Len(v)} \cup {x}
      <4>1. Len(v) \in Nat
        BY <2>1
      <4>2. \A i \in 1..(Len(v) + 1) : i \in 1..Len(v) \/ i = Len(v) + 1
        BY <4>1
      <4>3. Len(v) + 1 \in 1..(Len(v) + 1) /\ \A i \in 1..Len(v) : i \in 1..(Len(v) + 1)
        BY <4>1
      <4> HIDE DEF v, y, x
      <4> QED
        BY <3>3, <4>2, <4>3
    <3>5. u[k + 1] = y
      BY <2>3, <2>5
    <3>6. {y[i] : i \in 1..Len(y)} = Upto(k + 1)
      <4> HIDE DEF Upto, y, x, v
      <4>1. {v[i] : i \in 1..Len(v)} = Upto(k)
        BY <2>1 DEF v
      <4> QED
        BY <3>2, <3>4, <4>1
    <3> HIDE DEF y, Upto
    <3> QED
      BY <3>3, <3>5, <3>6
  <2> QED
    BY <2>4, <2>5
<1>6. Nat \subseteq S
  <2> HIDE DEF S
  <2> QED
    BY <1>4, <1>5, NaturalsAll
<1>7. u[N] \in Seq(Minute!Source) /\ {u[N][i] : i \in 1..Len(u[N])} = Upto(N)
  <2>1. Good(N)
    <3> HIDE DEF Good
    <3> QED
      BY <1>0, <1>6
  <2> QED
    BY <2>1
<1>8. Minute!Range(u[N]) = {u[N][i] : i \in 1..Len(u[N])}
  BY <1>7 DEF Minute!Range
<1>9. Upto(N) = {<<r, a[r]>> : r \in {x \in Minute!Range(order) : a[x] # NoBody}}
  BY DEF Minute!Range
<1> QED
  BY <1>2, <1>7, <1>8, <1>9 DEF Minute!Sources

\* The transcripts a summary was made from are shown as it read them.
ShownFrom(from) == \A f \in from : trans[f[1]].state = "ready" /\ trans[f[1]].made = f[2]

\* A transcription that somebody leased is being made, and may still be tried.
RowsFenced ==
  \A s \in Minute!Source :
    /\ trans[s].token # NoScribe => trans[s].state = "processing"
    /\ trans[s].state \in Minute!Active => trans[s].attempts < MaxDrafts

\* Minutes that somebody leased are being made; ready ones are of their request's
\* recordings, which they name.
MinutesMade ==
  /\ min.token # NoScribe => min.state = "processing"
  /\ min.state # "none" => min.request \in Minute!Request
  /\ min.state = "ready" =>
       /\ {f[1] : f \in min.from} = Minute!Range(min.recordings)
       /\ min.input # Minute!NoInput /\ min.input[1] = min.recordings
       /\ ShownFrom(min.from)

\* A worker counts the attempts of the transcription it holds.
AttemptsKnown ==
  \A w \in Scribe :
    desk[w].job = "transcribe" /\ trans[desk[w].of].token = w
      => trans[desk[w].of].attempts = desk[w].attempts

\* A worker that holds the minutes works on their request, and what it has read and
\* has left are their recordings.
SummaryHeld ==
  \A w \in Scribe : desk[w].job = "summarize" =>
    /\ desk[w].pages => desk[w].left = <<>>
    /\ min.token = w =>
         /\ desk[w].request = min.request /\ desk[w].recordings = min.recordings
         /\ desk[w].attempts = min.attempts
         /\ {f[1] : f \in desk[w].from} \cup Minute!Range(desk[w].left) = Minute!Range(min.recordings)
         /\ ShownFrom(desk[w].from)

MinutesInv ==
  /\ Minute!TypeOK /\ RowsFenced /\ MinutesMade /\ AttemptsKnown /\ SummaryHeld
  /\ Minute!SentByRequest

\* A step leaves the transcripts that are ready as they are.
ReadyStays ==
  \A s \in Minute!Source :
    trans[s].state = "ready" => trans'[s].state = "ready" /\ trans'[s].made = trans[s].made

\* What a worker has in hand, by its job.
LEMMA DeskKinds ==
  ASSUME Minute!TypeOK, NEW w \in Scribe
  PROVE  /\ desk[w].job = "transcribe" => desk[w] \in Minute!Transcribing \cup Minute!Reading
         /\ desk[w].job = "summarize" => desk[w] \in Minute!Summarizing
         /\ desk[w].job = "send" => desk[w] \in Minute!Sending
<1>1. desk[w] \in {Minute!Idle} \cup Minute!Transcribing \cup Minute!Reading \cup Minute!Summarizing
                   \cup Minute!Sending
  BY DEF Minute!TypeOK
<1>2. /\ Minute!Idle.job = "none"
      /\ \A d \in Minute!Transcribing \cup Minute!Reading : d.job = "transcribe"
      /\ \A d \in Minute!Summarizing : d.job = "summarize"
      /\ \A d \in Minute!Sending : d.job = "send"
  BY DEF Minute!Idle, Minute!Transcribing, Minute!Reading, Minute!Summarizing, Minute!Sending
<1> HIDE DEF Minute!TypeOK
<1> QED
  BY <1>1, <1>2

\* What a worker that transcribes has in hand.
LEMMA TranscribingIs ==
  ASSUME Minute!TypeOK, NEW w \in Scribe, desk[w].job = "transcribe"
  PROVE  /\ desk[w].of \in Minute!Source /\ desk[w].config \in Voice
         /\ desk[w].attempts \in 0..(MaxDrafts - 1)
BY DeskKinds DEF Minute!Transcribing, Minute!Reading

\* What a worker that summarizes has in hand.
LEMMA SummarizingIs ==
  ASSUME Minute!TypeOK, NEW w \in Scribe, desk[w].job = "summarize"
  PROVE  /\ desk[w].request \in Minute!Request /\ desk[w].attempts \in 0..(MaxDrafts - 1)
         /\ desk[w].recordings \in Minute!Sources /\ desk[w].left \in Minute!Sources
         /\ desk[w].from \in SUBSET (Minute!Source \X Nat) /\ desk[w].text \in Minute!Text
         /\ desk[w].pages \in BOOLEAN
BY DeskKinds DEF Minute!Summarizing

\* The minutes as they are, while ready transcripts stay.
LEMMA MinutesStand ==
  ASSUME Minute!TypeOK, MinutesMade, ReadyStays, UNCHANGED min
  PROVE  MinutesMade'
<1>1. \A f \in min.from : f[1] \in Minute!Source
  BY DEF Minute!TypeOK, Minute!MinRow
<1>2. ShownFrom(min.from) => ShownFrom(min.from)'
  BY <1>1 DEF ShownFrom, ReadyStays
<1> QED
  BY <1>2 DEF MinutesMade

\* The minutes are not ready and nobody's.
LEMMA MinutesReset ==
  ASSUME min'.token = NoScribe, min'.state # "ready", min'.request \in Minute!Request
  PROVE  MinutesMade'
BY DEF MinutesMade, Minute!Request

\* Workers go on with the summaries they had, or hold none.
LEMMA SummariesStand ==
  ASSUME Minute!MinutesAssumption, Minute!TypeOK, SummaryHeld, ReadyStays,
         \A w \in Scribe : desk'[w].job = "summarize" => desk'[w] = desk[w],
         \A w \in Scribe : min'.token = w =>
           min.token = w /\ min'.request = min.request /\ min'.recordings = min.recordings
           /\ min'.attempts = min.attempts
  PROVE  SummaryHeld'
<1> SUFFICES ASSUME NEW w \in Scribe, desk'[w].job = "summarize"
             PROVE  /\ desk'[w].pages => desk'[w].left = <<>>
                    /\ min'.token = w =>
                         /\ desk'[w].request = min'.request /\ desk'[w].recordings = min'.recordings
                         /\ desk'[w].attempts = min'.attempts
                         /\ {f[1] : f \in desk'[w].from} \cup Minute!Range(desk'[w].left)
                              = Minute!Range(min'.recordings)
                         /\ ShownFrom(desk[w].from)'
  BY DEF SummaryHeld
<1>1. desk'[w] = desk[w] /\ desk[w].job = "summarize"
  OBVIOUS
<1>2. \A f \in desk[w].from : f[1] \in Minute!Source
  BY <1>1, SummarizingIs
<1>3. ShownFrom(desk[w].from) => ShownFrom(desk[w].from)'
  BY <1>1, <1>2 DEF ShownFrom, ReadyStays
<1> QED
  BY <1>1, <1>3 DEF SummaryHeld

\* Workers go on with the transcriptions they had, or hold none.
LEMMA AttemptsStand ==
  ASSUME Minute!TypeOK, AttemptsKnown,
         \A w \in Scribe : desk'[w].job = "transcribe" =>
           desk[w].job = "transcribe" /\ desk'[w].of = desk[w].of
           /\ desk'[w].attempts = desk[w].attempts,
         \A s \in Minute!Source : trans'[s].token \in Scribe =>
           trans'[s].token = trans[s].token /\ trans'[s].attempts = trans[s].attempts
  PROVE  AttemptsKnown'
<1> SUFFICES ASSUME NEW w \in Scribe, desk'[w].job = "transcribe", trans'[desk'[w].of].token = w
             PROVE  trans'[desk'[w].of].attempts = desk'[w].attempts
  BY DEF AttemptsKnown
<1>1. desk[w].of \in Minute!Source
  BY TranscribingIs
<1> QED
  BY <1>1 DEF AttemptsKnown

\* The initial states satisfy the invariant.
LEMMA MinutesInit ==
  ASSUME Minute!MinutesAssumption, Minute!Init PROVE MinutesInv
<1> USE DEF Minute!Init
<1>1. Minute!TypeOK
  <2>1. 0 \in 0..MaxDrafts /\ 0 \in 0..(MaxDrafts - 1) /\ 1 \in 1..(MaxTurns + 1)
        /\ 0 \in 0..MaxRequests /\ 0 \in 0..MaxTurns
    BY DEF Minute!MinutesAssumption
  <2>2. trans \in [Minute!Source -> Minute!TransRow]
    BY <2>1 DEF Minute!TransRow
  <2>3. min \in Minute!MinRow
    <3>1. <<>> \in Minute!Sources
      BY DEF Minute!Sources
    <3> QED
      BY <2>1, <3>1 DEF Minute!MinRow, Minute!NoRequest
  <2>4. sheet \in [state : {"other", "pending", "ready"}, ink : 1..(MaxTurns + 1)]
    BY <2>1
  <2>5. sent \in [Minute!Request -> Nat]
    OBVIOUS
  <2> QED
    BY <2>1, <2>2, <2>3, <2>4, <2>5 DEF Minute!TypeOK
<1>2. RowsFenced
  BY DEF RowsFenced, Minute!Active
<1>3. MinutesMade
  BY DEF MinutesMade
<1>4. AttemptsKnown /\ SummaryHeld
  BY DEF AttemptsKnown, SummaryHeld, Minute!Idle
<1>5. Minute!SentByRequest
  BY DEF Minute!SentByRequest
<1> QED
  BY <1>1, <1>2, <1>3, <1>4, <1>5 DEF MinutesInv

\* Requests are taken and given up: only what they have in hand moves.
LEMMA RequestsMove ==
  ASSUME Minute!MinutesAssumption, MinutesInv,
         ask' \in [Requester -> {Minute!Idle} \cup Minute!Requesting],
         asked' \in 0..MaxRequests, turns' \in 0..MaxTurns,
         UNCHANGED <<audio, sheet, voice, trans, min, desk, retrying, sent>>
  PROVE  MinutesInv'
<1> USE DEF MinutesInv
<1>1. Minute!TypeOK'
  BY DEF Minute!TypeOK
<1>2. RowsFenced' /\ MinutesMade' /\ AttemptsKnown'
  BY DEF RowsFenced, MinutesMade, AttemptsKnown, ShownFrom
<1>3. SummaryHeld' /\ Minute!SentByRequest'
  BY DEF SummaryHeld, ShownFrom, Minute!SentByRequest
<1> QED
  BY <1>1, <1>2, <1>3

\* A snapshot for a request, the owner's or an automatic one, preserves it.
LEMMA MinutesAsked ==
  ASSUME Minute!MinutesAssumption, MinutesInv, NEW q \in Requester,
         Minute!Review(q) \/ Minute!Repeat(q)
  PROVE  MinutesInv'
<1>1. PICK id \in Minute!Request, automatic \in BOOLEAN, recognize \in BOOLEAN :
        Minute!Snapshot(q, id, automatic, recognize)
  <2>1. CASE Minute!Review(q)
    <3>1. asked + 1 \in Minute!Request
      BY <2>1 DEF Minute!Review, MinutesInv, Minute!TypeOK, Minute!Request, Minute!MinutesAssumption
    <3> QED
      BY <2>1, <3>1 DEF Minute!Review
  <2>2. CASE Minute!Repeat(q)
    <3>1. \A id \in 1..asked : id \in Minute!Request
      BY DEF MinutesInv, Minute!TypeOK, Minute!Request, Minute!MinutesAssumption
    <3> QED
      BY <2>2, <3>1 DEF Minute!Repeat
  <2> QED
    BY <2>1, <2>2
<1>2. asked' \in 0..MaxRequests /\ turns' \in 0..MaxTurns
  <2>1. asked \in 0..MaxRequests /\ turns \in 0..MaxTurns /\ MaxRequests \in Nat /\ MaxTurns \in Nat
    BY DEF MinutesInv, Minute!TypeOK, Minute!MinutesAssumption
  <2>2. \/ asked < MaxRequests /\ asked' = asked + 1 /\ turns' = turns
        \/ turns < MaxTurns /\ turns' = turns + 1 /\ asked' = asked
    BY DEF Minute!Review, Minute!Repeat
  <2> QED
    BY <2>1, <2>2
<1>3. Minute!Listing(audio, ByTime) \in Minute!Sources
  BY ListingOf DEF MinutesInv, Minute!TypeOK, Minute!MinutesAssumption
<1> DEFINE a == [job |-> "request", id |-> id, automatic |-> automatic, config |-> voice,
                 recordings |-> Minute!Listing(audio, ByTime),
                 queue |-> recognize /\ sheet.state = "other"]
<1>4. a \in Minute!Requesting
  <2>1. voice \in Voice
    BY DEF MinutesInv, Minute!TypeOK
  <2>2. (recognize /\ sheet.state = "other") \in BOOLEAN
    OBVIOUS
  <2> QED
    BY <1>3, <2>1, <2>2 DEF Minute!Requesting
<1>5. ask' = [ask EXCEPT ![q] = a]
      /\ UNCHANGED <<audio, sheet, voice, trans, min, desk, retrying, sent>>
  BY <1>1 DEF Minute!Snapshot
<1>6. ask' \in [Requester -> {Minute!Idle} \cup Minute!Requesting]
  <2> HIDE DEF a
  <2> QED
    BY <1>4, <1>5 DEF MinutesInv, Minute!TypeOK
<1> QED
  BY <1>2, <1>5, <1>6, RequestsMove

\* A request that is given up preserves it.
LEMMA MinutesGivenUp ==
  ASSUME Minute!MinutesAssumption, MinutesInv, NEW q \in Requester, Minute!GiveUp(q)
  PROVE  MinutesInv'
<1>1. ask' \in [Requester -> {Minute!Idle} \cup Minute!Requesting]
  BY DEF Minute!GiveUp, MinutesInv, Minute!TypeOK
<1>2. asked' \in 0..MaxRequests /\ turns' \in 0..MaxTurns
      /\ UNCHANGED <<audio, sheet, voice, trans, min, desk, retrying, sent>>
  BY DEF Minute!GiveUp, MinutesInv, Minute!TypeOK
<1> QED
  BY <1>1, <1>2, RequestsMove

\* A transcription asked for again is nobody's.
LEMMA WantedRow ==
  ASSUME Minute!MinutesAssumption, NEW t \in Minute!TransRow, NEW config \in Voice
  PROVE  /\ Minute!Wanted(t, config) \in Minute!TransRow
         /\ \/ Minute!Wanted(t, config) = t
            \/ /\ Minute!Wanted(t, config).token = NoScribe
               /\ Minute!Wanted(t, config).attempts = 0
<1> DEFINE n == [t EXCEPT !.state = "queued", !.config = config, !.attempts = 0,
                          !.token = NoScribe, !.leased = FALSE]
<1>1. 0 \in 0..MaxDrafts
  BY DEF Minute!MinutesAssumption
<1>2. n \in Minute!TransRow /\ n.token = NoScribe /\ n.attempts = 0
  BY <1>1 DEF Minute!TransRow
<1>3. Minute!Wanted(t, config) = n \/ Minute!Wanted(t, config) = t
  BY DEF Minute!Wanted
<1> HIDE DEF n
<1> QED
  BY <1>2, <1>3

\* A request's transaction resets the row for its own recordings, with nobody's lease.
LEMMA MinutesCommitted ==
  ASSUME Minute!MinutesAssumption, MinutesInv, NEW q \in Requester, Minute!Commit(q)
  PROVE  MinutesInv'
<1> DEFINE a == ask[q]
<1>1. a \in Minute!Requesting
  BY DEF Minute!Commit, MinutesInv, Minute!TypeOK
<1>2. a.id \in Minute!Request /\ a.config \in Voice /\ a.recordings \in Minute!Sources
  BY <1>1 DEF Minute!Requesting
<1> HIDE DEF a
<1>3. \A s \in Minute!Source :
        trans'[s] = IF s \in Minute!Range(a.recordings) THEN Minute!Wanted(trans[s], a.config)
                    ELSE trans[s]
  BY DEF Minute!Commit, a
<1>4. \A s \in Minute!Source : trans[s] \in Minute!TransRow
  BY DEF MinutesInv, Minute!TypeOK
<1>5. \A s \in Minute!Source :
        /\ trans'[s] \in Minute!TransRow
        /\ trans'[s] = trans[s] \/ (trans'[s].token = NoScribe /\ trans'[s].attempts = 0)
  BY <1>2, <1>3, <1>4, WantedRow
<1>6. trans' \in [Minute!Source -> Minute!TransRow]
  <2>1. trans' = [s \in Minute!Source |->
          IF s \in Minute!Range(a.recordings) THEN Minute!Wanted(trans[s], a.config) ELSE trans[s]]
    BY DEF Minute!Commit, a
  <2> QED
    BY <1>3, <1>5, <2>1
<1>7. min' = [min EXCEPT !.state = "queued", !.request = a.id, !.recordings = a.recordings,
                         !.attempts = 0, !.token = NoScribe, !.leased = FALSE]
  BY DEF Minute!Commit, a
<1>8. min \in Minute!MinRow /\ 0 \in 0..(MaxDrafts - 1)
  BY DEF MinutesInv, Minute!TypeOK, Minute!MinutesAssumption
<1>9. min' \in Minute!MinRow /\ min'.token = NoScribe /\ min'.state = "queued" /\ min'.request = a.id
  BY <1>2, <1>7, <1>8 DEF Minute!MinRow
<1>10. sheet' \in [state : {"other", "pending", "ready"}, ink : 1..(MaxTurns + 1)]
  BY DEF Minute!Commit, MinutesInv, Minute!TypeOK
<1>11. ask' \in [Requester -> {Minute!Idle} \cup Minute!Requesting]
       /\ UNCHANGED <<audio, voice, desk, retrying, sent, asked, turns>>
  BY DEF Minute!Commit, MinutesInv, Minute!TypeOK
<1>12. Minute!TypeOK'
  BY <1>6, <1>9, <1>10, <1>11 DEF MinutesInv, Minute!TypeOK
<1>13. RowsFenced'
  BY <1>5, Minute!MinutesAssumption DEF MinutesInv, RowsFenced, Minute!MinutesAssumption
<1>14. MinutesMade'
  BY <1>2, <1>9, MinutesReset
<1>15. AttemptsKnown'
  BY <1>5, <1>11, AttemptsStand DEF MinutesInv, Minute!MinutesAssumption
<1>16. SummaryHeld'
  BY <1>9, <1>11 DEF MinutesInv, SummaryHeld, Minute!MinutesAssumption
<1>17. Minute!SentByRequest'
  BY <1>11 DEF MinutesInv, Minute!SentByRequest
<1> QED
  BY <1>12, <1>13, <1>14, <1>15, <1>16, <1>17 DEF MinutesInv

\* The minutes become nobody's: cancelled or queued again.
LEMMA MinutesFreed ==
  ASSUME Minute!MinutesAssumption, MinutesInv, min' \in Minute!MinRow,
         min'.token = NoScribe, min'.state # "ready", min'.request = min.request,
         min.state # "none", retrying' \in BOOLEAN,
         UNCHANGED <<audio, sheet, voice, trans, desk, ask, sent, asked, turns>>
  PROVE  MinutesInv'
<1> USE DEF MinutesInv
<1>1. Minute!TypeOK'
  BY DEF Minute!TypeOK
<1>2. RowsFenced' /\ AttemptsKnown' /\ Minute!SentByRequest'
  BY DEF RowsFenced, AttemptsKnown, Minute!SentByRequest
<1>3. MinutesMade'
  BY MinutesReset DEF MinutesMade
<1>4. SummaryHeld'
  BY DEF SummaryHeld, Minute!MinutesAssumption
<1> QED
  BY <1>1, <1>2, <1>3, <1>4

\* Cancelling and retrying the minutes take the lease away from whoever summarizes.
LEMMA MinutesControlled ==
  ASSUME Minute!MinutesAssumption, MinutesInv, Minute!Cancel \/ Minute!RetryMinutes
  PROVE  MinutesInv'
<1>1. min \in Minute!MinRow /\ 0 \in 0..(MaxDrafts - 1)
  BY DEF MinutesInv, Minute!TypeOK, Minute!MinutesAssumption
<1>2. UNCHANGED <<audio, sheet, voice, trans, desk, ask, sent, asked, turns>> /\ retrying' \in BOOLEAN
  BY DEF Minute!Cancel, Minute!RetryMinutes, MinutesInv, Minute!TypeOK
<1>3. CASE Minute!Cancel
  <2>1. min' = [min EXCEPT !.state = "cancelled", !.token = NoScribe, !.leased = FALSE]
        /\ min.state \in Minute!Active
    BY <1>3 DEF Minute!Cancel
  <2>2. min' \in Minute!MinRow /\ min'.token = NoScribe /\ min'.state = "cancelled"
        /\ min'.request = min.request
    BY <1>1, <2>1 DEF Minute!MinRow
  <2> QED
    BY <1>2, <2>1, <2>2, MinutesFreed DEF Minute!Active
<1>4. CASE Minute!RetryMinutes /\ min.state \in {"failed", "cancelled"}
  <2>1. min' = [min EXCEPT !.state = "queued", !.attempts = 0, !.token = NoScribe, !.leased = FALSE]
    BY <1>4 DEF Minute!RetryMinutes
  <2>2. min' \in Minute!MinRow /\ min'.token = NoScribe /\ min'.state = "queued"
        /\ min'.request = min.request
    BY <1>1, <2>1 DEF Minute!MinRow
  <2> QED
    BY <1>2, <1>4, <2>2, MinutesFreed
<1>5. CASE Minute!RetryMinutes /\ min.state \notin {"failed", "cancelled"}
  <2>1. UNCHANGED min
    BY <1>5 DEF Minute!RetryMinutes
  <2> USE <1>2, <2>1 DEF MinutesInv
  <2>2. Minute!TypeOK'
    BY DEF Minute!TypeOK
  <2>3. RowsFenced' /\ MinutesMade' /\ AttemptsKnown' /\ SummaryHeld' /\ Minute!SentByRequest'
    BY DEF RowsFenced, MinutesMade, AttemptsKnown, SummaryHeld, ShownFrom, Minute!SentByRequest
  <2> QED
    BY <2>2, <2>3
<1> QED
  BY <1>3, <1>4, <1>5

\* Transcriptions move, and no summary does.
LEMMA TranscriptsMove ==
  ASSUME Minute!MinutesAssumption, MinutesInv,
         trans' \in [Minute!Source -> Minute!TransRow], RowsFenced', AttemptsKnown', ReadyStays,
         desk' \in [Scribe -> {Minute!Idle} \cup Minute!Transcribing \cup Minute!Reading
                              \cup Minute!Summarizing \cup Minute!Sending],
         \A w \in Scribe : desk'[w].job = "summarize" => desk'[w] = desk[w],
         retrying' \in BOOLEAN, turns' \in 0..MaxTurns,
         UNCHANGED <<audio, sheet, voice, min, ask, sent, asked>>
  PROVE  MinutesInv'
<1>1. Minute!TypeOK'
  BY DEF MinutesInv, Minute!TypeOK
<1>2. MinutesMade'
  BY MinutesStand DEF MinutesInv
<1>3. SummaryHeld'
  BY SummariesStand DEF MinutesInv
<1>4. Minute!SentByRequest'
  BY DEF MinutesInv, Minute!SentByRequest
<1> QED
  BY <1>1, <1>2, <1>3, <1>4 DEF MinutesInv

\* One transcription moves.
LEMMA TranscriptMoves ==
  ASSUME MinutesInv, NEW s \in Minute!Source, NEW t \in Minute!TransRow,
         trans' = [trans EXCEPT ![s] = t], trans[s].state # "ready",
         t.token # NoScribe => t.state = "processing",
         t.state \in Minute!Active => t.attempts < MaxDrafts
  PROVE  /\ trans' \in [Minute!Source -> Minute!TransRow]
         /\ RowsFenced' /\ ReadyStays
         /\ trans'[s] = t /\ \A x \in Minute!Source \ {s} : trans'[x] = trans[x]
<1>1. trans \in [Minute!Source -> Minute!TransRow]
  BY DEF MinutesInv, Minute!TypeOK
<1>2. trans' \in [Minute!Source -> Minute!TransRow]
      /\ trans'[s] = t /\ \A x \in Minute!Source \ {s} : trans'[x] = trans[x]
  BY <1>1
<1>3. RowsFenced'
  BY <1>2 DEF MinutesInv, RowsFenced
<1>4. ReadyStays
  BY <1>2 DEF ReadyStays
<1> QED
  BY <1>2, <1>3, <1>4

\* One worker turns to something that is no summary.
LEMMA DeskMoves ==
  ASSUME MinutesInv, NEW w \in Scribe,
         NEW d \in {Minute!Idle} \cup Minute!Transcribing \cup Minute!Reading \cup Minute!Sending,
         desk' = [desk EXCEPT ![w] = d]
  PROVE  /\ desk' \in [Scribe -> {Minute!Idle} \cup Minute!Transcribing \cup Minute!Reading
                                 \cup Minute!Summarizing \cup Minute!Sending]
         /\ \A v \in Scribe : desk'[v].job = "summarize" => desk'[v] = desk[v]
         /\ desk'[w] = d /\ \A v \in Scribe \ {w} : desk'[v] = desk[v]
<1>1. d.job # "summarize"
  <2>1. /\ Minute!Idle.job = "none"
        /\ \A x \in Minute!Transcribing \cup Minute!Reading : x.job = "transcribe"
        /\ \A x \in Minute!Sending : x.job = "send"
    BY DEF Minute!Idle, Minute!Transcribing, Minute!Reading, Minute!Sending
  <2> QED
    BY <2>1
<1>2. desk \in [Scribe -> {Minute!Idle} \cup Minute!Transcribing \cup Minute!Reading
                          \cup Minute!Summarizing \cup Minute!Sending]
  BY DEF MinutesInv, Minute!TypeOK
<1>3. desk'[w] = d /\ \A v \in Scribe \ {w} : desk'[v] = desk[v]
  <2>1. DOMAIN desk = Scribe
    BY <1>2
  <2> QED
    BY <2>1
<1>4. desk' \in [Scribe -> {Minute!Idle} \cup Minute!Transcribing \cup Minute!Reading
                                 \cup Minute!Summarizing \cup Minute!Sending]
  <2> DEFINE D == {Minute!Idle} \cup Minute!Transcribing \cup Minute!Reading
                    \cup Minute!Summarizing \cup Minute!Sending
  <2>1. d \in D /\ desk \in [Scribe -> D]
    BY <1>2
  <2> HIDE DEF D
  <2>2. desk' \in [Scribe -> D]
    BY <2>1
  <2> QED
    BY <2>2 DEF D
<1> QED
  BY <1>1, <1>3, <1>4

\* The first statement of a retry.
LEMMA TranscriptsRetried ==
  ASSUME Minute!MinutesAssumption, MinutesInv, Minute!RetryTranscripts
  PROVE  MinutesInv'
<1> DEFINE Again(t) == [t EXCEPT !.state = "queued", !.attempts = 0]
<1>1. \A t \in Minute!TransRow :
        /\ Again(t) \in Minute!TransRow /\ Again(t).state = "queued" /\ Again(t).attempts = 0
        /\ Again(t).token = t.token
  <2>1. 0 \in 0..MaxDrafts
    BY DEF Minute!MinutesAssumption
  <2> QED
    BY <2>1 DEF Minute!TransRow
<1>2. trans' = [s \in Minute!Source |->
        IF s \in Minute!Range(min.recordings) /\ trans[s].state = "failed" THEN Again(trans[s])
        ELSE trans[s]]
  BY DEF Minute!RetryTranscripts
<1> HIDE DEF Again
<1>3. \A s \in Minute!Source : trans[s] \in Minute!TransRow
  BY DEF MinutesInv, Minute!TypeOK
<1>4. \A s \in Minute!Source :
        \/ trans'[s] = trans[s]
        \/ trans[s].state = "failed" /\ trans'[s] = Again(trans[s])
  BY <1>2
<1>5. \A s \in Minute!Source : trans'[s] \in Minute!TransRow
  BY <1>1, <1>3, <1>4
<1>6. trans' \in [Minute!Source -> Minute!TransRow]
  <2> DEFINE New(s) == IF s \in Minute!Range(min.recordings) /\ trans[s].state = "failed"
                       THEN Again(trans[s]) ELSE trans[s]
  <2>1. trans' = [s \in Minute!Source |-> New(s)]
    BY <1>2
  <2> HIDE DEF New
  <2>2. \A s \in Minute!Source : New(s) \in Minute!TransRow
    BY <1>5, <2>1
  <2> QED
    BY <2>1, <2>2
<1>7. \A s \in Minute!Source : trans[s].state = "failed" => trans[s].token = NoScribe
  BY DEF MinutesInv, RowsFenced
<1>8. RowsFenced'
  <2>1. 0 < MaxDrafts
    BY DEF Minute!MinutesAssumption
  <2> QED
    BY <1>1, <1>3, <1>4, <1>7, <2>1 DEF MinutesInv, RowsFenced
<1>9. ReadyStays
  BY <1>4 DEF ReadyStays
<1>10. UNCHANGED <<audio, sheet, voice, min, desk, ask, sent, asked, turns>> /\ retrying'
  BY DEF Minute!RetryTranscripts
<1>11. AttemptsKnown'
  <2>1. \A s \in Minute!Source : trans'[s].token \in Scribe => trans'[s] = trans[s]
    BY <1>1, <1>3, <1>4, <1>7 DEF Minute!MinutesAssumption
  <2> QED
    BY <1>10, <2>1, AttemptsStand DEF MinutesInv
<1> QED
  BY <1>6, <1>8, <1>9, <1>10, <1>11, TranscriptsMove DEF MinutesInv, Minute!TypeOK

\* A claimed transcription is not shown.
LEMMA TranscriptClaimed ==
  ASSUME Minute!MinutesAssumption, MinutesInv, NEW w \in Scribe, Minute!ClaimTranscription(w)
  PROVE  MinutesInv'
<1>1. PICK s \in Minute!Source :
        /\ desk[w] = Minute!Idle /\ trans[s].state \in Minute!Active
        /\ trans' = [trans EXCEPT ![s].state = "processing", ![s].token = w, ![s].leased = TRUE]
        /\ desk' = [desk EXCEPT ![w] = [job |-> "transcribe", of |-> s, config |-> voice,
                                        attempts |-> trans[s].attempts]]
  BY DEF Minute!ClaimTranscription
<1> DEFINE t == [trans[s] EXCEPT !.state = "processing", !.token = w, !.leased = TRUE]
           d == [job |-> "transcribe", of |-> s, config |-> voice, attempts |-> trans[s].attempts]
<1>2. trans[s] \in Minute!TransRow /\ voice \in Voice /\ trans \in [Minute!Source -> Minute!TransRow]
  BY DEF MinutesInv, Minute!TypeOK
<1>3. trans[s].attempts \in Nat /\ trans[s].attempts < MaxDrafts
  BY <1>1, <1>2 DEF MinutesInv, RowsFenced, Minute!TransRow
<1>4. t \in Minute!TransRow /\ t.state = "processing" /\ t.token = w /\ t.attempts = trans[s].attempts
  BY <1>2 DEF Minute!TransRow
<1>5. d \in Minute!Transcribing
  <2>1. trans[s].attempts \in 0..(MaxDrafts - 1)
    BY <1>3 DEF Minute!MinutesAssumption
  <2> QED
    BY <1>2, <2>1 DEF Minute!Transcribing
<1>6. trans' = [trans EXCEPT ![s] = t]
  BY <1>1, <1>2
<1>7. d.job = "transcribe" /\ d.of = s /\ d.attempts = trans[s].attempts
  OBVIOUS
<1>8. desk' = [desk EXCEPT ![w] = d]
  BY <1>1
<1> HIDE DEF t, d
<1>9. trans[s].state # "ready" /\ trans[s].attempts < MaxDrafts
  BY <1>1, <1>3 DEF Minute!Active
<1>10. /\ trans' \in [Minute!Source -> Minute!TransRow] /\ RowsFenced' /\ ReadyStays
       /\ trans'[s] = t /\ \A x \in Minute!Source \ {s} : trans'[x] = trans[x]
  BY <1>4, <1>6, <1>9, TranscriptMoves
<1>11. /\ desk' \in [Scribe -> {Minute!Idle} \cup Minute!Transcribing \cup Minute!Reading
                                 \cup Minute!Summarizing \cup Minute!Sending]
       /\ \A v \in Scribe : desk'[v].job = "summarize" => desk'[v] = desk[v]
       /\ desk'[w] = d /\ \A v \in Scribe \ {w} : desk'[v] = desk[v]
  BY <1>5, <1>8, DeskMoves
<1>12. AttemptsKnown'
  <2> SUFFICES ASSUME NEW v \in Scribe, desk'[v].job = "transcribe", trans'[desk'[v].of].token = v
               PROVE  trans'[desk'[v].of].attempts = desk'[v].attempts
    BY DEF AttemptsKnown
  <2>1. CASE v = w
    BY <1>4, <1>7, <1>10, <1>11, <2>1
  <2>2. CASE v # w
    <3>1. desk'[v] = desk[v] /\ desk[v].of \in Minute!Source
      BY <1>11, <2>2, TranscribingIs DEF MinutesInv
    <3> QED
      BY <1>4, <1>10, <2>2, <3>1 DEF MinutesInv, AttemptsKnown
  <2> QED
    BY <2>1, <2>2
<1>13. UNCHANGED <<audio, sheet, voice, min, ask, retrying, sent, asked, turns>>
  BY DEF Minute!ClaimTranscription
<1> QED
  BY <1>10, <1>11, <1>12, <1>13, TranscriptsMove DEF MinutesInv, Minute!TypeOK

\* The statement a worker ends a transcription with.
LEMMA TranscriptSettled ==
  ASSUME Minute!MinutesAssumption, MinutesInv, NEW w \in Scribe, desk[w].job = "transcribe",
         NEW new, Minute!SetTrans(w, new),
         trans[desk[w].of].token = w =>
           /\ new \in Minute!TransRow /\ new.token = NoScribe
           /\ new.state \in Minute!Active => new.attempts < MaxDrafts,
         desk' = [desk EXCEPT ![w] = Minute!Idle],
         UNCHANGED <<audio, sheet, voice, min, ask, retrying, sent, asked, turns>>
  PROVE  MinutesInv'
<1> DEFINE s == desk[w].of
<1>1. s \in Minute!Source
  BY TranscribingIs DEF MinutesInv
<1> HIDE DEF s
<1>2. \/ trans[s].token = w /\ trans' = [trans EXCEPT ![s] = new]
      \/ UNCHANGED trans
  BY DEF Minute!SetTrans, s
<1>3. trans[s].token = w => trans[s].state = "processing"
  BY <1>1 DEF MinutesInv, RowsFenced, Minute!MinutesAssumption
<1>4. /\ trans' \in [Minute!Source -> Minute!TransRow] /\ RowsFenced' /\ ReadyStays
      /\ \A x \in Minute!Source : trans'[x] = trans[x] \/ trans'[x].token = NoScribe
  <2>1. CASE trans[s].token = w /\ trans' = [trans EXCEPT ![s] = new]
    <3>1. /\ trans' \in [Minute!Source -> Minute!TransRow] /\ RowsFenced' /\ ReadyStays
          /\ trans'[s] = new /\ \A x \in Minute!Source \ {s} : trans'[x] = trans[x]
      BY <1>1, <1>3, <2>1, TranscriptMoves DEF s
    <3> QED
      BY <2>1, <3>1 DEF s
  <2>2. CASE UNCHANGED trans
    BY <2>2 DEF MinutesInv, Minute!TypeOK, RowsFenced, ReadyStays
  <2> QED
    BY <1>2, <2>1, <2>2
<1>5. /\ desk' \in [Scribe -> {Minute!Idle} \cup Minute!Transcribing \cup Minute!Reading
                                 \cup Minute!Summarizing \cup Minute!Sending]
      /\ \A v \in Scribe : desk'[v].job = "summarize" => desk'[v] = desk[v]
      /\ desk'[w] = Minute!Idle /\ \A v \in Scribe \ {w} : desk'[v] = desk[v]
  BY DeskMoves
<1>6. \A v \in Scribe : desk'[v].job = "transcribe" => desk'[v] = desk[v]
  BY <1>5 DEF Minute!Idle
<1>7. AttemptsKnown'
  BY <1>4, <1>6, AttemptsStand DEF MinutesInv, Minute!MinutesAssumption
<1> QED
  BY <1>4, <1>5, <1>7, TranscriptsMove DEF MinutesInv, Minute!TypeOK

\* A transcription is answered or fails only while its lease holds.
LEMMA TranscriptEnds ==
  ASSUME Minute!MinutesAssumption, MinutesInv, NEW w \in Scribe,
         Minute!FailTranscription(w) \/ Minute!Transcribe(w)
  PROVE  MinutesInv'
<1> DEFINE s == desk[w].of
<1>1. desk[w].job = "transcribe" /\ desk' = [desk EXCEPT ![w] = Minute!Idle]
      /\ UNCHANGED <<audio, sheet, voice, min, ask, retrying, sent, asked, turns>>
  BY DEF Minute!FailTranscription, Minute!Transcribe
<1>2. s \in Minute!Source /\ desk[w].config \in Voice /\ desk[w].attempts \in 0..(MaxDrafts - 1)
  BY <1>1, TranscribingIs DEF MinutesInv
<1>3. trans[s] \in Minute!TransRow
  BY <1>2 DEF MinutesInv, Minute!TypeOK
<1>4. trans[s].token = w => trans[s].attempts = desk[w].attempts
  BY <1>1 DEF MinutesInv, AttemptsKnown
<1>5. trans[s].attempts \in Nat /\ trans[s].made \in Nat /\ MaxDrafts \in Nat
  BY <1>3 DEF Minute!TransRow, Minute!MinutesAssumption
<1>6. CASE Minute!FailTranscription(w)
  <2>1. PICK terminal \in BOOLEAN :
          Minute!SetTrans(w, [trans[s] EXCEPT
            !.state = IF Minute!Final(w, terminal) THEN "failed" ELSE "queued",
            !.attempts = @ + 1, !.token = NoScribe, !.leased = FALSE])
    BY <1>6 DEF Minute!FailTranscription
  <2> DEFINE new == [trans[s] EXCEPT
               !.state = IF Minute!Final(w, terminal) THEN "failed" ELSE "queued",
               !.attempts = @ + 1, !.token = NoScribe, !.leased = FALSE]
  <2>2. /\ new.state = IF Minute!Final(w, terminal) THEN "failed" ELSE "queued"
        /\ new.token = NoScribe /\ new.attempts = trans[s].attempts + 1
    BY <1>3 DEF Minute!TransRow
  <2>3. trans[s].token = w => new \in Minute!TransRow
    <3> SUFFICES ASSUME trans[s].token = w PROVE new \in Minute!TransRow
      OBVIOUS
    <3>1. trans[s].attempts + 1 \in 0..MaxDrafts
      BY <1>2, <1>4, <1>5
    <3> QED
      BY <1>3, <3>1 DEF Minute!TransRow
  <2>4. trans[s].token = w => (new.state \in Minute!Active => new.attempts < MaxDrafts)
    <3> SUFFICES ASSUME trans[s].token = w, ~Minute!Final(w, terminal) PROVE trans[s].attempts + 1 < MaxDrafts
      BY <2>2 DEF Minute!Active
    <3> QED
      BY <1>4, <1>5 DEF Minute!Final
  <2> HIDE DEF new
  <2>5. Minute!SetTrans(w, new)
    BY <2>1 DEF new
  <2> QED
    BY <1>1, <2>2, <2>3, <2>4, <2>5, TranscriptSettled
<1>7. CASE Minute!Transcribe(w)
  <2> DEFINE new == [trans[s] EXCEPT !.state = "ready", !.config = desk[w].config, !.made = @ + 1,
                                     !.token = NoScribe, !.leased = FALSE]
  <2>1. Minute!SetTrans(w, new)
    BY <1>7 DEF Minute!Transcribe
  <2>2. new \in Minute!TransRow /\ new.token = NoScribe /\ new.state = "ready"
    <3>1. trans[s].made + 1 \in Nat
      BY <1>5
    <3> QED
      BY <1>2, <1>3, <3>1 DEF Minute!TransRow
  <2> HIDE DEF new
  <2> QED
    BY <1>1, <2>1, <2>2, TranscriptSettled DEF Minute!Active
<1> QED
  BY <1>6, <1>7

\* A worker turns to something else, and nothing but what it has in hand moves.
LEMMA ScribeMoves ==
  ASSUME Minute!MinutesAssumption, MinutesInv, NEW w \in Scribe,
         NEW d \in {Minute!Idle} \cup Minute!Transcribing \cup Minute!Reading,
         desk' = [desk EXCEPT ![w] = d],
         d.job = "transcribe" =>
           desk[w].job = "transcribe" /\ d.of = desk[w].of /\ d.attempts = desk[w].attempts,
         UNCHANGED <<audio, sheet, voice, trans, min, ask, retrying, sent, asked, turns>>
  PROVE  MinutesInv'
<1>1. /\ desk' \in [Scribe -> {Minute!Idle} \cup Minute!Transcribing \cup Minute!Reading
                                 \cup Minute!Summarizing \cup Minute!Sending]
      /\ \A v \in Scribe : desk'[v].job = "summarize" => desk'[v] = desk[v]
      /\ desk'[w] = d /\ \A v \in Scribe \ {w} : desk'[v] = desk[v]
  BY DeskMoves
<1>2. trans' \in [Minute!Source -> Minute!TransRow] /\ RowsFenced' /\ ReadyStays
  BY DEF MinutesInv, Minute!TypeOK, RowsFenced, ReadyStays
<1>3. AttemptsKnown'
  <2>1. \A v \in Scribe : desk'[v].job = "transcribe" =>
          desk[v].job = "transcribe" /\ desk'[v].of = desk[v].of /\ desk'[v].attempts = desk[v].attempts
    BY <1>1
  <2> QED
    BY <2>1, AttemptsStand DEF MinutesInv
<1> QED
  BY <1>1, <1>2, <1>3, TranscriptsMove DEF MinutesInv, Minute!TypeOK

\* Reading the recording moves nothing but the worker.
LEMMA RecordingRead ==
  ASSUME Minute!MinutesAssumption, MinutesInv, NEW w \in Scribe,
         Minute!ReadRecording(w) \/ Minute!Crash(w)
  PROVE  MinutesInv'
<1>1. CASE Minute!ReadRecording(w)
  <2> DEFINE d == [job |-> "transcribe", of |-> desk[w].of, config |-> desk[w].config,
                   attempts |-> desk[w].attempts, read |-> TRUE]
  <2>1. desk[w].job = "transcribe"
    BY <1>1 DEF Minute!ReadRecording
  <2>2. desk[w].of \in Minute!Source /\ desk[w].config \in Voice /\ desk[w].attempts \in 0..(MaxDrafts - 1)
    BY <2>1, TranscribingIs DEF MinutesInv
  <2>3. d \in Minute!Reading /\ d.of = desk[w].of /\ d.attempts = desk[w].attempts
    BY <2>2 DEF Minute!Reading
  <2>4. desk \in [Scribe -> {Minute!Idle} \cup Minute!Transcribing \cup Minute!Reading
                              \cup Minute!Summarizing \cup Minute!Sending]
    BY DEF MinutesInv, Minute!TypeOK
  <2>5. desk' = [desk EXCEPT ![w] = d]
    BY <1>1, <2>4 DEF Minute!ReadRecording
  <2>6. UNCHANGED <<audio, sheet, voice, trans, min, ask, retrying, sent, asked, turns>>
    BY <1>1 DEF Minute!ReadRecording
  <2> HIDE DEF d
  <2> QED
    BY <2>1, <2>3, <2>5, <2>6, ScribeMoves
<1>2. CASE Minute!Crash(w)
  <2>1. desk' = [desk EXCEPT ![w] = Minute!Idle] /\ Minute!Idle.job = "none"
        /\ UNCHANGED <<audio, sheet, voice, trans, min, ask, retrying, sent, asked, turns>>
    BY <1>2 DEF Minute!Crash, Minute!Idle
  <2> QED
    BY <2>1, ScribeMoves
<1> QED
  BY <1>1, <1>2

\* The notebook and the provider change, and recognition ends.
LEMMA NotebookChanges ==
  ASSUME Minute!MinutesAssumption, MinutesInv, Minute!Change \/ Minute!Recognize
  PROVE  MinutesInv'
<1>1. UNCHANGED <<trans, min, desk, ask, retrying, sent, asked>>
  BY DEF Minute!Change, Minute!Recognize
<1>2. turns \in 0..MaxTurns /\ MaxTurns \in Nat
  BY DEF MinutesInv, Minute!TypeOK, Minute!MinutesAssumption
<1>3. turns' \in 0..MaxTurns
  BY <1>2 DEF Minute!Change, Minute!Recognize
<1>4. audio' \in [Recording -> Body \cup {NoBody}] /\ voice' \in Voice
  BY DEF Minute!Change, Minute!Recognize, MinutesInv, Minute!TypeOK
<1>5. sheet' \in [state : {"other", "pending", "ready"}, ink : 1..(MaxTurns + 1)]
  <2>1. sheet \in [state : {"other", "pending", "ready"}, ink : 1..(MaxTurns + 1)]
    BY DEF MinutesInv, Minute!TypeOK
  <2>2. CASE UNCHANGED sheet
    BY <2>1, <2>2
  <2>3. CASE turns < MaxTurns /\ sheet' = [ink |-> turns + 2,
                       state |-> IF sheet.state = "other" THEN "other" ELSE "pending"]
    <3>1. turns + 2 \in 1..(MaxTurns + 1)
      BY <1>2, <2>3
    <3> QED
      BY <2>3, <3>1
  <2>4. CASE \E state \in {"ready", "other"} : sheet' = [sheet EXCEPT !.state = state]
    BY <2>1, <2>4
  <2> QED
    BY <2>2, <2>3, <2>4 DEF Minute!Change, Minute!Recognize
<1>6. Minute!TypeOK'
  BY <1>1, <1>3, <1>4, <1>5 DEF MinutesInv, Minute!TypeOK
<1>7. RowsFenced' /\ MinutesMade' /\ AttemptsKnown' /\ Minute!SentByRequest'
  BY <1>1 DEF MinutesInv, RowsFenced, MinutesMade, AttemptsKnown, ShownFrom, Minute!SentByRequest
<1>8. SummaryHeld'
  BY <1>1 DEF MinutesInv, SummaryHeld, ShownFrom
<1> QED
  BY <1>6, <1>7, <1>8 DEF MinutesInv

\* A lease that lapses leaves its token where it was.
LEMMA MinutesLapse ==
  ASSUME Minute!MinutesAssumption, MinutesInv, Minute!Lapse
  PROVE  MinutesInv'
<1>1. UNCHANGED <<audio, sheet, voice, desk, ask, retrying, sent, asked>>
  BY DEF Minute!Lapse
<1>2. turns' \in 0..MaxTurns
  BY DEF Minute!Lapse, MinutesInv, Minute!TypeOK, Minute!MinutesAssumption
<1>3. CASE min.leased /\ min' = [min EXCEPT !.leased = FALSE] /\ UNCHANGED trans
  <2>1. min \in Minute!MinRow
    BY DEF MinutesInv, Minute!TypeOK
  <2>2. min' \in Minute!MinRow
    BY <1>3, <2>1 DEF Minute!MinRow
  <2>3. /\ min'.state = min.state /\ min'.request = min.request /\ min'.recordings = min.recordings
        /\ min'.token = min.token /\ min'.attempts = min.attempts /\ min'.input = min.input
        /\ min'.from = min.from
    BY <1>3, <2>1 DEF Minute!MinRow
  <2>4. ReadyStays /\ RowsFenced' /\ AttemptsKnown' /\ Minute!SentByRequest'
    BY <1>1, <1>3 DEF MinutesInv, ReadyStays, RowsFenced, AttemptsKnown, Minute!SentByRequest
  <2>5. Minute!TypeOK'
    BY <1>1, <1>2, <1>3, <2>2 DEF MinutesInv, Minute!TypeOK
  <2>6. MinutesMade'
    BY <1>3, <2>3 DEF MinutesInv, MinutesMade, ShownFrom
  <2>7. SummaryHeld'
    BY <1>1, <2>3, <2>4, SummariesStand DEF MinutesInv
  <2> QED
    BY <2>4, <2>5, <2>6, <2>7 DEF MinutesInv
<1>4. ASSUME NEW s \in Minute!Source, trans[s].leased, trans' = [trans EXCEPT ![s].leased = FALSE],
             UNCHANGED min
      PROVE  MinutesInv'
  <2>1. trans \in [Minute!Source -> Minute!TransRow]
    BY DEF MinutesInv, Minute!TypeOK
  <2> DEFINE t == [trans[s] EXCEPT !.leased = FALSE]
  <2>2. /\ t \in Minute!TransRow /\ t.state = trans[s].state /\ t.token = trans[s].token
        /\ t.attempts = trans[s].attempts /\ t.made = trans[s].made
    BY <2>1 DEF Minute!TransRow
  <2>3. trans' = [trans EXCEPT ![s] = t]
    BY <1>4, <2>1
  <2> HIDE DEF t
  <2>4. trans' \in [Minute!Source -> Minute!TransRow]
        /\ trans'[s] = t /\ \A x \in Minute!Source \ {s} : trans'[x] = trans[x]
    BY <2>1, <2>2, <2>3
  <2>5. RowsFenced' /\ ReadyStays
    BY <2>2, <2>4 DEF MinutesInv, RowsFenced, ReadyStays
  <2>6. \A x \in Minute!Source : trans'[x].token = trans[x].token /\ trans'[x].attempts = trans[x].attempts
    BY <2>2, <2>4
  <2>7. AttemptsKnown'
    BY <1>1, <2>6, AttemptsStand DEF MinutesInv
  <2> QED
    BY <1>1, <1>2, <1>4, <2>4, <2>5, <2>7, TranscriptsMove DEF MinutesInv, Minute!TypeOK
<1> QED
  BY <1>3, <1>4 DEF Minute!Lapse

\* The minutes or the summary of one worker move, and no transcript does.
LEMMA SummaryMoves ==
  ASSUME Minute!MinutesAssumption, MinutesInv, NEW w \in Scribe, desk[w].job # "transcribe",
         NEW d \in {Minute!Idle} \cup Minute!Summarizing \cup Minute!Sending,
         desk' = [desk EXCEPT ![w] = d],
         min' \in Minute!MinRow, MinutesMade',
         \A v \in Scribe \ {w} : min'.token = v =>
           min.token = v /\ min'.request = min.request /\ min'.recordings = min.recordings
           /\ min'.attempts = min.attempts,
         d.job = "summarize" =>
           /\ d.pages => d.left = <<>>
           /\ min'.token = w =>
                /\ d.request = min'.request /\ d.recordings = min'.recordings
                /\ d.attempts = min'.attempts
                /\ {f[1] : f \in d.from} \cup Minute!Range(d.left) = Minute!Range(min'.recordings)
                /\ ShownFrom(d.from),
         UNCHANGED <<audio, sheet, voice, trans, ask, retrying, sent, asked, turns>>
  PROVE  MinutesInv'
<1> DEFINE D == {Minute!Idle} \cup Minute!Transcribing \cup Minute!Reading
                    \cup Minute!Summarizing \cup Minute!Sending
<1>1. desk \in [Scribe -> D] /\ d \in D
  BY DEF MinutesInv, Minute!TypeOK
<1>2. desk' \in [Scribe -> D]
  <2> HIDE DEF D
  <2> QED
    BY <1>1
<1>3. desk'[w] = d /\ \A v \in Scribe \ {w} : desk'[v] = desk[v]
  <2> HIDE DEF D
  <2> QED
    BY <1>1
<1>4. Minute!TypeOK'
  BY <1>2 DEF MinutesInv, Minute!TypeOK
<1>5. RowsFenced' /\ Minute!SentByRequest'
  BY DEF MinutesInv, RowsFenced, Minute!SentByRequest
<1>6. d.job # "transcribe"
  <2>1. /\ Minute!Idle.job = "none"
        /\ \A x \in Minute!Summarizing : x.job = "summarize"
        /\ \A x \in Minute!Sending : x.job = "send"
    BY DEF Minute!Idle, Minute!Summarizing, Minute!Sending
  <2> QED
    BY <2>1
<1>7. AttemptsKnown'
  <2>1. \A v \in Scribe : desk'[v].job = "transcribe" => desk'[v] = desk[v]
    BY <1>3, <1>6
  <2> QED
    BY <2>1 DEF MinutesInv, AttemptsKnown
<1>8. SummaryHeld'
  <2> SUFFICES ASSUME NEW v \in Scribe, desk'[v].job = "summarize"
               PROVE  /\ desk'[v].pages => desk'[v].left = <<>>
                      /\ min'.token = v =>
                           /\ desk'[v].request = min'.request /\ desk'[v].recordings = min'.recordings
                           /\ desk'[v].attempts = min'.attempts
                           /\ {f[1] : f \in desk'[v].from} \cup Minute!Range(desk'[v].left)
                                = Minute!Range(min'.recordings)
                           /\ ShownFrom(desk[v].from)'
    BY DEF SummaryHeld
  <2>1. \A x : ShownFrom(x)' = ShownFrom(x)
    BY DEF ShownFrom
  <2>2. CASE v = w
    <3>1. desk'[v] = d
      BY <1>3, <2>2
    <3>2. ShownFrom(desk[v].from)' <=> ShownFrom(d.from)
      BY <3>1 DEF ShownFrom
    <3> QED
      BY <2>2, <3>1, <3>2
  <2>3. CASE v # w
    <3>1. desk'[v] = desk[v]
      BY <1>3, <2>3
    <3>2. ShownFrom(desk[v].from)' <=> ShownFrom(desk[v].from)
      BY <3>1 DEF ShownFrom
    <3> QED
      BY <2>3, <3>1, <3>2 DEF MinutesInv, SummaryHeld
  <2> QED
    BY <2>2, <2>3
<1> QED
  BY <1>4, <1>5, <1>7, <1>8 DEF MinutesInv

\* The claim of a summary starts from no transcript.
LEMMA MinutesClaimed ==
  ASSUME Minute!MinutesAssumption, MinutesInv, NEW w \in Scribe, Minute!ClaimMinutes(w)
  PROVE  MinutesInv'
<1> DEFINE d == [job |-> "summarize", request |-> min.request, attempts |-> min.attempts,
                 recordings |-> min.recordings, from |-> {}, text |-> Minute!NoText,
                 left |-> min.recordings, pages |-> FALSE]
<1>1. min \in Minute!MinRow /\ min.state \in Minute!Active /\ desk[w] = Minute!Idle
  BY DEF Minute!ClaimMinutes, MinutesInv, Minute!TypeOK
<1>2. min.request \in Minute!Request /\ min.attempts \in 0..(MaxDrafts - 1) /\ min.recordings \in Minute!Sources
  BY <1>1 DEF MinutesInv, MinutesMade, Minute!MinRow, Minute!Active
<1>3. d \in Minute!Summarizing
  <2>1. Minute!NoText \in Minute!Text
    BY DEF Minute!NoText, Minute!Text, Minute!MinutesAssumption
  <2> QED
    BY <1>2, <2>1 DEF Minute!Summarizing
<1>4. /\ d.request = min.request /\ d.attempts = min.attempts /\ d.recordings = min.recordings
      /\ d.left = min.recordings /\ d.pages = FALSE /\ d.from = {}
  OBVIOUS
<1>5. min' = [min EXCEPT !.state = "processing", !.token = w, !.leased = TRUE]
      /\ desk' = [desk EXCEPT ![w] = d]
      /\ UNCHANGED <<audio, sheet, voice, trans, ask, retrying, sent, asked, turns>>
  BY DEF Minute!ClaimMinutes
<1>6. /\ min' \in Minute!MinRow /\ min'.state = "processing" /\ min'.token = w
      /\ min'.request = min.request /\ min'.attempts = min.attempts
      /\ min'.recordings = min.recordings
  BY <1>1, <1>5 DEF Minute!MinRow
<1>7. MinutesMade'
  BY <1>2, <1>6 DEF MinutesMade
<1>8. desk[w].job # "transcribe"
  BY <1>1 DEF Minute!Idle
<1> HIDE DEF d
<1>9. {f[1] : f \in d.from} = {} /\ ShownFrom(d.from)
  BY <1>4 DEF ShownFrom
<1> QED
  BY <1>3, <1>4, <1>5, <1>6, <1>7, <1>8, <1>9, SummaryMoves

\* A statement ends the minutes, or finds that they are another's.
LEMMA SummarySettled ==
  ASSUME Minute!MinutesAssumption, MinutesInv, NEW w \in Scribe, desk[w].job = "summarize",
         NEW d \in {Minute!Idle} \cup Minute!Sending, desk' = [desk EXCEPT ![w] = d],
         \/ UNCHANGED min /\ ~Minute!Holds(w)
         \/ Minute!Holds(w) /\ min' \in Minute!MinRow /\ min'.token = NoScribe /\ MinutesMade',
         UNCHANGED <<audio, sheet, voice, trans, ask, retrying, sent, asked, turns>>
  PROVE  MinutesInv'
<1>1. d.job # "summarize"
  <2>1. Minute!Idle.job = "none" /\ \A x \in Minute!Sending : x.job = "send"
    BY DEF Minute!Idle, Minute!Sending
  <2> QED
    BY <2>1
<1>2. min' \in Minute!MinRow /\ MinutesMade'
  BY DEF MinutesInv, Minute!TypeOK, MinutesMade, ShownFrom
<1>3. \A v \in Scribe \ {w} : min'.token = v =>
        min.token = v /\ min'.request = min.request /\ min'.recordings = min.recordings
        /\ min'.attempts = min.attempts
  BY DEF Minute!MinutesAssumption
<1> QED
  BY <1>1, <1>2, <1>3, SummaryMoves

\* What a worker that holds the minutes knows of them.
LEMMA HolderKnows ==
  ASSUME Minute!MinutesAssumption, MinutesInv, NEW w \in Scribe, desk[w].job = "summarize",
         Minute!Holds(w)
  PROVE  /\ min.state = "processing" /\ min.request \in Minute!Request
         /\ desk[w].request = min.request /\ desk[w].recordings = min.recordings
         /\ desk[w].attempts = min.attempts
         /\ {f[1] : f \in desk[w].from} \cup Minute!Range(desk[w].left) = Minute!Range(min.recordings)
         /\ ShownFrom(desk[w].from)
<1>1. min.token = w
  BY DEF Minute!Holds
<1> QED
  BY <1>1, SummarizingIs DEF MinutesInv, MinutesMade, SummaryHeld, Minute!MinutesAssumption

\* A row that is set to a state other than ready.
LEMMA MinutesSettle ==
  ASSUME Minute!MinutesAssumption, MinutesInv, NEW w \in Scribe, desk[w].job = "summarize",
         NEW state \in {"queued", "failed"}, Minute!Settle(w, state),
         UNCHANGED <<audio, sheet, voice, trans, ask, retrying, sent, asked, turns>>
  PROVE  MinutesInv'
<1>1. desk' = [desk EXCEPT ![w] = Minute!Idle]
  BY DEF Minute!Settle
<1>2. CASE ~Minute!Holds(w)
  <2>1. UNCHANGED min
    BY <1>2 DEF Minute!Settle
  <2> QED
    BY <1>1, <1>2, <2>1, SummarySettled
<1>3. CASE Minute!Holds(w)
  <2>1. min' = [min EXCEPT !.state = state, !.token = NoScribe, !.leased = FALSE]
    BY <1>3 DEF Minute!Settle
  <2>2. min \in Minute!MinRow /\ min.request \in Minute!Request
    BY <1>3, HolderKnows DEF MinutesInv, Minute!TypeOK
  <2>3. min' \in Minute!MinRow /\ min'.token = NoScribe /\ min'.state = state
        /\ min'.request = min.request
    BY <2>1, <2>2 DEF Minute!MinRow
  <2>4. MinutesMade'
    BY <2>2, <2>3, MinutesReset
  <2> QED
    BY <1>1, <1>3, <2>3, <2>4, SummarySettled
<1> QED
  BY <1>2, <1>3

\* A summary that fails settles the row it holds, or none.
LEMMA SummaryFails ==
  ASSUME Minute!MinutesAssumption, MinutesInv, NEW w \in Scribe, Minute!FailSummary(w)
  PROVE  MinutesInv'
<1>1. desk[w].job = "summarize" /\ desk' = [desk EXCEPT ![w] = Minute!Idle]
      /\ UNCHANGED <<audio, sheet, voice, trans, ask, retrying, sent, asked, turns>>
  BY DEF Minute!FailSummary
<1>2. PICK terminal \in BOOLEAN :
        min' = IF ~Minute!Holds(w) THEN min
               ELSE [min EXCEPT !.state = IF Minute!Final(w, terminal) THEN "failed" ELSE "queued",
                       !.attempts = IF Minute!Final(w, terminal) THEN @ ELSE @ + 1,
                       !.token = NoScribe, !.leased = FALSE]
  BY DEF Minute!FailSummary
<1>3. CASE ~Minute!Holds(w)
  BY <1>1, <1>2, <1>3, SummarySettled
<1>4. CASE Minute!Holds(w)
  <2>1. min \in Minute!MinRow /\ min.request \in Minute!Request /\ desk[w].attempts = min.attempts
    BY <1>1, <1>4, HolderKnows DEF MinutesInv, Minute!TypeOK
  <2>2. min.attempts \in 0..(MaxDrafts - 1) /\ MaxDrafts \in Nat
    BY <2>1 DEF Minute!MinRow, Minute!MinutesAssumption
  <2> DEFINE state == IF Minute!Final(w, terminal) THEN "failed" ELSE "queued"
             count == IF Minute!Final(w, terminal) THEN min.attempts ELSE min.attempts + 1
  <2>3. count \in 0..(MaxDrafts - 1)
    BY <2>1, <2>2 DEF Minute!Final
  <2>4. state \in {"failed", "queued"}
    OBVIOUS
  <2>5. min' = [min EXCEPT !.state = state, !.attempts = count, !.token = NoScribe, !.leased = FALSE]
    BY <1>2, <1>4, <2>1 DEF Minute!MinRow
  <2> HIDE DEF state, count
  <2>6. min' \in Minute!MinRow /\ min'.token = NoScribe /\ min'.state = state
        /\ min'.request = min.request
    BY <2>1, <2>3, <2>4, <2>5 DEF Minute!MinRow
  <2>7. MinutesMade'
    BY <2>1, <2>4, <2>6, MinutesReset
  <2> QED
    BY <1>1, <1>4, <2>6, <2>7, SummarySettled
<1> QED
  BY <1>3, <1>4

\* The first of the recordings left is read; the rest is left.
LEMMA LeftShrinks ==
  ASSUME NEW left \in Minute!Sources, left # <<>>
  PROVE  /\ Head(left) \in Minute!Source /\ Tail(left) \in Minute!Sources
         /\ Minute!Range(left) = {Head(left)} \cup Minute!Range(Tail(left))
<1>1. left \in Seq(Minute!Source) /\ Len(left) \in Nat /\ Len(left) # 0
  BY DEF Minute!Sources
<1>2. Head(left) = left[1] /\ left[1] \in Minute!Source
  BY <1>1
<1> DEFINE rest == Tail(left)
<1>3. /\ rest \in Seq(Minute!Source) /\ Len(rest) = Len(left) - 1
      /\ \A i \in 1..Len(rest) : rest[i] = left[i + 1]
  BY <1>1
<1>4. DOMAIN left = 1..Len(left) /\ DOMAIN rest = 1..Len(rest)
  <2> HIDE DEF rest
  <2> QED
    BY <1>1, <1>3
<1> HIDE DEF rest
<1>5. Minute!Range(left) = {Head(left)} \cup Minute!Range(rest)
  <2>1. ASSUME NEW x \in Minute!Range(left) PROVE x = Head(left) \/ x \in Minute!Range(rest)
    <3>1. PICK i \in 1..Len(left) : x = left[i]
      BY <1>4, <2>1 DEF Minute!Range
    <3>2. CASE i = 1
      BY <1>2, <3>1, <3>2
    <3>3. CASE i # 1
      <4>1. i - 1 \in 1..Len(rest) /\ rest[i - 1] = left[i]
        BY <1>1, <1>3, <3>1, <3>3
      <4> QED
        BY <1>4, <3>1, <4>1 DEF Minute!Range
    <3> QED
      BY <3>2, <3>3
  <2>2. ASSUME NEW x \in Minute!Range(rest) PROVE x \in Minute!Range(left)
    <3>1. PICK i \in 1..Len(rest) : x = rest[i]
      BY <1>4, <2>2 DEF Minute!Range
    <3>2. i + 1 \in 1..Len(left) /\ left[i + 1] = rest[i]
      BY <1>1, <1>3, <3>1
    <3> QED
      BY <1>4, <3>1, <3>2 DEF Minute!Range
  <2>3. Head(left) \in Minute!Range(left)
    <3>1. 1 \in 1..Len(left)
      BY <1>1
    <3> QED
      BY <1>2, <1>4, <3>1 DEF Minute!Range
  <2> QED
    BY <2>1, <2>2, <2>3
<1> QED
  BY <1>2, <1>3, <1>5 DEF rest, Minute!Sources

\* A transcript that is read is shown as it was read, for as long as the lease holds.
LEMMA TranscriptRead ==
  ASSUME Minute!MinutesAssumption, MinutesInv, NEW w \in Scribe, Minute!ReadTranscript(w)
  PROVE  MinutesInv'
<1> DEFINE s == Head(desk[w].left)
           f0 == <<s, trans[s].made>>
           d == [desk[w] EXCEPT !.left = Tail(@), !.from = @ \cup {f0}]
<1>1. desk[w].job = "summarize" /\ desk[w].left # <<>>
      /\ UNCHANGED <<audio, sheet, voice, trans, ask, retrying, sent, asked, turns>>
  BY DEF Minute!ReadTranscript
<1>2. \/ Minute!Settle(w, "queued") \/ Minute!Settle(w, "failed")
      \/ /\ trans[s].state = "ready" /\ UNCHANGED min
         /\ desk' = [desk EXCEPT ![w].left = Tail(@), ![w].from = @ \cup {<<s, trans[s].made>>}]
  BY DEF Minute!ReadTranscript
<1>3. CASE Minute!Settle(w, "queued") \/ Minute!Settle(w, "failed")
  BY <1>1, <1>3, MinutesSettle
<1>4. CASE /\ trans[s].state = "ready" /\ UNCHANGED min
           /\ desk' = [desk EXCEPT ![w].left = Tail(@), ![w].from = @ \cup {<<s, trans[s].made>>}]
  <2>1. desk[w].left \in Minute!Sources /\ desk[w].from \in SUBSET (Minute!Source \X Nat)
    BY <1>1, SummarizingIs DEF MinutesInv
  <2>2. s \in Minute!Source /\ Tail(desk[w].left) \in Minute!Sources
        /\ Minute!Range(desk[w].left) = {s} \cup Minute!Range(Tail(desk[w].left))
    BY <1>1, <2>1, LeftShrinks
  <2> HIDE DEF s
  <2>3. trans[s].made \in Nat
    BY <2>2 DEF MinutesInv, Minute!TypeOK, Minute!TransRow
  <2>4. f0 \in Minute!Source \X Nat /\ f0[1] = s /\ f0[2] = trans[s].made
    BY <2>2, <2>3
  <2>5. desk[w] \in Minute!Summarizing
    BY <1>1, DeskKinds DEF MinutesInv
  <2> HIDE DEF f0
  <2>6. /\ d \in Minute!Summarizing /\ d.left = Tail(desk[w].left) /\ d.from = desk[w].from \cup {f0}
        /\ d.request = desk[w].request /\ d.recordings = desk[w].recordings
        /\ d.attempts = desk[w].attempts /\ d.pages = desk[w].pages
    BY <2>1, <2>2, <2>4, <2>5 DEF Minute!Summarizing
  <2>7. desk' = [desk EXCEPT ![w] = d]
    BY <1>4, <2>5 DEF Minute!Summarizing, f0, MinutesInv, Minute!TypeOK
  <2> HIDE DEF d
  <2>8. d.pages = FALSE
    <3>1. desk[w].pages => desk[w].left = <<>>
      BY <1>1 DEF MinutesInv, SummaryHeld
    <3>2. desk[w].pages \in BOOLEAN
      BY <1>1, SummarizingIs DEF MinutesInv
    <3> QED
      BY <1>1, <2>6, <3>1, <3>2
  <2>9. min' \in Minute!MinRow /\ MinutesMade'
    BY <1>1, <1>4 DEF MinutesInv, Minute!TypeOK, MinutesMade, ShownFrom
  <2>10. min'.token = w =>
           /\ d.request = min'.request /\ d.recordings = min'.recordings
           /\ d.attempts = min'.attempts
           /\ {f[1] : f \in d.from} \cup Minute!Range(d.left) = Minute!Range(min'.recordings)
           /\ ShownFrom(d.from)
    <3> SUFFICES ASSUME min.token = w
                 PROVE  /\ d.request = min.request /\ d.recordings = min.recordings
                        /\ d.attempts = min.attempts
                        /\ {f[1] : f \in d.from} \cup Minute!Range(d.left) = Minute!Range(min.recordings)
                        /\ ShownFrom(d.from)
      BY <1>4
    <3>1. /\ desk[w].request = min.request /\ desk[w].recordings = min.recordings
          /\ desk[w].attempts = min.attempts
          /\ {f[1] : f \in desk[w].from} \cup Minute!Range(desk[w].left) = Minute!Range(min.recordings)
          /\ ShownFrom(desk[w].from)
      BY <1>1 DEF MinutesInv, SummaryHeld
    <3>2. {f[1] : f \in d.from} = {f[1] : f \in desk[w].from} \cup {s}
      BY <2>4, <2>6
    <3>3. ShownFrom(d.from)
      BY <1>4, <2>4, <2>6, <3>1 DEF ShownFrom
    <3> QED
      BY <2>2, <2>6, <3>1, <3>2, <3>3
  <2> QED
    BY <1>1, <1>4, <2>6, <2>7, <2>8, <2>9, <2>10, SummaryMoves
<1> QED
  BY <1>2, <1>3, <1>4

\* The pages are read when no transcript is left to read.
LEMMA PagesRead ==
  ASSUME Minute!MinutesAssumption, MinutesInv, NEW w \in Scribe, Minute!ReadPages(w)
  PROVE  MinutesInv'
<1> DEFINE words == Minute!TextOf(sheet)
           d == [desk[w] EXCEPT !.text = words, !.pages = TRUE]
<1>1. desk[w].job = "summarize" /\ desk[w].left = <<>>
      /\ UNCHANGED <<audio, sheet, voice, trans, ask, retrying, sent, asked, turns>>
  BY DEF Minute!ReadPages
<1>2. \/ Minute!Settle(w, "queued") \/ Minute!Settle(w, "failed")
      \/ /\ desk' = [desk EXCEPT ![w].text = words, ![w].pages = TRUE] /\ UNCHANGED min
  BY DEF Minute!ReadPages
<1>3. CASE Minute!Settle(w, "queued") \/ Minute!Settle(w, "failed")
  BY <1>1, <1>3, MinutesSettle
<1>4. CASE /\ desk' = [desk EXCEPT ![w].text = words, ![w].pages = TRUE] /\ UNCHANGED min
  <2>1. words \in Minute!Text
    <3>1. sheet.ink \in 1..(MaxTurns + 1) /\ MaxTurns \in Nat
      BY DEF MinutesInv, Minute!TypeOK, Minute!MinutesAssumption
    <3> QED
      BY <3>1 DEF Minute!TextOf, Minute!NoText, Minute!Text
  <2>2. desk[w] \in Minute!Summarizing
    BY <1>1, DeskKinds DEF MinutesInv
  <2> HIDE DEF words
  <2>3. /\ d \in Minute!Summarizing /\ d.left = <<>> /\ d.from = desk[w].from
        /\ d.request = desk[w].request /\ d.recordings = desk[w].recordings
        /\ d.attempts = desk[w].attempts
    BY <1>1, <2>1, <2>2 DEF Minute!Summarizing
  <2>4. desk' = [desk EXCEPT ![w] = d]
    BY <1>4, <2>2 DEF Minute!Summarizing, MinutesInv, Minute!TypeOK
  <2> HIDE DEF d
  <2>5. min' \in Minute!MinRow /\ MinutesMade'
    BY <1>1, <1>4 DEF MinutesInv, Minute!TypeOK, MinutesMade, ShownFrom
  <2>6. min.token = w =>
          /\ desk[w].request = min.request /\ desk[w].recordings = min.recordings
          /\ desk[w].attempts = min.attempts
          /\ {f[1] : f \in desk[w].from} \cup Minute!Range(desk[w].left) = Minute!Range(min.recordings)
          /\ ShownFrom(desk[w].from)
    BY <1>1 DEF MinutesInv, SummaryHeld
  <2> QED
    BY <1>1, <1>4, <2>3, <2>4, <2>5, <2>6, SummaryMoves
<1> QED
  BY <1>2, <1>3, <1>4

\* The answer is stored: all recordings were read, and their transcripts are shown still.
LEMMA SummaryFinished ==
  ASSUME Minute!MinutesAssumption, MinutesInv, NEW w \in Scribe, Minute!Finish(w)
  PROVE  MinutesInv'
<1> DEFINE d == [job |-> "send", request |-> desk[w].request]
           input == <<desk[w].recordings, desk[w].text>>
<1>1. desk[w].job = "summarize" /\ desk[w].pages /\ desk' = [desk EXCEPT ![w] = d]
      /\ UNCHANGED <<audio, sheet, voice, trans, ask, retrying, sent, asked, turns>>
  BY DEF Minute!Finish
<1>2. /\ desk[w].request \in Minute!Request /\ desk[w].recordings \in Minute!Sources
      /\ desk[w].from \in SUBSET (Minute!Source \X Nat) /\ desk[w].text \in Minute!Text
  BY <1>1, SummarizingIs DEF MinutesInv
<1>3. d \in Minute!Sending
  BY <1>2 DEF Minute!Sending
<1>4. min' = IF Minute!Holds(w)
             THEN [min EXCEPT !.state = "ready", !.attempts = 0, !.token = NoScribe,
                     !.leased = FALSE, !.input = input, !.from = desk[w].from]
             ELSE min
  BY DEF Minute!Finish
<1>5. input \in Minute!Sources \X Minute!Text /\ input[1] = desk[w].recordings
      /\ input # Minute!NoInput
  BY <1>2 DEF Minute!NoInput
<1> HIDE DEF d, input
<1>6. CASE ~Minute!Holds(w)
  BY <1>1, <1>3, <1>4, <1>6, SummarySettled
<1>7. CASE Minute!Holds(w)
  <2>1. min \in Minute!MinRow /\ 0 \in 0..(MaxDrafts - 1)
    BY DEF MinutesInv, Minute!TypeOK, Minute!MinutesAssumption
  <2>2. /\ min' \in Minute!MinRow /\ min'.token = NoScribe /\ min'.state = "ready"
        /\ min'.input = input /\ min'.from = desk[w].from /\ min'.request = min.request
        /\ min'.recordings = min.recordings
    BY <1>2, <1>4, <1>5, <1>7, <2>1 DEF Minute!MinRow
  <2>3. /\ min.request \in Minute!Request /\ desk[w].recordings = min.recordings
        /\ {f[1] : f \in desk[w].from} \cup Minute!Range(desk[w].left) = Minute!Range(min.recordings)
        /\ ShownFrom(desk[w].from)
    BY <1>1, <1>7, HolderKnows
  <2>4. Minute!Range(desk[w].left) = {}
    <3>1. desk[w].left = <<>>
      BY <1>1 DEF MinutesInv, SummaryHeld
    <3> QED
      BY <3>1 DEF Minute!Range
  <2>5. \A f \in min'.from : trans'[f[1]].state = "ready" /\ trans'[f[1]].made = f[2]
    BY <1>1, <2>2, <2>3 DEF ShownFrom
  <2>6. MinutesMade'
    BY <1>5, <2>2, <2>3, <2>4, <2>5 DEF MinutesMade, ShownFrom
  <2> QED
    BY <1>1, <1>3, <1>7, <2>2, <2>6, SummarySettled
<1> QED
  BY <1>6, <1>7

\* The automatic send queues a note only where the request has none.
LEMMA MinutesSend ==
  ASSUME Minute!MinutesAssumption, MinutesInv, NEW w \in Scribe, Minute!Send(w)
  PROVE  MinutesInv'
<1> DEFINE id == desk[w].request
<1>1. desk[w].job = "send" /\ desk' = [desk EXCEPT ![w] = Minute!Idle]
      /\ UNCHANGED <<audio, sheet, voice, trans, min, ask, retrying, asked, turns>>
  BY DEF Minute!Send
<1>2. id \in Minute!Request
  BY <1>1, DeskKinds DEF MinutesInv, Minute!Sending
<1>3. \/ sent[id] = 0 /\ sent' = [sent EXCEPT ![id] = @ + 1]
      \/ sent' = sent
  BY DEF Minute!Send, Minute!Unsent
<1> HIDE DEF id
<1>4. sent' \in [Minute!Request -> Nat] /\ Minute!SentByRequest'
  <2>1. sent \in [Minute!Request -> Nat] /\ \A x \in Minute!Request : sent[x] <= 1
    <3>1. sent \in [Minute!Request -> Nat]
      BY DEF MinutesInv, Minute!TypeOK
    <3> QED
      BY <3>1 DEF MinutesInv, Minute!SentByRequest
  <2>2. sent' \in [Minute!Request -> Nat] /\ \A x \in Minute!Request : sent'[x] <= 1
    <3>1. CASE sent' = sent
      BY <2>1, <3>1
    <3>2. CASE sent[id] = 0 /\ sent' = [sent EXCEPT ![id] = @ + 1]
      <4>1. sent' \in [Minute!Request -> Nat] /\ sent'[id] = 1
        BY <1>2, <2>1, <3>2
      <4>2. \A x \in Minute!Request \ {id} : sent'[x] = sent[x]
        BY <1>2, <2>1, <3>2
      <4> QED
        BY <2>1, <4>1, <4>2
    <3> QED
      BY <1>3, <3>1, <3>2
  <2> QED
    BY <2>2 DEF Minute!SentByRequest
<1>5. /\ desk' \in [Scribe -> {Minute!Idle} \cup Minute!Transcribing \cup Minute!Reading
                                 \cup Minute!Summarizing \cup Minute!Sending]
      /\ \A v \in Scribe : desk'[v].job = "summarize" => desk'[v] = desk[v]
      /\ desk'[w] = Minute!Idle /\ \A v \in Scribe \ {w} : desk'[v] = desk[v]
  BY <1>1, DeskMoves
<1>6. Minute!TypeOK'
  BY <1>1, <1>4, <1>5 DEF MinutesInv, Minute!TypeOK
<1>7. RowsFenced' /\ MinutesMade'
  BY <1>1 DEF MinutesInv, RowsFenced, MinutesMade, ShownFrom
<1>8. AttemptsKnown'
  BY <1>1, <1>5 DEF MinutesInv, AttemptsKnown, Minute!Idle
<1>9. SummaryHeld'
  <2>1. ReadyStays
    BY <1>1 DEF ReadyStays
  <2> QED
    BY <1>1, <1>5, <2>1, SummariesStand DEF MinutesInv
<1> QED
  BY <1>4, <1>6, <1>7, <1>8, <1>9 DEF MinutesInv

\* Every step preserves the invariant.
LEMMA MinutesNext ==
  ASSUME Minute!MinutesAssumption, MinutesInv, Minute!Next
  PROVE  MinutesInv'
BY MinutesAsked, MinutesCommitted, MinutesGivenUp, MinutesControlled, TranscriptsRetried,
   TranscriptClaimed, TranscriptEnds, RecordingRead, MinutesClaimed, TranscriptRead, PagesRead,
   SummaryFails, SummaryFinished, MinutesSend, MinutesLapse, NotebookChanges
DEF Minute!Next

\* A step that changes nothing preserves the invariant.
LEMMA MinutesStutter ==
  ASSUME MinutesInv, UNCHANGED Minute!mvars
  PROVE  MinutesInv'
<1> USE DEF Minute!mvars, MinutesInv
<1>1. Minute!TypeOK' /\ RowsFenced' /\ Minute!SentByRequest'
  BY DEF Minute!TypeOK, RowsFenced, Minute!SentByRequest
<1>2. MinutesMade' /\ AttemptsKnown' /\ SummaryHeld'
  BY DEF MinutesMade, AttemptsKnown, SummaryHeld, ShownFrom
<1> QED
  BY <1>1, <1>2

\* What the invariant says of minutes that are ready.
LEMMA MinutesAreSound ==
  ASSUME Minute!MinutesAssumption, MinutesInv PROVE MinutesSound
<1>1. Minute!MadeFromShown
  BY DEF MinutesInv, MinutesMade, Minute!MadeFromShown, ShownFrom
<1>2. Minute!FreshOrFlagged
  <2> SUFFICES ASSUME min.state = "ready", ~Minute!Stale
               PROVE  {f[1] : f \in min.from}
                        = {<<r, audio[r]>> : r \in {x \in Recording : audio[x] # NoBody}}
    BY DEF Minute!FreshOrFlagged
  <2>1. {f[1] : f \in min.from} = Minute!Range(min.input[1])
    BY DEF MinutesInv, MinutesMade
  <2>2. min.input[1] = Minute!Listing(audio, Minute!ByName)
    BY DEF Minute!Stale
  <2>3. audio \in [Recording -> Body \cup {NoBody}]
    BY DEF MinutesInv, Minute!TypeOK
  <2>4. Minute!ByName \in Seq(Recording) /\ Minute!Range(Minute!ByName) = Recording
    <3>1. Recording = 1..Len(ByTime) /\ Len(ByTime) \in Nat
      <4>1. ByTime \in Seq(Recording) /\ DOMAIN ByTime = Recording
        BY DEF Minute!MinutesAssumption
      <4>2. \A S : \A q \in Seq(S) : DOMAIN q = 1..Len(q) /\ Len(q) \in Nat
        OBVIOUS
      <4> QED
        BY <4>1, <4>2
    <3>2. Minute!ByName \in [1..Len(ByTime) -> Recording]
      BY <3>1 DEF Minute!ByName
    <3>3. Minute!ByName \in Seq(Recording)
      <4>1. ASSUME NEW S, NEW n \in Nat, NEW f \in [1..n -> S] PROVE f \in Seq(S)
        OBVIOUS
      <4> HIDE DEF Minute!ByName
      <4> QED
        BY ONLY <3>1, <3>2, <4>1
    <3> QED
      BY <3>3 DEF Minute!ByName, Minute!Range
  <2> QED
    BY <2>1, <2>2, <2>3, <2>4, ListingOf
<1> QED
  BY <1>1, <1>2 DEF MinutesInv, MinutesSound

\* For every number of workers, browsers, recordings, requests and edits: the minutes
\* shown as ready were made from the transcripts shown beside them, each as it was read,
\* whatever was requested, cancelled or retried meanwhile (processSummary,
\* boox/minutes.go:414-560); a request's automatic send queues one note
\* (boox/minutes_send.go:258-290); and minutes that are not marked out of date are of
\* every live recording, with its present body (boox/minutes_views.go:234-244).
THEOREM MinutesStaySound == Minute!Spec => []MinutesSound
<1>1. Minute!Init => MinutesInv
  BY RecognitionAssumption, MinutesInit
<1>2. MinutesInv /\ [Minute!Next]_(Minute!mvars) => MinutesInv'
  BY RecognitionAssumption, MinutesNext, MinutesStutter
<1>3. MinutesInv => MinutesSound
  BY RecognitionAssumption, MinutesAreSound
<1> QED
  BY <1>1, <1>2, <1>3, PTL DEF Minute!Spec

-----------------------------------------------------------------------------
(* Runs of recognition over the library.                                    *)

\* The sizes of sets, as the library's theorems have them.
LEMMA CardinalityIs == ASSUME NEW S PROVE Runs!Cardinality(S) = Cardinality(S)
  BY DEF Runs!Cardinality, Cardinality, Runs!IsFiniteSet, IsFiniteSet

\* A set of numbers has a least one.
LEMMA MinIs ==
  ASSUME NEW S, S \subseteq Nat, S # {}
  PROVE  Runs!Min(S) \in S /\ \A y \in S : Runs!Min(S) <= y
<1> DEFINE R == {p \in Nat \X Nat : p[1] < p[2]}
<1>1. IsWellFoundedOn(R, Nat)
  BY NatLessThanWellFounded DEF OpToRel
<1> HIDE DEF R
<1>2. PICK x \in S : \A y \in S : ~(<<y, x>> \in R)
  BY <1>1, WFMin
<1>3. \A y \in S : x <= y
  <2>1. TAKE y \in S
  <2>2. x \in Nat /\ y \in Nat /\ ~(<<y, x>> \in R)
    BY <1>2
  <2>3. ~(y < x)
    BY <2>2 DEF R
  <2> QED
    BY <2>2, <2>3
<1>4. \E z \in S : \A y \in S : z <= y
  BY <1>3
<1> QED
  BY <1>4 DEF Runs!Min

\* The jobs of a page in a run's batch, and the last of its jobs.
Batched(js, r) == {i \in DOMAIN js : js[i].batch = r}
LastJob(js) == js[Len(js)]

\* A page's jobs are a sequence.
LEMMA JobsAre ==
  ASSUME NEW js \in Seq(Runs!Job)
  PROVE  /\ Len(js) \in Nat /\ DOMAIN js = 1..Len(js) /\ \A i \in 1..Len(js) : js[i] \in Runs!Job
         /\ js # <<>> => Len(js) \in 1..Len(js) /\ LastJob(js) \in Runs!Job
         /\ js = <<>> => Len(js) = 0
         /\ \A r : IsFiniteSet(Batched(js, r)) /\ Len(js) + 1 \notin Batched(js, r)
<1>1. Len(js) \in Nat /\ DOMAIN js = 1..Len(js) /\ \A i \in 1..Len(js) : js[i] \in Runs!Job
  OBVIOUS
<1>2. js # <<>> => Len(js) \in 1..Len(js)
  <2>1. js # <<>> => Len(js) # 0
    OBVIOUS
  <2> QED
    BY <1>1, <2>1
<1>3. ASSUME NEW r PROVE IsFiniteSet(Batched(js, r)) /\ Len(js) + 1 \notin Batched(js, r)
  <2>1. IsFiniteSet(1..Len(js))
    BY <1>1, FS_Interval
  <2>2. Batched(js, r) \subseteq 1..Len(js)
    BY <1>1 DEF Batched
  <2>3. Len(js) + 1 \notin 1..Len(js)
    BY <1>1
  <2> QED
    BY <2>1, <2>2, <2>3, FS_Subset
<1> QED
  BY <1>1, <1>2, <1>3 DEF LastJob

\* The row's state changes, and its job goes on.
LEMMA PutKeeps ==
  ASSUME NEW js \in Seq(Runs!Job), js # <<>>, NEW state \in Runs!JobState,
         ~(state = "queued" /\ LastJob(js).state \in Runs!Settled)
  PROVE  /\ Runs!Put(js, state) \in Seq(Runs!Job) /\ Len(Runs!Put(js, state)) = Len(js)
         /\ Runs!Put(js, state) # <<>>
         /\ LastJob(Runs!Put(js, state)).state = state
         /\ \A i \in 1..Len(js) : Runs!Put(js, state)[i].batch = js[i].batch
<1> DEFINE job == [LastJob(js) EXCEPT !.state = state]
           new == [js EXCEPT ![Len(js)] = job]
<1>1. Runs!Put(js, state) = new
  <2>1. Runs!Put(js, state) = [js EXCEPT ![Len(js)].state = state]
    BY DEF Runs!Put, LastJob
  <2> QED
    BY <2>1 DEF LastJob
<1>2. Len(js) \in 1..Len(js) /\ LastJob(js) \in Runs!Job /\ Len(js) \in Nat /\ DOMAIN js = 1..Len(js)
  BY JobsAre
<1>3. job \in Runs!Job /\ job.state = state /\ job.batch = LastJob(js).batch
  BY <1>2 DEF Runs!Job
<1> HIDE DEF job
<1>4. new \in Seq(Runs!Job) /\ Len(new) = Len(js) /\ new[Len(js)] = job
      /\ \A i \in 1..Len(js) : i # Len(js) => new[i] = js[i]
  <2>1. \A q \in Seq(Runs!Job) : \A k \in 1..Len(q) : \A e \in Runs!Job :
          /\ [q EXCEPT ![k] = e] \in Seq(Runs!Job) /\ Len([q EXCEPT ![k] = e]) = Len(q)
          /\ \A i \in 1..Len(q) : [q EXCEPT ![k] = e][i] = IF i = k THEN e ELSE q[i]
    BY ExceptSeq
  <2>2. /\ new \in Seq(Runs!Job) /\ Len(new) = Len(js)
        /\ \A i \in 1..Len(js) : new[i] = IF i = Len(js) THEN job ELSE js[i]
    BY <1>2, <1>3, <2>1
  <2> QED
    BY <1>2, <2>2
<1> HIDE DEF new
<1>5. new # <<>>
  BY <1>2, <1>4, EmptySeq
<1> QED
  BY <1>1, <1>2, <1>3, <1>4, <1>5 DEF LastJob

\* The row is queued again, or for the first time: it has a new job.
LEMMA PutAdds ==
  ASSUME NEW js \in Seq(Runs!Job), NEW state \in Runs!JobState,
         js = <<>> \/ (state = "queued" /\ LastJob(js).state \in Runs!Settled)
  PROVE  /\ Runs!Put(js, state) \in Seq(Runs!Job) /\ Len(Runs!Put(js, state)) = Len(js) + 1
         /\ Runs!Put(js, state)[Len(js) + 1] = [state |-> state, batch |-> Runs!NoBatch]
         /\ \A i \in 1..Len(js) : Runs!Put(js, state)[i] = js[i]
<1> DEFINE job == [state |-> state, batch |-> Runs!NoBatch]
<1>1. Runs!Put(js, state) = Append(js, job)
  BY DEF Runs!Put, LastJob
<1>2. job \in Runs!Job
  BY DEF Runs!Job
<1> HIDE DEF job
<1>3. Append(js, job) \in Seq(Runs!Job) /\ Len(Append(js, job)) = Len(js) + 1
      /\ Append(js, job)[Len(js) + 1] = job /\ \A i \in 1..Len(js) : Append(js, job)[i] = js[i]
  BY <1>2
<1> QED
  BY <1>1, <1>3 DEF job

\* What a page's jobs become keeps the number of its jobs in every run.
Carried(js, new) ==
  /\ new \in Seq(Runs!Job)
  /\ \A r \in Run : Cardinality(Batched(new, r)) = Cardinality(Batched(js, r))

\* The page waits in the run's batch.
Waits(js, r) == js # <<>> /\ LastJob(js).batch = r /\ LastJob(js).state = "queued"

\* The page's row is set to a state, but for a paused one that goes on.
LEMMA PutMoves ==
  ASSUME Runs!RunsAssumption, NEW js \in Seq(Runs!Job), NEW state \in Runs!JobState,
         state = "queued" => js = <<>> \/ LastJob(js).state # "paused"
  PROVE  /\ Carried(js, Runs!Put(js, state))
         /\ Runs!Put(js, state) # <<>>
         /\ Len(Runs!Put(js, state)) <= Len(js) + 1
         /\ state # "queued" /\ js # <<>> => Len(Runs!Put(js, state)) = Len(js)
         /\ \A r \in Run : Waits(Runs!Put(js, state), r) =>
              Waits(js, r) /\ Len(Runs!Put(js, state)) = Len(js)
<1> DEFINE new == Runs!Put(js, state)
           settled == state = "queued" /\ LastJob(js).state \in Runs!Settled
<1>1. Len(js) \in Nat /\ DOMAIN js = 1..Len(js) /\ (js # <<>> => Len(js) \in 1..Len(js))
  BY JobsAre
<1>2. \A r \in Run : r # Runs!NoBatch
  BY DEF Runs!RunsAssumption, Runs!NoBatch
<1>3. CASE js # <<>> /\ ~settled
  <2>1. /\ new \in Seq(Runs!Job) /\ Len(new) = Len(js) /\ new # <<>> /\ LastJob(new).state = state
        /\ \A i \in 1..Len(js) : new[i].batch = js[i].batch
    BY <1>3, PutKeeps
  <2> HIDE DEF new
  <2>2. DOMAIN new = 1..Len(js)
    BY <2>1
  <2>3. \A r \in Run : Batched(new, r) = Batched(js, r)
    BY <1>1, <2>1, <2>2 DEF Batched
  <2>4. LastJob(new).batch = LastJob(js).batch
    BY <1>1, <1>3, <2>1 DEF LastJob
  <2>5. state = "queued" => LastJob(js).state = "queued"
    <3>1. LastJob(js).state \in {"queued", "paused"} \cup Runs!Settled
      BY <1>3, JobsAre DEF Runs!Job, Runs!JobState
    <3> QED
      BY <1>3, <3>1
  <2>6. Len(new) <= Len(js) + 1
    BY <1>1, <2>1
  <2>7. Carried(js, new)
    BY <2>1, <2>3 DEF Carried
  <2>8. \A r \in Run : Waits(new, r) => Waits(js, r)
    BY <1>3, <2>1, <2>4, <2>5 DEF Waits
  <2> QED
    BY <2>1, <2>6, <2>7, <2>8 DEF new
<1>4. CASE js = <<>> \/ settled
  <2>1. /\ new \in Seq(Runs!Job) /\ Len(new) = Len(js) + 1
        /\ new[Len(js) + 1] = [state |-> state, batch |-> Runs!NoBatch]
        /\ \A i \in 1..Len(js) : new[i] = js[i]
    BY <1>4, PutAdds
  <2> HIDE DEF new
  <2>2. DOMAIN new = (1..Len(js)) \cup {Len(js) + 1} /\ new # <<>>
    BY <1>1, <2>1
  <2>3. \A r \in Run : Batched(new, r) = Batched(js, r)
    <3>1. TAKE r \in Run
    <3>2. new[Len(js) + 1].batch # r
      <4>1. new[Len(js) + 1].batch = Runs!NoBatch
        BY <2>1
      <4> QED
        BY <1>2, <4>1
    <3>3. \A i \in 1..Len(js) : new[i].batch = r <=> js[i].batch = r
      BY <2>1
    <3> QED
      BY <1>1, <2>2, <3>2, <3>3 DEF Batched
  <2>4. LastJob(new).batch = Runs!NoBatch
    BY <2>1 DEF LastJob
  <2>5. Carried(js, new)
    BY <2>1, <2>3 DEF Carried
  <2>6. \A r \in Run : ~Waits(new, r)
    BY <1>2, <2>4 DEF Waits
  <2>7. state # "queued" => js = <<>>
    BY <1>4
  <2>8. Len(new) <= Len(js) + 1
    BY <1>1, <2>1
  <2> QED
    BY <2>2, <2>5, <2>6, <2>7, <2>8 DEF new
<1> QED
  BY <1>3, <1>4

\* A page asked for again has one more job, in the batch it is asked for in.
LEMMA RequestIs ==
  ASSUME Runs!RunsAssumption, NEW p, jobs[p] \in Seq(Runs!Job), Runs!Requestable(p),
         NEW b \in Run \cup {Runs!NoBatch}
  PROVE  /\ Runs!Request(p, b) \in Seq(Runs!Job) /\ Len(Runs!Request(p, b)) = Len(jobs[p]) + 1
         /\ Runs!Request(p, b) # <<>>
         /\ LastJob(Runs!Request(p, b)).batch = b
         /\ \A r \in Run : Batched(Runs!Request(p, b), r)
              = IF r = b THEN Batched(jobs[p], r) \cup {Len(jobs[p]) + 1} ELSE Batched(jobs[p], r)
<1> DEFINE js == jobs[p]
           put == Runs!Put(js, "queued")
           job == [put[Len(put)] EXCEPT !.batch = b]
           new == [put EXCEPT ![Len(put)] = job]
<1>1. Len(js) \in Nat /\ DOMAIN js = 1..Len(js)
  BY JobsAre
<1>2. js = <<>> \/ LastJob(js).state \in Runs!Settled
  <2>1. CASE js # <<>>
    <3>1. Runs!StateOf(p) = LastJob(js).state
      BY <2>1 DEF Runs!StateOf, LastJob
    <3>2. LastJob(js).state \in {"queued", "paused"} \cup Runs!Settled
      BY <2>1, JobsAre DEF Runs!Job, Runs!JobState
    <3> HIDE DEF js
    <3> QED
      BY <3>1, <3>2 DEF Runs!Requestable, Runs!Settled
  <2> QED
    BY <2>1
<1>3. /\ put \in Seq(Runs!Job) /\ Len(put) = Len(js) + 1
      /\ put[Len(js) + 1] = [state |-> "queued", batch |-> Runs!NoBatch]
      /\ \A i \in 1..Len(js) : put[i] = js[i]
  <2>1. "queued" \in Runs!JobState
    BY DEF Runs!JobState
  <2> QED
    BY <1>2, <2>1, PutAdds
<1>4. Runs!Request(p, b) = new
  BY DEF Runs!Request
<1> HIDE DEF js, put
<1>5. Len(put) \in 1..Len(put) /\ put[Len(put)] = [state |-> "queued", batch |-> Runs!NoBatch]
  BY <1>1, <1>3
<1>6. job = [state |-> "queued", batch |-> b] /\ job \in Runs!Job
  BY <1>5 DEF Runs!Job, Runs!JobState
<1> HIDE DEF job
<1>7. /\ new \in Seq(Runs!Job) /\ Len(new) = Len(js) + 1 /\ new[Len(js) + 1] = job
      /\ \A i \in 1..Len(js) : new[i] = js[i]
  <2>1. /\ new \in Seq(Runs!Job) /\ Len(new) = Len(put)
        /\ \A i \in 1..Len(put) : new[i] = IF i = Len(put) THEN job ELSE put[i]
    BY <1>3, <1>5, <1>6, ExceptSeq
  <2>2. \A i \in 1..Len(js) : i \in 1..Len(put) /\ i # Len(put)
    BY <1>1, <1>3
  <2> QED
    BY <1>3, <1>5, <2>1, <2>2
<1> HIDE DEF new
<1>8. DOMAIN new = (1..Len(js)) \cup {Len(js) + 1} /\ new # <<>>
  BY <1>1, <1>7
<1>9. ASSUME NEW r \in Run
      PROVE  Batched(new, r) = IF r = b THEN Batched(js, r) \cup {Len(js) + 1} ELSE Batched(js, r)
  <2>1. new[Len(js) + 1].batch = b
    BY <1>6, <1>7
  <2> QED
    BY <1>1, <1>7, <1>8, <2>1 DEF Batched
<1>10. LastJob(new).batch = b
  BY <1>6, <1>7 DEF LastJob
<1> QED
  BY <1>4, <1>7, <1>8, <1>9, <1>10 DEF js

\* What the owner does to jobs and runs.
Controls == {"pause", "resume", "cancel", "retry", "skip", "unskip"}

\* A replaced job leaves its batch to the one that replaces it.
LEMMA ReplacedIs ==
  ASSUME Runs!RunsAssumption, NEW js \in Seq(Runs!Job), js # <<>>,
         NEW new, DOMAIN new = 1..(Len(js) + 1), NEW state,
         new[Len(js) + 1] = [state |-> state, batch |-> LastJob(js).batch],
         new[Len(js)] = [LastJob(js) EXCEPT !.batch = Runs!NoBatch],
         \A i \in 1..(Len(js) - 1) : new[i] = js[i],
         NEW r \in Run
  PROVE  Cardinality(Batched(new, r)) = Cardinality(Batched(js, r))
<1> DEFINE n == Len(js)
<1>1. n \in Nat /\ n \in 1..n /\ LastJob(js) \in Runs!Job /\ DOMAIN js = 1..n
  BY JobsAre
<1>2. new[n + 1].batch = LastJob(js).batch /\ new[n].batch = Runs!NoBatch /\ js[n] = LastJob(js)
  BY <1>1 DEF Runs!Job, LastJob
<1>3. r # Runs!NoBatch
  BY DEF Runs!RunsAssumption, Runs!NoBatch
<1>4. IsFiniteSet(Batched(js, r)) /\ n + 1 \notin Batched(js, r)
  BY JobsAre
<1>5. \A i \in 1..n : i # n => (new[i].batch = r <=> js[i].batch = r)
  <2>1. \A i \in 1..n : i # n => i \in 1..(n - 1)
    BY <1>1
  <2> QED
    BY <2>1
<1>6. \A i \in DOMAIN new : i \in 1..n \/ i = n + 1
  BY <1>1
<1>7. 1..n \subseteq DOMAIN new /\ n + 1 \in DOMAIN new
  BY <1>1
<1>8. CASE LastJob(js).batch = r
  <2>1. Batched(new, r) = (Batched(js, r) \ {n}) \cup {n + 1}
    <3> HIDE DEF n
    <3>1. new[n + 1].batch = r /\ new[n].batch # r /\ n # n + 1
      BY <1>1, <1>2, <1>3, <1>8
    <3> QED
      BY <1>1, <1>5, <1>6, <1>7, <3>1 DEF Batched
  <2>2. n \in Batched(js, r)
    BY <1>1, <1>2, <1>8 DEF Batched
  <2> DEFINE rest == Batched(js, r) \ {n}
  <2>3. IsFiniteSet(rest) /\ Cardinality(rest) = Cardinality(Batched(js, r)) - 1
    BY <1>4, <2>2, FS_RemoveElement
  <2>4. n + 1 \notin rest
    BY <1>4
  <2> HIDE DEF rest
  <2>5. Cardinality(rest \cup {n + 1}) = Cardinality(rest) + 1
    BY <2>3, <2>4, FS_AddElement
  <2>6. Cardinality(Batched(js, r)) \in Nat
    BY <1>4, FS_CardinalityType
  <2> QED
    BY <2>1, <2>3, <2>5, <2>6 DEF rest
<1>9. CASE LastJob(js).batch # r
  <2>1. Batched(new, r) = Batched(js, r)
    <3> HIDE DEF n
    <3>1. new[n + 1].batch # r /\ new[n].batch # r /\ js[n].batch # r
      BY <1>2, <1>3, <1>9
    <3> QED
      BY <1>1, <1>5, <1>6, <1>7, <3>1 DEF Batched
  <2> QED
    BY <2>1
<1> QED
  BY <1>8, <1>9

\* The owner's action on a page's job, or on the one that replaces it in its batch.
LEMMA ControlIs ==
  ASSUME Runs!RunsAssumption, NEW p, jobs[p] \in Seq(Runs!Job), NEW order \in Controls,
         Runs!StateOf(p) \in Runs!Allowed(order)
  PROVE  /\ jobs[p] # <<>>
         /\ Carried(jobs[p], Runs!Control(p, order)) /\ Runs!Control(p, order) # <<>>
         /\ LastJob(Runs!Control(p, order)).state = Runs!Target(order)
         /\ LastJob(Runs!Control(p, order)).batch = LastJob(jobs[p]).batch
         /\ Len(Runs!Control(p, order)) <= Len(jobs[p]) + 1
         /\ Runs!Target(order) # "queued" \/ Runs!StateOf(p) \notin Runs!Settled
              => Len(Runs!Control(p, order)) = Len(jobs[p])
<1> DEFINE js == jobs[p]
           target == Runs!Target(order)
           put == Runs!Put(js, target)
<1>1. Runs!StateOf(p) # "none"
  BY DEF Runs!Allowed, Controls
<1>2. js # <<>> /\ Runs!StateOf(p) = LastJob(js).state
  BY <1>1 DEF Runs!StateOf, LastJob
<1>3. Len(js) \in Nat /\ Len(js) \in 1..Len(js) /\ LastJob(js) \in Runs!Job /\ DOMAIN js = 1..Len(js)
  BY <1>2, JobsAre
<1>4. target \in Runs!JobState
  BY DEF Runs!Target, Controls, Runs!JobState, Runs!Settled
<1> HIDE DEF target
<1>5. CASE ~(target = "queued" /\ LastJob(js).state \in Runs!Settled)
  <2>1. /\ put \in Seq(Runs!Job) /\ Len(put) = Len(js) /\ put # <<>> /\ LastJob(put).state = target
        /\ \A i \in 1..Len(js) : put[i].batch = js[i].batch
    BY <1>2, <1>4, <1>5, PutKeeps
  <2>2. Runs!Control(p, order) = put
    BY <2>1 DEF Runs!Control, target
  <2> HIDE DEF put
  <2>3. \A r \in Run : Batched(put, r) = Batched(js, r)
    BY <1>3, <2>1 DEF Batched
  <2>4. LastJob(put).batch = LastJob(js).batch
    BY <1>3, <2>1 DEF LastJob
  <2> QED
    BY <1>2, <1>3, <2>1, <2>2, <2>3, <2>4 DEF Carried, target
<1>6. CASE target = "queued" /\ LastJob(js).state \in Runs!Settled
  <2>1. /\ put \in Seq(Runs!Job) /\ Len(put) = Len(js) + 1
        /\ put[Len(js) + 1] = [state |-> target, batch |-> Runs!NoBatch]
        /\ \A i \in 1..Len(js) : put[i] = js[i]
    BY <1>4, <1>6, PutAdds
  <2> DEFINE new == [i \in 1..Len(put) |->
                       CASE i = Len(put) -> [put[i] EXCEPT !.batch = js[Len(js)].batch]
                         [] i = Len(js) -> [js[i] EXCEPT !.batch = Runs!NoBatch]
                         [] OTHER -> js[i]]
  <2>2. Runs!Control(p, order) = new
    <3>1. Len(put) # Len(js)
      BY <1>3, <2>1
    <3> QED
      BY <3>1 DEF Runs!Control, target
  <2> HIDE DEF put
  <2>3. /\ DOMAIN new = 1..(Len(js) + 1)
        /\ new[Len(js) + 1] = [state |-> target, batch |-> LastJob(js).batch]
        /\ new[Len(js)] = [LastJob(js) EXCEPT !.batch = Runs!NoBatch]
        /\ \A i \in 1..(Len(js) - 1) : new[i] = js[i]
    <3>1. DOMAIN new = 1..(Len(js) + 1)
      BY <2>1
    <3>2. Len(js) + 1 \in 1..(Len(js) + 1) /\ Len(js) \in 1..(Len(js) + 1) /\ Len(js) # Len(js) + 1
          /\ Len(put) = Len(js) + 1
      BY <1>3, <2>1
    <3>3. new[Len(js) + 1] = [put[Len(js) + 1] EXCEPT !.batch = js[Len(js)].batch]
      BY <3>2
    <3>4. new[Len(js)] = [LastJob(js) EXCEPT !.batch = Runs!NoBatch]
      BY <3>2 DEF LastJob
    <3>5. \A i \in 1..(Len(js) - 1) : new[i] = js[i]
      <4>1. \A i \in 1..(Len(js) - 1) : i \in 1..Len(put) /\ i # Len(put) /\ i # Len(js)
        BY <1>3, <3>2
      <4> QED
        BY <4>1
    <3>6. [put[Len(js) + 1] EXCEPT !.batch = js[Len(js)].batch]
            = [state |-> target, batch |-> LastJob(js).batch]
      BY <2>1 DEF LastJob
    <3> QED
      BY <3>1, <3>3, <3>4, <3>5, <3>6
  <2> HIDE DEF new
  <2>4. \A r \in Run : Cardinality(Batched(new, r)) = Cardinality(Batched(js, r))
    BY <1>2, <2>3, ReplacedIs
  <2>5. new \in Seq(Runs!Job) /\ Len(new) = Len(js) + 1
    <3>1. new[Len(js) + 1] \in Runs!Job
      BY <1>3, <1>4, <2>3 DEF Runs!Job
    <3>2. new[Len(js)] \in Runs!Job
      BY <1>3, <2>3 DEF Runs!Job
    <3>3. \A i \in 1..(Len(js) + 1) : new[i] \in Runs!Job
      <4>1. \A i \in 1..(Len(js) + 1) : i = Len(js) + 1 \/ i = Len(js) \/ i \in 1..(Len(js) - 1)
        BY <1>3
      <4>2. \A i \in 1..(Len(js) - 1) : js[i] \in Runs!Job
        BY <1>3
      <4> QED
        BY <2>3, <3>1, <3>2, <4>1, <4>2
    <3>4. new \in [1..(Len(js) + 1) -> Runs!Job]
      BY <2>3, <3>3 DEF new
    <3>5. Len(js) + 1 \in Nat
      BY <1>3
    <3>6. \A n \in Nat : \A f \in [1..n -> Runs!Job] : f \in Seq(Runs!Job) /\ Len(f) = n
      OBVIOUS
    <3> QED
      BY <3>4, <3>5, <3>6
  <2>6. new # <<>> /\ LastJob(new).state = target /\ LastJob(new).batch = LastJob(js).batch
    BY <1>3, <2>3, <2>5 DEF LastJob
  <2> QED
    BY <1>2, <1>3, <1>6, <2>2, <2>4, <2>5, <2>6 DEF Carried, target
<1> QED
  BY <1>5, <1>6

\* Page lists are those of the notebook they are kept with.
ListsKept ==
  /\ \A n \in Volume : list[n] \in Lists[n] \cup {Runs!Deleted, Runs!Unreadable}
  /\ \A r \in Run, n \in Volume : entry[r][n].pages \in Lists[n] \cup {<<>>}
  /\ \A w \in Stepper : step[w] # Runs!Idle =>
       step[w].read \in Lists[step[w].notebook] \cup {Runs!NotRead, Runs!Deleted, Runs!Unreadable}

\* A run has passed pages of the reviewed list only, and none before it was approved.
CursorRight ==
  \A r \in Run, n \in Volume :
    /\ entry[r][n].cursor <= Len(entry[r][n].pages)
    /\ run[r].state \in {"absent", "preparing", "review"} =>
         entry[r][n].cursor = 0 /\ entry[r][n].queued = 0 /\ entry[r][n].skipped = 0

\* Who holds a run's lease remembers the notebook's row as it is, and the run is in the
\* state it was claimed in.
StepHeld ==
  \A w \in Stepper : step[w] # Runs!Idle /\ run[step[w].run].token = w =>
    /\ run[step[w].run].state = step[w].phase
    /\ step[w].was = entry[step[w].run][step[w].notebook]
    /\ step[w].was.state = IF step[w].phase = "queued" THEN "ready" ELSE "pending"

\* A notebook's counts are of the pages sent of it.
EntriesCounted ==
  \A r \in Run, n \in Volume :
    /\ entry[r][n].queued = Cardinality(Runs!SentOf(r, n))
    /\ entry[r][n].cursor = entry[r][n].queued + entry[r][n].skipped

\* A page has a job in the run's batch for each time it was sent.
JobsCounted ==
  \A r \in Run, p \in Runs!AnyPage : Cardinality(Batched(jobs[p], r)) = handed[r][p]

\* What waits in a stopped run was set going by itself.
StoppedQuiet ==
  \A r \in Run : run[r].state \in {"paused", "cancelled"} =>
    \A p \in Runs!AnyPage : Waits(jobs[p], r) => <<p, Len(jobs[p])>> \in resumed

RecognitionInv ==
  /\ Runs!TypeOK /\ ListsKept /\ CursorRight /\ StepHeld
  /\ Runs!SentOnce /\ EntriesCounted /\ JobsCounted /\ StoppedQuiet

\* The pages' jobs move, and none starts to wait in a run's batch but by itself.
LEMMA JobsMove ==
  ASSUME RecognitionInv,
         jobs' \in [Runs!AnyPage -> Seq(Runs!Job)],
         \A p \in Runs!AnyPage : Carried(jobs[p], jobs'[p]) /\ Len(jobs'[p]) <= MaxJobs,
         \A p \in Runs!AnyPage : \A r \in Run : Waits(jobs'[p], r) =>
           \/ Waits(jobs[p], r) /\ Len(jobs'[p]) = Len(jobs[p])
           \/ <<p, Len(jobs'[p])>> \in resumed',
         resumed \subseteq resumed', resumed' \subseteq Runs!AnyPage \X (1..MaxJobs),
         list' \in [Volume -> Runs!AnyList \cup {Runs!Deleted, Runs!Unreadable}],
         \A n \in Volume : list'[n] \in Lists[n] \cup {Runs!Deleted, Runs!Unreadable},
         barred' \in [Volume -> {"no", "skip", "large"}],
         touches' \in 0..MaxTouches,
         UNCHANGED <<run, entry, step, handed>>
  PROVE  RecognitionInv'
<1> USE DEF RecognitionInv
<1>1. Runs!TypeOK'
  BY DEF Runs!TypeOK
<1>2. ListsKept' /\ CursorRight' /\ StepHeld'
  BY DEF ListsKept, CursorRight, StepHeld
<1>3. Runs!SentOnce'
  BY DEF Runs!SentOnce, Runs!SentOf
<1>4. EntriesCounted'
  BY DEF EntriesCounted, Runs!SentOf
<1>5. JobsCounted'
  BY DEF JobsCounted, Carried
<1>6. StoppedQuiet'
  BY DEF StoppedQuiet
<1> QED
  BY <1>1, <1>2, <1>3, <1>4, <1>5, <1>6

\* What the invariant says of one page's jobs.
LEMMA PageJobs ==
  ASSUME RecognitionInv, NEW p \in Runs!AnyPage
  PROVE  /\ jobs[p] \in Seq(Runs!Job) /\ Len(jobs[p]) <= MaxJobs /\ Len(jobs[p]) \in Nat
         /\ Carried(jobs[p], jobs[p])
<1>1. jobs[p] \in Seq(Runs!Job) /\ Len(jobs[p]) <= MaxJobs
  BY DEF RecognitionInv, Runs!TypeOK
<1> QED
  BY <1>1 DEF Carried

\* The recognition worker ends a page's job.
LEMMA RunsRecognized ==
  ASSUME Runs!RunsAssumption, RecognitionInv, NEW p \in Runs!AnyPage, Runs!Recognize(p)
  PROVE  RecognitionInv'
<1>1. /\ Runs!StateOf(p) = "queued"
      /\ UNCHANGED <<list, barred, run, entry, step, handed, resumed, touches>>
  BY DEF Runs!Recognize
<1>2. PICK state \in {"ready", "failed"} : jobs' = [jobs EXCEPT ![p] = Runs!Put(@, state)]
  BY DEF Runs!Recognize
<1> DEFINE new == Runs!Put(jobs[p], state)
<1>3. jobs[p] # <<>>
  BY <1>1 DEF Runs!StateOf
<1>4. /\ Carried(jobs[p], new) /\ Len(new) = Len(jobs[p])
      /\ \A r \in Run : Waits(new, r) => Waits(jobs[p], r)
  <2>1. state \in Runs!JobState /\ state # "queued"
    BY DEF Runs!JobState, Runs!Settled
  <2> QED
    BY <1>3, <2>1, PageJobs, PutMoves
<1>5. jobs' = [jobs EXCEPT ![p] = new]
  BY <1>2
<1> HIDE DEF new
<1>6. \A x \in Runs!AnyPage : jobs'[x] = IF x = p THEN new ELSE jobs[x]
  BY <1>5 DEF RecognitionInv, Runs!TypeOK
<1>7. /\ jobs' \in [Runs!AnyPage -> Seq(Runs!Job)]
      /\ \A x \in Runs!AnyPage : Carried(jobs[x], jobs'[x]) /\ Len(jobs'[x]) = Len(jobs[x])
      /\ \A x \in Runs!AnyPage : \A r \in Run : Waits(jobs'[x], r) => Waits(jobs[x], r)
  <2>1. \A x \in Runs!AnyPage : Carried(jobs[x], jobs'[x])
    BY <1>4, <1>6, PageJobs
  <2>2. new \in Seq(Runs!Job)
    BY <1>4 DEF Carried
  <2> QED
    BY <1>4, <1>5, <1>6, <2>1, <2>2 DEF RecognitionInv, Runs!TypeOK
<1>8. \A x \in Runs!AnyPage : Len(jobs'[x]) <= MaxJobs
  BY <1>7, PageJobs
<1> QED
  BY <1>1, <1>7, <1>8, JobsMove DEF RecognitionInv, Runs!TypeOK, ListsKept

\* Pages are asked for outside any run.
LEMMA RunsPageQueued ==
  ASSUME Runs!RunsAssumption, RecognitionInv, NEW p \in Runs!AnyPage, Runs!QueuePage(p)
  PROVE  RecognitionInv'
<1>1. /\ Runs!Requestable(p) /\ Runs!Room({p}) /\ touches < MaxTouches /\ touches' = touches + 1
      /\ jobs' = [jobs EXCEPT ![p] = Runs!Request(p, Runs!NoBatch)]
      /\ UNCHANGED <<list, barred, run, entry, step, handed, resumed>>
  BY DEF Runs!QueuePage
<1> DEFINE new == Runs!Request(p, Runs!NoBatch)
<1>2. /\ new \in Seq(Runs!Job) /\ Len(new) = Len(jobs[p]) + 1 /\ LastJob(new).batch = Runs!NoBatch
      /\ \A r \in Run : Batched(new, r)
           = IF r = Runs!NoBatch THEN Batched(jobs[p], r) \cup {Len(jobs[p]) + 1}
             ELSE Batched(jobs[p], r)
  BY <1>1, PageJobs, RequestIs
<1>3. \A r \in Run : r # Runs!NoBatch
  BY DEF Runs!RunsAssumption, Runs!NoBatch
<1>4. jobs' = [jobs EXCEPT ![p] = new] /\ Len(jobs[p]) < MaxJobs
  BY <1>1 DEF Runs!Room
<1> HIDE DEF new
<1>5. Carried(jobs[p], new) /\ \A r \in Run : ~Waits(new, r)
  BY <1>2, <1>3 DEF Carried, Waits
<1>6. \A x \in Runs!AnyPage : jobs'[x] = IF x = p THEN new ELSE jobs[x]
  BY <1>4 DEF RecognitionInv, Runs!TypeOK
<1>7. /\ jobs' \in [Runs!AnyPage -> Seq(Runs!Job)]
      /\ \A x \in Runs!AnyPage : \A r \in Run : Waits(jobs'[x], r) =>
           Waits(jobs[x], r) /\ Len(jobs'[x]) = Len(jobs[x])
  BY <1>2, <1>4, <1>5, <1>6 DEF RecognitionInv, Runs!TypeOK
<1>8. \A x \in Runs!AnyPage : Carried(jobs[x], jobs'[x])
  BY <1>5, <1>6, PageJobs
<1>9. \A x \in Runs!AnyPage : Len(jobs'[x]) <= MaxJobs
  <2>1. MaxJobs \in Nat
    BY DEF Runs!RunsAssumption
  <2> QED
    BY <1>2, <1>4, <1>6, <2>1, PageJobs
<1>10. touches' \in 0..MaxTouches
  BY <1>1 DEF RecognitionInv, Runs!TypeOK, Runs!RunsAssumption
<1> QED
  BY <1>1, <1>7, <1>8, <1>9, <1>10, JobsMove DEF RecognitionInv, Runs!TypeOK, ListsKept

\* Rows that somebody asked for are set to a state; none that is paused is queued.
LEMMA PagesPut ==
  ASSUME Runs!RunsAssumption, RecognitionInv, DOMAIN jobs' = Runs!AnyPage,
         jobs' = [p \in Runs!AnyPage |-> jobs'[p]],
         \A p \in Runs!AnyPage :
           \/ jobs'[p] = jobs[p]
           \/ \E s \in Runs!JobState :
                /\ jobs[p] # <<>> /\ jobs'[p] = Runs!Put(jobs[p], s)
                /\ s = "queued" => LastJob(jobs[p]).state # "paused" /\ Len(jobs'[p]) <= MaxJobs
  PROVE  /\ jobs' \in [Runs!AnyPage -> Seq(Runs!Job)]
         /\ \A p \in Runs!AnyPage : Carried(jobs[p], jobs'[p]) /\ Len(jobs'[p]) <= MaxJobs
         /\ \A p \in Runs!AnyPage : \A r \in Run : Waits(jobs'[p], r) =>
              Waits(jobs[p], r) /\ Len(jobs'[p]) = Len(jobs[p])
<1>1. ASSUME NEW p \in Runs!AnyPage
      PROVE  /\ jobs'[p] \in Seq(Runs!Job) /\ Carried(jobs[p], jobs'[p]) /\ Len(jobs'[p]) <= MaxJobs
             /\ \A r \in Run : Waits(jobs'[p], r) =>
                  Waits(jobs[p], r) /\ Len(jobs'[p]) = Len(jobs[p])
  <2>1. CASE jobs'[p] = jobs[p]
    BY <2>1, PageJobs
  <2>2. CASE jobs'[p] # jobs[p]
    <3>1. PICK s \in Runs!JobState :
            /\ jobs[p] # <<>> /\ jobs'[p] = Runs!Put(jobs[p], s)
            /\ s = "queued" => LastJob(jobs[p]).state # "paused" /\ Len(jobs'[p]) <= MaxJobs
      BY <2>2
    <3>2. jobs[p] \in Seq(Runs!Job) /\ Len(jobs[p]) <= MaxJobs
      BY PageJobs
    <3> DEFINE new == Runs!Put(jobs[p], s)
    <3>3. /\ Carried(jobs[p], new) /\ (s # "queued" => Len(new) = Len(jobs[p]))
          /\ \A r \in Run : Waits(new, r) => Waits(jobs[p], r) /\ Len(new) = Len(jobs[p])
      BY <3>1, <3>2, PutMoves
    <3>4. jobs'[p] = new
      BY <3>1
    <3> HIDE DEF new
    <3>5. Len(new) <= MaxJobs
      BY <3>1, <3>2, <3>3, <3>4
    <3> QED
      BY <3>3, <3>4, <3>5 DEF Carried
  <2> QED
    BY <2>1, <2>2
<1> QED
  BY <1>1

\* A notebook is skipped, exceeds the limit, or neither any more.
LEMMA RunsBarred ==
  ASSUME Runs!RunsAssumption, RecognitionInv, NEW n \in Volume, NEW how \in {"no", "skip", "large"},
         Runs!Bar(n, how)
  PROVE  RecognitionInv'
<1>1. /\ touches < MaxTouches /\ touches' = touches + 1 /\ barred' = [barred EXCEPT ![n] = how]
      /\ UNCHANGED <<list, run, entry, step, handed, resumed>>
  BY DEF Runs!Bar
<1> DEFINE new(p) ==
       IF p \notin Runs!PagesOf(n) \/ jobs[p] = <<>> THEN jobs[p]
       ELSE CASE how = "skip" /\ Runs!StateOf(p) \notin {"ready", "skipped"} -> Runs!Put(jobs[p], "passed")
              [] how = "large" /\ Runs!StateOf(p) = "queued" -> Runs!Put(jobs[p], "cancelled")
              [] how = "no" /\ Runs!StateOf(p) = "passed" -> Runs!Put(jobs[p], "cancelled")
              [] OTHER -> jobs[p]
<1>2. jobs' = [p \in Runs!AnyPage |-> new(p)]
  BY DEF Runs!Bar
<1>3. ASSUME NEW p \in Runs!AnyPage
      PROVE  \/ jobs'[p] = jobs[p]
             \/ \E s \in Runs!JobState : jobs[p] # <<>> /\ jobs'[p] = Runs!Put(jobs[p], s) /\ s # "queued"
  <2>1. jobs'[p] = new(p)
    BY <1>2
  <2>2. \/ new(p) = jobs[p]
        \/ jobs[p] # <<>> /\ new(p) = Runs!Put(jobs[p], "passed")
        \/ jobs[p] # <<>> /\ new(p) = Runs!Put(jobs[p], "cancelled")
    OBVIOUS
  <2>3. "passed" \in Runs!JobState /\ "cancelled" \in Runs!JobState
    BY DEF Runs!JobState, Runs!Settled
  <2> HIDE DEF new
  <2> QED
    BY <2>1, <2>2, <2>3
<1> HIDE DEF new
<1>4. DOMAIN jobs' = Runs!AnyPage /\ jobs' = [p \in Runs!AnyPage |-> jobs'[p]]
  BY <1>2
<1>5. /\ jobs' \in [Runs!AnyPage -> Seq(Runs!Job)]
      /\ \A p \in Runs!AnyPage : Carried(jobs[p], jobs'[p]) /\ Len(jobs'[p]) <= MaxJobs
      /\ \A p \in Runs!AnyPage : \A r \in Run : Waits(jobs'[p], r) =>
           Waits(jobs[p], r) /\ Len(jobs'[p]) = Len(jobs[p])
  BY <1>3, <1>4, PagesPut
<1>6. touches' \in 0..MaxTouches /\ barred' \in [Volume -> {"no", "skip", "large"}]
  BY <1>1 DEF RecognitionInv, Runs!TypeOK, Runs!RunsAssumption
<1> QED
  BY <1>1, <1>5, <1>6, JobsMove DEF RecognitionInv, Runs!TypeOK, ListsKept

\* The tablet changes a notebook's page list.
LEMMA RunsNotebookEdited ==
  ASSUME Runs!RunsAssumption, RecognitionInv, NEW n \in Volume, Runs!EditNotebook(n)
  PROVE  RecognitionInv'
<1>1. PICK new \in (Lists[n] \cup {Runs!Deleted, Runs!Unreadable}) \ {list[n]} :
        /\ touches < MaxTouches /\ touches' = touches + 1 /\ list' = [list EXCEPT ![n] = new]
        /\ jobs' = [p \in Runs!AnyPage |->
                      IF p \in Runs!PagesOf(n) THEN Runs!Invalidated(n, new, p) ELSE jobs[p]]
        /\ \A p \in Runs!AnyPage : Len(jobs'[p]) <= MaxJobs
        /\ UNCHANGED <<barred, run, entry, step, handed, resumed>>
  BY DEF Runs!EditNotebook
<1>2. ASSUME NEW p \in Runs!AnyPage
      PROVE  \/ jobs'[p] = jobs[p]
             \/ \E s \in Runs!JobState :
                  /\ jobs[p] # <<>> /\ jobs'[p] = Runs!Put(jobs[p], s)
                  /\ s = "queued" => LastJob(jobs[p]).state # "paused" /\ Len(jobs'[p]) <= MaxJobs
  <2>1. jobs'[p] = Runs!Invalidated(n, new, p) \/ jobs'[p] = jobs[p]
    BY <1>1
  <2>2. \/ Runs!Invalidated(n, new, p) = jobs[p]
        \/ /\ Runs!StateOf(p) \notin {"none", "paused"}
           /\ \E s \in {"retired", "passed", "cancelled", "queued"} :
                Runs!Invalidated(n, new, p) = Runs!Put(jobs[p], s)
    <3>1. CASE Runs!StateOf(p) \in {"none", "paused", "cancelled", "skipped", "passed"}
      BY <3>1 DEF Runs!Invalidated
    <3>2. CASE Runs!StateOf(p) \notin {"none", "paused", "cancelled", "skipped", "passed"}
      <4>1. \/ Runs!Invalidated(n, new, p) = jobs[p]
            \/ Runs!Invalidated(n, new, p) = Runs!Put(jobs[p], "retired")
            \/ Runs!Invalidated(n, new, p) = Runs!Put(jobs[p], "passed")
            \/ Runs!Invalidated(n, new, p) = Runs!Put(jobs[p], "cancelled")
            \/ Runs!Invalidated(n, new, p) = Runs!Put(jobs[p], "queued")
        <5>1. barred[n] \in {"no", "skip", "large"}
          BY DEF RecognitionInv, Runs!TypeOK
        <5> QED
          BY <3>2, <5>1 DEF Runs!Invalidated
      <4> QED
        BY <3>2, <4>1
    <3> QED
      BY <3>1, <3>2
  <2>3. CASE jobs'[p] # jobs[p]
    <3>1. PICK s \in {"retired", "passed", "cancelled", "queued"} :
            jobs'[p] = Runs!Put(jobs[p], s) /\ Runs!StateOf(p) \notin {"none", "paused"}
      BY <2>1, <2>2, <2>3
    <3>2. jobs[p] # <<>> /\ LastJob(jobs[p]).state # "paused"
      BY <3>1 DEF Runs!StateOf, LastJob
    <3>3. s \in Runs!JobState /\ Len(jobs'[p]) <= MaxJobs
      BY <1>1 DEF Runs!JobState, Runs!Settled
    <3> QED
      BY <3>1, <3>2, <3>3
  <2> QED
    BY <2>3
<1>3. DOMAIN jobs' = Runs!AnyPage /\ jobs' = [p \in Runs!AnyPage |-> jobs'[p]]
  BY <1>1
<1>4. /\ jobs' \in [Runs!AnyPage -> Seq(Runs!Job)]
      /\ \A p \in Runs!AnyPage : Carried(jobs[p], jobs'[p]) /\ Len(jobs'[p]) <= MaxJobs
      /\ \A p \in Runs!AnyPage : \A r \in Run : Waits(jobs'[p], r) =>
           Waits(jobs[p], r) /\ Len(jobs'[p]) = Len(jobs[p])
  BY <1>2, <1>3, PagesPut
<1>5. touches' \in 0..MaxTouches
  BY <1>1 DEF RecognitionInv, Runs!TypeOK, Runs!RunsAssumption
<1>6. /\ list' \in [Volume -> Runs!AnyList \cup {Runs!Deleted, Runs!Unreadable}]
      /\ \A m \in Volume : list'[m] \in Lists[m] \cup {Runs!Deleted, Runs!Unreadable}
  <2>1. new \in Runs!AnyList \cup {Runs!Deleted, Runs!Unreadable}
    BY DEF Runs!AnyList
  <2> QED
    BY <1>1, <2>1 DEF RecognitionInv, Runs!TypeOK, ListsKept
<1> QED
  BY <1>1, <1>4, <1>5, <1>6, JobsMove DEF RecognitionInv, Runs!TypeOK

\* The owner acts on single jobs, or on those of a notebook in one batch.
LEMMA RunsJobsControlled ==
  ASSUME Runs!RunsAssumption, RecognitionInv, NEW n \in Volume, NEW order \in Controls,
         NEW S \in SUBSET Runs!PagesOf(n), Runs!ControlJobs(n, S, order)
  PROVE  RecognitionInv'
<1> DEFINE T == {p \in S : Runs!Controlled(p, order)}
           new(p) == Runs!Control(p, order)
<1>1. /\ touches < MaxTouches /\ touches' = touches + 1
      /\ Runs!Target(order) = "queued" => Runs!Room(T)
      /\ jobs' = [p \in Runs!AnyPage |-> IF p \in T THEN new(p) ELSE jobs[p]]
      /\ UNCHANGED <<list, barred, run, entry, step, handed>>
  BY DEF Runs!ControlJobs
<1>2. resumed' = IF Runs!Target(order) = "queued"
                 THEN resumed \cup {<<p, Len(jobs'[p])>> : p \in T} ELSE resumed
  BY DEF Runs!ControlJobs
<1>3. T \subseteq Runs!AnyPage /\ \A p \in T : Runs!StateOf(p) \in Runs!Allowed(order)
  BY DEF Runs!AnyPage, Runs!Controlled
<1>4. MaxJobs \in Nat
  BY DEF Runs!RunsAssumption
<1>5. ASSUME NEW p \in T
      PROVE  /\ Carried(jobs[p], new(p)) /\ new(p) # <<>> /\ Len(new(p)) <= MaxJobs
             /\ LastJob(new(p)).state = Runs!Target(order)
  <2>1. /\ jobs[p] \in Seq(Runs!Job) /\ Len(jobs[p]) <= MaxJobs /\ Len(jobs[p]) \in Nat
        /\ Runs!StateOf(p) \in Runs!Allowed(order)
    BY <1>3, PageJobs
  <2>2. /\ Carried(jobs[p], new(p)) /\ new(p) # <<>>
        /\ LastJob(new(p)).state = Runs!Target(order)
        /\ Len(new(p)) <= Len(jobs[p]) + 1
        /\ Runs!Target(order) # "queued" => Len(new(p)) = Len(jobs[p])
    BY <2>1, ControlIs
  <2>3. Len(new(p)) \in Nat
    BY <2>2 DEF Carried
  <2>4. Runs!Target(order) = "queued" => Len(jobs[p]) < MaxJobs
    BY <1>1 DEF Runs!Room
  <2> HIDE DEF new
  <2> QED
    BY <1>4, <2>1, <2>2, <2>3, <2>4
<1> HIDE DEF T, new
<1>6. \A p \in Runs!AnyPage : jobs'[p] = IF p \in T THEN new(p) ELSE jobs[p]
  BY <1>1
<1>7. /\ jobs' \in [Runs!AnyPage -> Seq(Runs!Job)]
      /\ \A p \in Runs!AnyPage : Carried(jobs[p], jobs'[p]) /\ Len(jobs'[p]) <= MaxJobs
  <2>1. \A p \in Runs!AnyPage : Carried(jobs[p], jobs'[p]) /\ Len(jobs'[p]) <= MaxJobs
    BY <1>5, <1>6, PageJobs
  <2> QED
    BY <1>1, <2>1 DEF Carried
<1>8. \A p \in T : Len(jobs'[p]) \in 1..MaxJobs
  <2>1. TAKE p \in T
  <2>2. jobs'[p] = new(p) /\ new(p) \in Seq(Runs!Job) /\ new(p) # <<>> /\ Len(new(p)) <= MaxJobs
    BY <1>3, <1>5, <1>6 DEF Carried
  <2>3. Len(new(p)) \in 1..Len(new(p)) /\ Len(new(p)) \in Nat
    BY <2>2, JobsAre
  <2> QED
    BY <1>4, <2>2, <2>3
<1>9. resumed \subseteq resumed' /\ resumed' \subseteq Runs!AnyPage \X (1..MaxJobs)
  <2>1. resumed \subseteq Runs!AnyPage \X (1..MaxJobs)
    BY DEF RecognitionInv, Runs!TypeOK
  <2> QED
    BY <1>2, <1>3, <1>8, <2>1
<1>10. \A p \in Runs!AnyPage : \A r \in Run : Waits(jobs'[p], r) =>
         \/ Waits(jobs[p], r) /\ Len(jobs'[p]) = Len(jobs[p])
         \/ <<p, Len(jobs'[p])>> \in resumed'
  <2>1. TAKE p \in Runs!AnyPage
  <2>2. TAKE r \in Run
  <2>3. CASE p \notin T
    BY <1>6, <2>3
  <2>4. CASE p \in T
    <3>1. jobs'[p] = new(p) /\ LastJob(new(p)).state = Runs!Target(order)
      BY <1>5, <1>6, <2>4
    <3>2. Runs!Target(order) = "queued" => <<p, Len(jobs'[p])>> \in resumed'
      BY <1>2, <2>4
    <3> QED
      BY <3>1, <3>2 DEF Waits
  <2> QED
    BY <2>3, <2>4
<1>11. touches' \in 0..MaxTouches
  BY <1>1 DEF RecognitionInv, Runs!TypeOK, Runs!RunsAssumption
<1> QED
  BY <1>1, <1>7, <1>9, <1>10, <1>11, JobsMove DEF RecognitionInv, Runs!TypeOK, ListsKept

\* The owner pauses, resumes, cancels or retries a run: its jobs, then the run itself.
LEMMA RunsControlled ==
  ASSUME Runs!RunsAssumption, RecognitionInv, NEW r \in Run,
         NEW order \in {"pause", "resume", "cancel", "retry"}, Runs!ControlRun(r, order)
  PROVE  RecognitionInv'
<1> DEFINE S == {p \in Runs!AnyPage : Runs!InBatch(p, r) /\ Runs!Controlled(p, order)}
           new(p) == Runs!Control(p, order)
           st == CASE order = "pause" -> "paused" [] order = "cancel" -> "cancelled"
                   [] OTHER -> "queued"
           row == [state |-> st, token |-> NoStepper, leased |-> FALSE]
<1>1. /\ CASE order = "pause"  -> run[r].state = "queued"
           [] order = "resume" -> run[r].state = "paused"
           [] order = "cancel" -> run[r].state \notin {"absent", "cancelled"}
           [] order = "retry"  -> run[r].state = "queued" /\ Runs!Room(S)
      /\ jobs' = [p \in Runs!AnyPage |-> IF p \in S THEN new(p) ELSE jobs[p]]
      /\ run' = [run EXCEPT ![r] = row]
      /\ resumed' = {j \in resumed : ~Runs!InBatch(j[1], r)}
      /\ UNCHANGED <<list, barred, entry, step, handed, touches>>
  BY DEF Runs!ControlRun
<1>2. st \in {"paused", "cancelled", "queued"} /\ (st # "queued" <=> order \in {"pause", "cancel"})
  OBVIOUS
<1>3. order = "retry" => Runs!Room(S)
  BY <1>1
<1>4. order \in Controls
  BY DEF Controls
<1>5. \A p \in S : /\ p \in Runs!AnyPage /\ Runs!InBatch(p, r)
                   /\ Runs!StateOf(p) \in Runs!Allowed(order)
  BY DEF Runs!Controlled
<1>6. MaxJobs \in Nat
  BY DEF Runs!RunsAssumption
<1>7. ASSUME NEW p \in S
      PROVE  /\ Carried(jobs[p], new(p)) /\ new(p) # <<>> /\ Len(new(p)) <= MaxJobs
             /\ LastJob(new(p)).state = Runs!Target(order) /\ LastJob(new(p)).batch = r
  <2>1. /\ jobs[p] \in Seq(Runs!Job) /\ Len(jobs[p]) <= MaxJobs /\ Len(jobs[p]) \in Nat
        /\ Runs!StateOf(p) \in Runs!Allowed(order)
    BY <1>5, PageJobs
  <2>2. /\ Carried(jobs[p], new(p)) /\ new(p) # <<>>
        /\ LastJob(new(p)).state = Runs!Target(order)
        /\ LastJob(new(p)).batch = LastJob(jobs[p]).batch
        /\ Len(new(p)) <= Len(jobs[p]) + 1
        /\ Runs!Target(order) # "queued" \/ Runs!StateOf(p) \notin Runs!Settled
             => Len(new(p)) = Len(jobs[p])
    BY <1>4, <2>1, ControlIs
  <2>3. Len(new(p)) \in Nat
    BY <2>2 DEF Carried
  <2>4. order = "retry" => Len(jobs[p]) < MaxJobs
    BY <1>3 DEF Runs!Room
  <2>5. order # "retry" => Runs!Target(order) # "queued" \/ Runs!StateOf(p) \notin Runs!Settled
    BY <2>1 DEF Runs!Target, Runs!Allowed, Runs!Settled
  <2>6. LastJob(jobs[p]).batch = r
    BY <1>5 DEF Runs!InBatch, LastJob
  <2> HIDE DEF new
  <2> QED
    BY <1>6, <2>1, <2>2, <2>3, <2>4, <2>5, <2>6
<1>8. \A p \in Runs!AnyPage \ S : Runs!InBatch(p, r) /\ st # "queued" => Runs!StateOf(p) # "queued"
  <2>1. SUFFICES ASSUME NEW p \in Runs!AnyPage, Runs!InBatch(p, r), st # "queued",
                        Runs!StateOf(p) = "queued"
                 PROVE  p \in S
    OBVIOUS
  <2>2. order \in {"pause", "cancel"}
    BY <1>2, <2>1
  <2>3. Runs!Controlled(p, order)
    BY <2>1, <2>2 DEF Runs!Controlled, Runs!Allowed, Runs!Target
  <2> QED
    BY <2>1, <2>3
<1> HIDE DEF S, new, st
<1>9. \A p \in Runs!AnyPage : jobs'[p] = IF p \in S THEN new(p) ELSE jobs[p]
  BY <1>1
<1>10. /\ jobs' \in [Runs!AnyPage -> Seq(Runs!Job)]
       /\ \A p \in Runs!AnyPage : Carried(jobs[p], jobs'[p]) /\ Len(jobs'[p]) <= MaxJobs
  <2>1. \A p \in Runs!AnyPage : Carried(jobs[p], jobs'[p]) /\ Len(jobs'[p]) <= MaxJobs
    BY <1>7, <1>9, PageJobs
  <2> QED
    BY <1>1, <2>1 DEF Carried
<1>11. run' \in [Run -> Runs!RunState] /\ run'[r] = row /\ \A q \in Run \ {r} : run'[q] = run[q]
  <2>1. row \in Runs!RunState
    BY <1>2 DEF Runs!RunState
  <2> HIDE DEF row
  <2> QED
    BY <1>1, <2>1 DEF RecognitionInv, Runs!TypeOK
<1>12. row.state = st /\ row.token = NoStepper
  OBVIOUS
<1> HIDE DEF row
<1>13. Runs!TypeOK'
  <2>1. resumed' \subseteq Runs!AnyPage \X (1..MaxJobs)
    BY <1>1 DEF RecognitionInv, Runs!TypeOK
  <2> QED
    BY <1>1, <1>10, <1>11, <2>1 DEF RecognitionInv, Runs!TypeOK
<1>14. ListsKept' /\ CursorRight'
  <2>1. ListsKept'
    BY <1>1 DEF RecognitionInv, ListsKept
  <2>2. CursorRight'
    BY <1>1, <1>2, <1>11, <1>12 DEF RecognitionInv, CursorRight
  <2> QED
    BY <2>1, <2>2
<1>15. StepHeld'
  <2>1. SUFFICES ASSUME NEW w \in Stepper, step[w] # Runs!Idle, run'[step[w].run].token = w
                 PROVE  run'[step[w].run] = run[step[w].run]
    BY <1>1 DEF RecognitionInv, StepHeld
  <2>2. step[w].run \in Run
    BY <2>1 DEF RecognitionInv, Runs!TypeOK, Runs!Stepping
  <2>3. w # NoStepper
    BY DEF Runs!RunsAssumption
  <2> QED
    BY <1>11, <1>12, <2>1, <2>2, <2>3
<1>16. Runs!SentOnce' /\ EntriesCounted'
  <2>1. entry' = entry /\ handed' = handed
    BY <1>1
  <2>2. Runs!SentOnce'
    BY <2>1 DEF RecognitionInv, Runs!SentOnce, Runs!SentOf
  <2>3. EntriesCounted'
    <3>1. \A q \in Run, n \in Volume : Runs!SentOf(q, n)' = Runs!SentOf(q, n)
      BY <2>1 DEF Runs!SentOf
    <3> QED
      BY <2>1, <3>1 DEF RecognitionInv, EntriesCounted
  <2> QED
    BY <2>2, <2>3
<1>17. JobsCounted'
  BY <1>1, <1>10 DEF RecognitionInv, JobsCounted, Carried
<1>18. StoppedQuiet'
  <2>1. SUFFICES ASSUME NEW q \in Run, run'[q].state \in {"paused", "cancelled"},
                        NEW p \in Runs!AnyPage, Waits(jobs'[p], q)
                 PROVE  <<p, Len(jobs'[p])>> \in resumed'
    BY DEF StoppedQuiet
  <2>2. CASE q = r
    <3>1. st # "queued" /\ Runs!Target(order) # "queued"
      BY <1>2, <1>11, <1>12, <2>1, <2>2 DEF Runs!Target
    <3>2. p \notin S
      BY <1>7, <1>9, <2>1, <3>1 DEF Waits
    <3>3. Runs!InBatch(p, r) /\ Runs!StateOf(p) = "queued"
      BY <1>9, <2>1, <2>2, <3>2 DEF Waits, Runs!InBatch, Runs!StateOf, LastJob
    <3> QED
      BY <1>8, <3>1, <3>2, <3>3
  <2>3. CASE q # r
    <3>1. p \notin S
      BY <1>7, <1>9, <2>1, <2>3 DEF Waits
    <3>2. jobs'[p] = jobs[p] /\ run'[q] = run[q]
      BY <1>9, <1>11, <2>3, <3>1
    <3>3. <<p, Len(jobs[p])>> \in resumed
      BY <2>1, <3>2 DEF RecognitionInv, StoppedQuiet
    <3>4. ~Runs!InBatch(p, r)
      BY <2>1, <2>3, <3>2 DEF Waits, Runs!InBatch, LastJob
    <3> QED
      BY <1>1, <3>2, <3>3, <3>4
  <2> QED
    BY <2>2, <2>3
<1> QED
  BY <1>13, <1>14, <1>15, <1>16, <1>17, <1>18 DEF RecognitionInv

\* A page list of a notebook is a sequence of its pages.
LEMMA ReadIs ==
  ASSUME Runs!RunsAssumption, NEW n \in Volume, NEW l \in Lists[n]
  PROVE  /\ l \in Seq(Runs!PagesOf(n)) /\ Runs!IsInjective(l)
         /\ l \notin {Runs!Deleted, Runs!Unreadable, Runs!NotRead} /\ l \in Runs!AnyList
<1>1. /\ l \in Seq(Runs!PagesOf(n)) /\ Runs!IsInjective(l)
      /\ l \notin {Runs!Deleted, Runs!Unreadable, Runs!NotRead}
  BY DEF Runs!RunsAssumption
<1>2. l \in Runs!AnyList
  BY DEF Runs!AnyList
<1> QED
  BY <1>1, <1>2

\* Runs and their notebooks' rows move, and no page is sent: rows keep their counts, and
\* their lists where something was sent of them.
LEMMA EntriesMove ==
  ASSUME Runs!RunsAssumption, RecognitionInv,
         UNCHANGED <<list, barred, jobs, handed, resumed, touches>>,
         run' \in [Run -> Runs!RunState], entry' \in [Run -> [Volume -> Runs!Entry]],
         step' \in [Stepper -> {Runs!Idle} \cup Runs!Stepping],
         \A w \in Stepper : step'[w] # Runs!Idle =>
           step'[w].read \in Lists[step'[w].notebook]
                               \cup {Runs!NotRead, Runs!Deleted, Runs!Unreadable},
         \A r \in Run, n \in Volume :
           /\ entry'[r][n].pages \in Lists[n] \cup {<<>>}
           /\ entry'[r][n].cursor = entry[r][n].cursor
           /\ entry'[r][n].queued = entry[r][n].queued
           /\ entry'[r][n].skipped = entry[r][n].skipped
           /\ entry[r][n].cursor # 0 => entry'[r][n].pages = entry[r][n].pages,
         \A r \in Run :
           /\ run'[r].state \in {"absent", "preparing", "review"} =>
                run[r].state \in {"absent", "preparing", "review"}
           /\ run'[r].state \in {"paused", "cancelled"} => run[r].state = run'[r].state,
         StepHeld'
  PROVE  RecognitionInv'
<1>1. Runs!TypeOK'
  BY DEF RecognitionInv, Runs!TypeOK
<1>2. ListsKept'
  BY DEF RecognitionInv, ListsKept
<1>3. CursorRight'
  <2>1. SUFFICES ASSUME NEW r \in Run, NEW n \in Volume
                 PROVE  /\ entry'[r][n].cursor <= Len(entry'[r][n].pages)
                        /\ run'[r].state \in {"absent", "preparing", "review"} =>
                             /\ entry'[r][n].cursor = 0 /\ entry'[r][n].queued = 0
                             /\ entry'[r][n].skipped = 0
    BY DEF CursorRight
  <2>2. /\ entry[r][n].cursor \in Nat /\ entry[r][n].cursor <= Len(entry[r][n].pages)
        /\ run[r].state \in {"absent", "preparing", "review"} =>
             entry[r][n].cursor = 0 /\ entry[r][n].queued = 0 /\ entry[r][n].skipped = 0
    BY DEF RecognitionInv, CursorRight, Runs!TypeOK, Runs!Entry
  <2>3. Len(entry'[r][n].pages) \in Nat
    <3>1. CASE entry'[r][n].pages = <<>>
      <4>1. Len(<<>>) = 0
        OBVIOUS
      <4> QED
        BY <3>1, <4>1
    <3>2. CASE entry'[r][n].pages \in Lists[n]
      <4>1. entry'[r][n].pages \in Seq(Runs!PagesOf(n))
        BY <3>2, ReadIs
      <4> QED
        BY <4>1, LenProperties
    <3> QED
      BY <3>1, <3>2
  <2>4. entry'[r][n].cursor <= Len(entry'[r][n].pages)
    <3>1. entry'[r][n].cursor = entry[r][n].cursor
          /\ (entry[r][n].cursor # 0 => entry'[r][n].pages = entry[r][n].pages)
      OBVIOUS
    <3> QED
      BY <2>2, <2>3, <3>1
  <2> QED
    BY <2>2, <2>4
<1>4. Runs!SentOnce'
  <2>1. SUFFICES ASSUME NEW r \in Run, NEW n \in Volume, NEW p \in Runs!SentOf(r, n)'
                 PROVE  handed'[r][p] = 1
                        /\ \E i \in 1..entry'[r][n].cursor : entry'[r][n].pages[i] = p
    BY DEF Runs!SentOnce
  <2>2. p \in Runs!SentOf(r, n)
    BY <2>1 DEF Runs!SentOf
  <2>3. /\ handed[r][p] = 1
        /\ \E i \in 1..entry[r][n].cursor : entry[r][n].pages[i] = p
    BY <2>2 DEF RecognitionInv, Runs!SentOnce
  <2>4. entry[r][n].cursor # 0
    BY <2>3
  <2> QED
    BY <2>3, <2>4
<1>5. EntriesCounted'
  <2>1. handed' = handed
    OBVIOUS
  <2>2. \A r \in Run, n \in Volume : Runs!SentOf(r, n)' = Runs!SentOf(r, n)
    BY <2>1 DEF Runs!SentOf
  <2> QED
    BY <2>2 DEF RecognitionInv, EntriesCounted
<1>6. JobsCounted'
  BY DEF RecognitionInv, JobsCounted
<1>7. StoppedQuiet'
  BY DEF RecognitionInv, StoppedQuiet
<1> QED
  BY <1>1, <1>2, <1>3, <1>4, <1>5, <1>6, <1>7 DEF RecognitionInv

\* What the invariant says of one notebook's row in a run.
LEMMA EntryIs ==
  ASSUME Runs!RunsAssumption, RecognitionInv, NEW r \in Run, NEW n \in Volume
  PROVE  /\ entry[r][n] \in Runs!Entry /\ entry[r][n].pages \in Lists[n] \cup {<<>>}
         /\ run[r] \in Runs!RunState
         /\ run[r].state \in {"absent", "preparing", "review"} => entry[r][n].cursor = 0
<1>1. entry[r][n] \in Runs!Entry /\ run[r] \in Runs!RunState
  BY DEF RecognitionInv, Runs!TypeOK
<1>2. entry[r][n].pages \in Lists[n] \cup {<<>>}
  BY DEF RecognitionInv, ListsKept
<1>3. run[r].state \in {"absent", "preparing", "review"} => entry[r][n].cursor = 0
  BY DEF RecognitionInv, CursorRight
<1> QED
  BY <1>1, <1>2, <1>3

\* What the invariant says of a worker's step.
LEMMA SteppingIs ==
  ASSUME Runs!RunsAssumption, RecognitionInv, NEW w \in Stepper, step[w] # Runs!Idle
  PROVE  /\ step[w] \in Runs!Stepping /\ step[w].run \in Run /\ step[w].notebook \in Volume
         /\ step[w].phase \in {"preparing", "queued"} /\ step[w].was \in Runs!Entry
         /\ step[w].read \in Lists[step[w].notebook]
                               \cup {Runs!NotRead, Runs!Deleted, Runs!Unreadable}
<1>1. step[w] \in Runs!Stepping
  BY DEF RecognitionInv, Runs!TypeOK
<1> QED
  BY <1>1 DEF RecognitionInv, ListsKept, Runs!Stepping

\* A worker gives its step up; nothing else moves.
LEMMA StepDropped ==
  ASSUME Runs!RunsAssumption, RecognitionInv, NEW w \in Stepper,
         step' = [step EXCEPT ![w] = Runs!Idle],
         UNCHANGED <<list, barred, jobs, run, entry, handed, resumed, touches>>
  PROVE  RecognitionInv'
<1>1. /\ step' \in [Stepper -> {Runs!Idle} \cup Runs!Stepping]
      /\ step'[w] = Runs!Idle /\ \A v \in Stepper \ {w} : step'[v] = step[v]
  BY DEF RecognitionInv, Runs!TypeOK
<1>2. \A v \in Stepper : step'[v] # Runs!Idle =>
        step'[v].read \in Lists[step'[v].notebook]
                            \cup {Runs!NotRead, Runs!Deleted, Runs!Unreadable}
  BY <1>1 DEF RecognitionInv, ListsKept
<1>3. StepHeld'
  BY <1>1 DEF RecognitionInv, StepHeld
<1> QED
  BY <1>1, <1>2, <1>3, EntriesMove, EntryIs DEF RecognitionInv, Runs!TypeOK

\* The page list is read.
LEMMA RunsCatalogRead ==
  ASSUME Runs!RunsAssumption, RecognitionInv, NEW w \in Stepper, Runs!ReadCatalog(w)
  PROVE  RecognitionInv'
<1>1. /\ step[w] # Runs!Idle
      /\ UNCHANGED <<list, barred, jobs, run, entry, handed, resumed, touches>>
  BY DEF Runs!ReadCatalog
<1>2. PICK l \in {list[step[w].notebook], Runs!Unreadable} :
        step' = [step EXCEPT ![w].read = l]
  BY DEF Runs!ReadCatalog
<1> DEFINE s == [step[w] EXCEPT !.read = l]
<1>3. step[w] \in Runs!Stepping /\ step[w].notebook \in Volume
  BY <1>1, SteppingIs
<1>4. l \in Lists[step[w].notebook] \cup {Runs!Deleted, Runs!Unreadable}
  BY <1>3 DEF RecognitionInv, ListsKept
<1>5. l \in Runs!AnyList \cup {Runs!NotRead, Runs!Deleted, Runs!Unreadable}
  BY <1>3, <1>4 DEF Runs!AnyList
<1>6. /\ s \in Runs!Stepping /\ s.phase = step[w].phase /\ s.run = step[w].run
      /\ s.notebook = step[w].notebook /\ s.was = step[w].was /\ s.read = l
  BY <1>3, <1>5 DEF Runs!Stepping
<1>7. step' = [step EXCEPT ![w] = s]
  BY <1>2
<1> HIDE DEF s
<1>8. /\ step' \in [Stepper -> {Runs!Idle} \cup Runs!Stepping]
      /\ step'[w] = s /\ \A v \in Stepper \ {w} : step'[v] = step[v]
  BY <1>6, <1>7 DEF RecognitionInv, Runs!TypeOK
<1>9. \A v \in Stepper : step'[v] # Runs!Idle =>
        step'[v].read \in Lists[step'[v].notebook]
                            \cup {Runs!NotRead, Runs!Deleted, Runs!Unreadable}
  BY <1>4, <1>6, <1>8 DEF RecognitionInv, ListsKept
<1>10. StepHeld'
  BY <1>1, <1>6, <1>8 DEF RecognitionInv, StepHeld
<1> QED
  BY <1>1, <1>8, <1>9, <1>10, EntriesMove, EntryIs DEF RecognitionInv, Runs!TypeOK

\* A worker that holds the lease of the run it steps knows the run's state and the
\* notebook's row as they are.
LEMMA HeldPhase ==
  ASSUME Runs!RunsAssumption, RecognitionInv, NEW w \in Stepper, step[w] # Runs!Idle,
         run[step[w].run].token = w
  PROVE  /\ run[step[w].run].state = step[w].phase
         /\ run[step[w].run].state \in {"preparing", "queued"}
         /\ step[w].was = entry[step[w].run][step[w].notebook]
         /\ step[w].was.state = IF step[w].phase = "queued" THEN "ready" ELSE "pending"
BY SteppingIs DEF RecognitionInv, StepHeld

\* The initial states.
LEMMA RunsInit == ASSUME Runs!RunsAssumption, Runs!Init PROVE RecognitionInv
<1>1. /\ list \in [Volume -> Runs!AnyList] /\ \A n \in Volume : list[n] \in Lists[n]
      /\ barred \in [Volume -> {"no", "skip", "large"}]
      /\ resumed = {} /\ touches = 0
  BY DEF Runs!Init
<1>2. /\ jobs \in [Runs!AnyPage -> Seq(Runs!Job)]
      /\ \A p \in Runs!AnyPage : jobs[p] = <<>>
  BY DEF Runs!Init
<1>3. /\ run \in [Run -> Runs!RunState]
      /\ \A r \in Run : run[r].state = "absent" /\ run[r].token = NoStepper
  BY DEF Runs!Init, Runs!RunState
<1>4. /\ Runs!Unlisted \in Runs!Entry /\ Runs!Unlisted.pages = <<>> /\ Runs!Unlisted.cursor = 0
      /\ Runs!Unlisted.queued = 0 /\ Runs!Unlisted.skipped = 0
  BY DEF Runs!Unlisted, Runs!Entry
<1>5. /\ entry \in [Run -> [Volume -> Runs!Entry]]
      /\ \A r \in Run, n \in Volume : entry[r][n] = Runs!Unlisted
  BY <1>4 DEF Runs!Init
<1>6. step \in [Stepper -> {Runs!Idle}] /\ \A w \in Stepper : step[w] = Runs!Idle
  BY DEF Runs!Init
<1>7. /\ handed \in [Run -> [Runs!AnyPage -> Nat]]
      /\ \A r \in Run, p \in Runs!AnyPage : handed[r][p] = 0
  BY DEF Runs!Init
<1>8. Runs!TypeOK
  <2>1. MaxTouches \in Nat /\ MaxJobs \in Nat
    BY DEF Runs!RunsAssumption
  <2>2. \A p \in Runs!AnyPage : Len(jobs[p]) <= MaxJobs
    <3>1. Len(<<>>) = 0
      OBVIOUS
    <3> QED
      BY <1>2, <2>1, <3>1
  <2>3. list \in [Volume -> Runs!AnyList \cup {Runs!Deleted, Runs!Unreadable}]
    BY <1>1
  <2>4. step \in [Stepper -> {Runs!Idle} \cup Runs!Stepping]
    BY <1>6
  <2>5. touches \in 0..MaxTouches /\ resumed \subseteq Runs!AnyPage \X (1..MaxJobs)
    BY <1>1, <2>1
  <2> QED
    BY <1>1, <1>2, <1>3, <1>5, <1>7, <2>2, <2>3, <2>4, <2>5 DEF Runs!TypeOK
<1>0. \A r \in Run, n \in Volume :
        /\ entry[r][n].cursor = 0 /\ entry[r][n].queued = 0 /\ entry[r][n].skipped = 0
        /\ Len(entry[r][n].pages) = 0
  <2>1. Len(<<>>) = 0
    OBVIOUS
  <2> QED
    BY <1>4, <1>5, <2>1
<1>9. ListsKept
  BY <1>1, <1>4, <1>5, <1>6 DEF ListsKept
<1>10. CursorRight
  <2>1. SUFFICES ASSUME NEW r \in Run, NEW n \in Volume
                 PROVE  /\ entry[r][n].cursor <= Len(entry[r][n].pages)
                        /\ entry[r][n].cursor = 0 /\ entry[r][n].queued = 0
                        /\ entry[r][n].skipped = 0
    BY DEF CursorRight
  <2>2. entry[r][n].cursor = 0 /\ Len(entry[r][n].pages) = 0
    BY <1>0
  <2>3. entry[r][n].cursor <= Len(entry[r][n].pages)
    BY <2>2
  <2> QED
    BY <1>0, <2>3
<1>11. StepHeld
  BY <1>6 DEF StepHeld
<1>12. \A r \in Run, n \in Volume : Runs!SentOf(r, n) = {}
  <2>1. \A n \in Volume : Runs!PagesOf(n) \subseteq Runs!AnyPage
    BY DEF Runs!AnyPage
  <2>2. \A r \in Run, n \in Volume : \A p \in Runs!PagesOf(n) : ~(handed[r][p] > 0)
    BY <1>7, <2>1
  <2> QED
    BY <2>2 DEF Runs!SentOf
<1>13. Runs!SentOnce
  BY <1>12 DEF Runs!SentOnce
<1>14. Cardinality({}) = 0
  BY FS_EmptySet
<1>15. EntriesCounted
  <2>1. SUFFICES ASSUME NEW r \in Run, NEW n \in Volume
                 PROVE  /\ entry[r][n].queued = Cardinality(Runs!SentOf(r, n))
                        /\ entry[r][n].cursor = entry[r][n].queued + entry[r][n].skipped
    BY DEF EntriesCounted
  <2>2. Runs!SentOf(r, n) = {}
    BY <1>12
  <2> QED
    BY <1>0, <1>14, <2>2
<1>16. JobsCounted
  <2>1. \A r : Batched(<<>>, r) = {}
    BY DEF Batched
  <2> QED
    BY <1>2, <1>7, <1>14, <2>1 DEF JobsCounted
<1>17. StoppedQuiet
  BY <1>3 DEF StoppedQuiet
<1> QED
  BY <1>8, <1>9, <1>10, <1>11, <1>13, <1>15, <1>16, <1>17 DEF RecognitionInv

\* A run's state is set, and its lease left alone.
LEMMA RunSet ==
  ASSUME RecognitionInv, NEW r \in Run, NEW next \in {"preparing", "review", "queued"},
         run' = [run EXCEPT ![r].state = next]
  PROVE  /\ run' \in [Run -> Runs!RunState]
         /\ run'[r].state = next /\ run'[r].token = run[r].token
         /\ \A q \in Run \ {r} : run'[q] = run[q]
<1>1. run \in [Run -> Runs!RunState]
  BY DEF RecognitionInv, Runs!TypeOK
<1> DEFINE row == [run[r] EXCEPT !.state = next]
<1>2. row \in Runs!RunState /\ row.state = next /\ row.token = run[r].token
  BY <1>1 DEF Runs!RunState
<1>3. run' = [run EXCEPT ![r] = row]
  OBVIOUS
<1> HIDE DEF row
<1>4. /\ [run EXCEPT ![r] = row] \in [Run -> Runs!RunState]
      /\ [run EXCEPT ![r] = row][r] = row
      /\ \A q \in Run \ {r} : [run EXCEPT ![r] = row][q] = run[q]
  <2> HIDE <1>3
  <2> QED
    BY <1>1, <1>2
<1> QED
  BY <1>2, <1>3, <1>4

\* One run moves on under the owner, none of whose leases is held.
LEMMA RunMoves ==
  ASSUME Runs!RunsAssumption, RecognitionInv, NEW r \in Run, NEW next \in {"preparing", "queued"},
         run[r].state \in {"absent", "review"},
         run' = [run EXCEPT ![r].state = next],
         NEW rows \in [Volume -> Runs!Entry], entry' = [entry EXCEPT ![r] = rows],
         UNCHANGED <<list, barred, jobs, step, handed, resumed, touches>>,
         \A n \in Volume :
           /\ rows[n].pages \in Lists[n] \cup {<<>>}
           /\ rows[n].cursor = 0 /\ rows[n].queued = 0 /\ rows[n].skipped = 0
  PROVE  RecognitionInv'
<1>4. /\ run' \in [Run -> Runs!RunState]
      /\ run'[r].state = next /\ run'[r].token = run[r].token
      /\ \A q \in Run \ {r} : run'[q] = run[q]
  BY RunSet
<1>5. /\ entry' \in [Run -> [Volume -> Runs!Entry]]
      /\ entry'[r] = rows /\ \A q \in Run \ {r} : entry'[q] = entry[q]
  BY DEF RecognitionInv, Runs!TypeOK
<1>6. \A q \in Run, n \in Volume :
        /\ entry'[q][n].pages \in Lists[n] \cup {<<>>}
        /\ entry'[q][n].cursor = entry[q][n].cursor
        /\ entry'[q][n].queued = entry[q][n].queued
        /\ entry'[q][n].skipped = entry[q][n].skipped
        /\ entry[q][n].cursor # 0 => entry'[q][n].pages = entry[q][n].pages
  <2>1. SUFFICES ASSUME NEW q \in Run, NEW n \in Volume
                 PROVE  /\ entry'[q][n].pages \in Lists[n] \cup {<<>>}
                        /\ entry'[q][n].cursor = entry[q][n].cursor
                        /\ entry'[q][n].queued = entry[q][n].queued
                        /\ entry'[q][n].skipped = entry[q][n].skipped
                        /\ entry[q][n].cursor # 0 => entry'[q][n].pages = entry[q][n].pages
    OBVIOUS
  <2>2. CASE q = r
    <3>1. entry[r][n].cursor = 0 /\ entry[r][n].queued = 0 /\ entry[r][n].skipped = 0
      BY DEF RecognitionInv, CursorRight
    <3> QED
      BY <1>5, <2>2, <3>1
  <2>3. CASE q # r
    BY <1>5, <2>3, EntryIs
  <2> QED
    BY <2>2, <2>3
<1>7. \A q \in Run :
        /\ run'[q].state \in {"absent", "preparing", "review"} =>
             run[q].state \in {"absent", "preparing", "review"}
        /\ run'[q].state \in {"paused", "cancelled"} => run[q].state = run'[q].state
  BY <1>4
<1>8. StepHeld'
  <2>1. step' = step
    OBVIOUS
  <2>2. SUFFICES ASSUME NEW w \in Stepper, step[w] # Runs!Idle, run'[step[w].run].token = w
                 PROVE  /\ run'[step[w].run].state = step[w].phase
                        /\ step[w].was = entry'[step[w].run][step[w].notebook]
                        /\ step[w].was.state = IF step[w].phase = "queued" THEN "ready" ELSE "pending"
    BY <2>1 DEF StepHeld
  <2>3. step[w].run \in Run
    BY <2>2, SteppingIs
  <2>4. run[step[w].run].token = w
    BY <1>4, <2>2, <2>3
  <2>5. step[w].run # r
    BY <2>2, <2>4, HeldPhase
  <2> QED
    BY <1>4, <1>5, <2>2, <2>3, <2>4, <2>5, HeldPhase
<1> QED
  BY <1>4, <1>5, <1>6, <1>7, <1>8, EntriesMove DEF RecognitionInv, Runs!TypeOK, ListsKept

\* A run is made, with the notebooks that are there.
LEMMA RunsCreated ==
  ASSUME Runs!RunsAssumption, RecognitionInv, NEW r \in Run, Runs!CreateRun(r)
  PROVE  RecognitionInv'
<1> DEFINE rows == [n \in Volume |->
             IF Runs!Listed(n) THEN [Runs!Unlisted EXCEPT !.state = "pending"] ELSE Runs!Unlisted]
<1>1. /\ run[r].state = "absent" /\ run' = [run EXCEPT ![r].state = "preparing"]
      /\ entry' = [entry EXCEPT ![r] = rows]
      /\ UNCHANGED <<list, barred, jobs, step, handed, resumed, touches>>
  BY DEF Runs!CreateRun
<1>2. rows \in [Volume -> Runs!Entry]
  BY DEF Runs!Unlisted, Runs!Entry
<1>3. \A n \in Volume :
        /\ rows[n].pages \in Lists[n] \cup {<<>>}
        /\ rows[n].cursor = 0 /\ rows[n].queued = 0 /\ rows[n].skipped = 0
  BY DEF Runs!Unlisted
<1> HIDE DEF rows
<1> QED
  BY <1>1, <1>2, <1>3, RunMoves

\* The page lists that could not be read are read again.
LEMMA RunsPreparedAgain ==
  ASSUME Runs!RunsAssumption, RecognitionInv, NEW r \in Run, Runs!PrepareAgain(r)
  PROVE  RecognitionInv'
<1> DEFINE rows == [n \in Volume |->
             IF entry[r][n].state = "unavailable" THEN [entry[r][n] EXCEPT !.state = "pending"]
             ELSE entry[r][n]]
<1>1. /\ run[r].state = "review" /\ run' = [run EXCEPT ![r].state = "preparing"]
      /\ UNCHANGED <<list, barred, jobs, step, handed, resumed, touches>>
  BY DEF Runs!PrepareAgain
<1>2. entry' = [entry EXCEPT ![r] = rows]
  BY DEF Runs!PrepareAgain
<1>3. \A n \in Volume :
        /\ entry[r][n] \in Runs!Entry /\ entry[r][n].pages \in Lists[n] \cup {<<>>}
        /\ entry[r][n].cursor = 0 /\ entry[r][n].queued = 0 /\ entry[r][n].skipped = 0
  BY <1>1, EntryIs DEF RecognitionInv, CursorRight
<1>4. rows \in [Volume -> Runs!Entry]
  BY <1>3 DEF Runs!Entry
<1>5. \A n \in Volume :
        /\ rows[n].pages \in Lists[n] \cup {<<>>}
        /\ rows[n].cursor = 0 /\ rows[n].queued = 0 /\ rows[n].skipped = 0
  BY <1>3 DEF Runs!Entry
<1> HIDE DEF rows
<1> QED
  BY <1>1, <1>2, <1>4, <1>5, RunMoves

\* The owner approves a run, but for the notebooks excluded.
LEMMA RunsApproved ==
  ASSUME Runs!RunsAssumption, RecognitionInv, NEW r \in Run, NEW excluded \in SUBSET Volume,
         Runs!ApproveRun(r, excluded)
  PROVE  RecognitionInv'
<1> DEFINE rows == [n \in Volume |->
             IF n \in excluded THEN [entry[r][n] EXCEPT !.state = "excluded"] ELSE entry[r][n]]
<1>1. /\ run[r].state = "review" /\ run' = [run EXCEPT ![r].state = "queued"]
      /\ UNCHANGED <<list, barred, jobs, step, handed, resumed, touches>>
  BY DEF Runs!ApproveRun
<1>2. entry' = [entry EXCEPT ![r] = rows]
  BY DEF Runs!ApproveRun
<1>3. \A n \in Volume :
        /\ entry[r][n] \in Runs!Entry /\ entry[r][n].pages \in Lists[n] \cup {<<>>}
        /\ entry[r][n].cursor = 0 /\ entry[r][n].queued = 0 /\ entry[r][n].skipped = 0
  BY <1>1, EntryIs DEF RecognitionInv, CursorRight
<1>4. rows \in [Volume -> Runs!Entry]
  BY <1>3 DEF Runs!Entry
<1>5. \A n \in Volume :
        /\ rows[n].pages \in Lists[n] \cup {<<>>}
        /\ rows[n].cursor = 0 /\ rows[n].queued = 0 /\ rows[n].skipped = 0
  BY <1>3 DEF Runs!Entry
<1> HIDE DEF rows
<1> QED
  BY <1>1, <1>2, <1>4, <1>5, RunMoves

\* Runs move, under the leases of other workers or under none, and no notebook's row does.
LEMMA LeasesMove ==
  ASSUME Runs!RunsAssumption, RecognitionInv,
         run' \in [Run -> Runs!RunState],
         step' \in [Stepper -> {Runs!Idle} \cup Runs!Stepping],
         \A w \in Stepper : step'[w] # Runs!Idle =>
           step'[w].read \in Lists[step'[w].notebook]
                               \cup {Runs!NotRead, Runs!Deleted, Runs!Unreadable},
         \A r \in Run :
           /\ run'[r].state \in {"absent", "preparing", "review"} =>
                run[r].state \in {"absent", "preparing", "review"}
           /\ run'[r].state \in {"paused", "cancelled"} => run[r].state = run'[r].state,
         StepHeld',
         UNCHANGED <<list, barred, jobs, entry, handed, resumed, touches>>
  PROVE  RecognitionInv'
<1>1. /\ list' = list /\ barred' = barred /\ jobs' = jobs /\ entry' = entry
      /\ handed' = handed /\ resumed' = resumed /\ touches' = touches
  OBVIOUS
<1>2. entry' \in [Run -> [Volume -> Runs!Entry]]
  BY <1>1 DEF RecognitionInv, Runs!TypeOK
<1>3. \A r \in Run, n \in Volume :
        /\ entry'[r][n].pages \in Lists[n] \cup {<<>>}
        /\ entry'[r][n].cursor = entry[r][n].cursor
        /\ entry'[r][n].queued = entry[r][n].queued
        /\ entry'[r][n].skipped = entry[r][n].skipped
        /\ entry[r][n].cursor # 0 => entry'[r][n].pages = entry[r][n].pages
  BY <1>1, EntryIs
<1> QED
  BY <1>2, <1>3, EntriesMove

\* A lease lapses under its worker.
LEMMA RunsLeaseLapsed ==
  ASSUME Runs!RunsAssumption, RecognitionInv, NEW r \in Run, Runs!LeaseLapses(r)
  PROVE  RecognitionInv'
<1>1. /\ run' = [run EXCEPT ![r].leased = FALSE]
      /\ UNCHANGED <<list, barred, jobs, entry, step, handed, resumed, touches>>
  BY DEF Runs!LeaseLapses
<1>2. run \in [Run -> Runs!RunState]
  BY DEF RecognitionInv, Runs!TypeOK
<1> DEFINE row == [run[r] EXCEPT !.leased = FALSE]
<1>3. row \in Runs!RunState /\ row.state = run[r].state /\ row.token = run[r].token
  BY <1>2 DEF Runs!RunState
<1>4. run' = [run EXCEPT ![r] = row]
  BY <1>1
<1> HIDE DEF row
<1>5. /\ run' \in [Run -> Runs!RunState]
      /\ \A q \in Run : run'[q].state = run[q].state /\ run'[q].token = run[q].token
  BY <1>2, <1>3, <1>4
<1>6. step' = step /\ entry' = entry
  BY <1>1
<1>7. StepHeld'
  <2>1. SUFFICES ASSUME NEW w \in Stepper, step[w] # Runs!Idle, run'[step[w].run].token = w
                 PROVE  /\ run'[step[w].run].state = step[w].phase
                        /\ step[w].was = entry[step[w].run][step[w].notebook]
                        /\ step[w].was.state = IF step[w].phase = "queued" THEN "ready" ELSE "pending"
    BY <1>6 DEF StepHeld
  <2>2. step[w].run \in Run
    BY <2>1, SteppingIs
  <2> QED
    BY <1>5, <2>1, <2>2, HeldPhase
<1>8. /\ step' \in [Stepper -> {Runs!Idle} \cup Runs!Stepping]
      /\ \A w \in Stepper : step'[w] # Runs!Idle =>
           step'[w].read \in Lists[step'[w].notebook]
                               \cup {Runs!NotRead, Runs!Deleted, Runs!Unreadable}
  BY <1>6, SteppingIs DEF RecognitionInv, Runs!TypeOK
<1> QED
  BY <1>1, <1>5, <1>7, <1>8, LeasesMove

\* A worker takes the oldest run that is due, and its next notebook.
LEMMA RunsClaimed ==
  ASSUME Runs!RunsAssumption, RecognitionInv, NEW w \in Stepper, Runs!Claim(w)
  PROVE  RecognitionInv'
<1>1. PICK r \in Run :
        /\ step[w] = Runs!Idle /\ Runs!Due(r) /\ Runs!Waiting(r) # {}
        /\ run' = [run EXCEPT ![r].token = w, ![r].leased = TRUE]
        /\ LET n == Runs!Min(Runs!Waiting(r)) IN
           step' = [step EXCEPT ![w] = [phase |-> run[r].state, run |-> r, notebook |-> n,
                                        was |-> entry[r][n], read |-> Runs!NotRead]]
        /\ UNCHANGED <<list, barred, jobs, entry, handed, resumed, touches>>
  BY DEF Runs!Claim
<1> DEFINE n == Runs!Min(Runs!Waiting(r))
           s == [phase |-> run[r].state, run |-> r, notebook |-> n,
                 was |-> entry[r][n], read |-> Runs!NotRead]
           row == [run[r] EXCEPT !.token = w, !.leased = TRUE]
<1>2. n \in Volume /\ entry[r][n].state = Runs!Wanted(r)
  <2>1. Runs!Waiting(r) \subseteq Nat
    BY DEF Runs!Waiting, Runs!RunsAssumption
  <2>2. n \in Runs!Waiting(r)
    BY <1>1, <2>1, MinIs
  <2> HIDE DEF n
  <2> QED
    BY <2>2 DEF Runs!Waiting
<1>3. run[r].state \in {"preparing", "queued"}
  BY <1>1 DEF Runs!Due
<1>4. /\ run \in [Run -> Runs!RunState] /\ step \in [Stepper -> {Runs!Idle} \cup Runs!Stepping]
      /\ entry[r][n] \in Runs!Entry
  BY <1>2, EntryIs DEF RecognitionInv, Runs!TypeOK
<1> HIDE DEF n
<1>5. /\ s \in Runs!Stepping /\ s.phase = run[r].state /\ s.run = r /\ s.notebook = n
      /\ s.was = entry[r][n] /\ s.read = Runs!NotRead
  BY <1>2, <1>3, <1>4 DEF Runs!Stepping
<1>6. row \in Runs!RunState /\ row.state = run[r].state /\ row.token = w
  BY <1>4 DEF Runs!RunState
<1>7. run' = [run EXCEPT ![r] = row] /\ step' = [step EXCEPT ![w] = s]
  BY <1>1, <1>4 DEF n, Runs!RunState
<1> HIDE DEF row, s
<1>8. /\ run' \in [Run -> Runs!RunState] /\ run'[r] = row
      /\ \A q \in Run \ {r} : run'[q] = run[q]
  BY <1>4, <1>6, <1>7
<1>9. /\ step' \in [Stepper -> {Runs!Idle} \cup Runs!Stepping] /\ step'[w] = s
      /\ \A v \in Stepper \ {w} : step'[v] = step[v]
  BY <1>4, <1>5, <1>7
<1>10. \A v \in Stepper : step'[v] # Runs!Idle =>
         step'[v].read \in Lists[step'[v].notebook]
                             \cup {Runs!NotRead, Runs!Deleted, Runs!Unreadable}
  BY <1>5, <1>9, SteppingIs
<1>11. entry' = entry
  BY <1>1
<1>12. StepHeld'
  <2>1. SUFFICES ASSUME NEW v \in Stepper, step'[v] # Runs!Idle, run'[step'[v].run].token = v
                 PROVE  /\ run'[step'[v].run].state = step'[v].phase
                        /\ step'[v].was = entry[step'[v].run][step'[v].notebook]
                        /\ step'[v].was.state
                             = IF step'[v].phase = "queued" THEN "ready" ELSE "pending"
    BY <1>11 DEF StepHeld
  <2>2. CASE v = w
    BY <1>2, <1>3, <1>5, <1>6, <1>8, <1>9, <2>2 DEF Runs!Wanted
  <2>3. CASE v # w
    <3>1. step'[v] = step[v] /\ step[v].run \in Run
      BY <1>9, <2>1, <2>3, SteppingIs
    <3>2. step[v].run # r
      BY <1>6, <1>8, <2>1, <2>3, <3>1
    <3>3. run'[step[v].run] = run[step[v].run]
      BY <1>8, <3>1, <3>2
    <3> QED
      BY <2>1, <3>1, <3>3, HeldPhase
  <2> QED
    BY <2>2, <2>3
<1>13. \A q \in Run : run'[q].state = run[q].state
  BY <1>6, <1>8
<1> QED
  BY <1>1, <1>8, <1>9, <1>10, <1>12, <1>13, LeasesMove

\* Nothing of a run is left to prepare.
LEMMA RunsPrepared ==
  ASSUME Runs!RunsAssumption, RecognitionInv, Runs!Prepared
  PROVE  RecognitionInv'
<1>1. PICK r \in Run :
        /\ Runs!Due(r) /\ Runs!Waiting(r) = {} /\ run' = [run EXCEPT ![r].state = "review"]
        /\ UNCHANGED <<list, barred, jobs, entry, step, handed, resumed, touches>>
  BY DEF Runs!Prepared
<1>2. run[r].state = "preparing"
  BY <1>1 DEF Runs!Due
<1>3. /\ run' \in [Run -> Runs!RunState]
      /\ run'[r].state = "review" /\ run'[r].token = run[r].token
      /\ \A q \in Run \ {r} : run'[q] = run[q]
  BY <1>1, RunSet
<1>4. step' = step /\ entry' = entry
  BY <1>1
<1>5. StepHeld'
  <2>1. SUFFICES ASSUME NEW w \in Stepper, step[w] # Runs!Idle, run'[step[w].run].token = w
                 PROVE  /\ run'[step[w].run].state = step[w].phase
                        /\ step[w].was = entry[step[w].run][step[w].notebook]
                        /\ step[w].was.state = IF step[w].phase = "queued" THEN "ready" ELSE "pending"
    BY <1>4 DEF StepHeld
  <2>2. step[w].run \in Run /\ step[w].notebook \in Volume
    BY <2>1, SteppingIs
  <2>3. run[step[w].run].token = w
    BY <1>3, <2>1, <2>2
  <2>4. step[w].run # r
    <3>1. SUFFICES ASSUME step[w].run = r PROVE FALSE
      OBVIOUS
    <3>2. step[w].phase = "preparing" /\ entry[r][step[w].notebook].state = "pending"
      BY <1>2, <2>1, <2>3, <3>1, HeldPhase
    <3>3. step[w].notebook \in Runs!Waiting(r)
      BY <1>2, <2>2, <3>2 DEF Runs!Waiting, Runs!Wanted
    <3> QED
      BY <1>1, <3>3
  <2> QED
    BY <1>3, <2>1, <2>2, <2>3, <2>4, HeldPhase
<1>6. /\ step' \in [Stepper -> {Runs!Idle} \cup Runs!Stepping]
      /\ \A w \in Stepper : step'[w] # Runs!Idle =>
           step'[w].read \in Lists[step'[w].notebook]
                               \cup {Runs!NotRead, Runs!Deleted, Runs!Unreadable}
  BY <1>4, SteppingIs DEF RecognitionInv, Runs!TypeOK
<1>7. \A q \in Run :
        /\ run'[q].state \in {"absent", "preparing", "review"} =>
             run[q].state \in {"absent", "preparing", "review"}
        /\ run'[q].state \in {"paused", "cancelled"} => run[q].state = run'[q].state
  BY <1>2, <1>3
<1> QED
  BY <1>1, <1>3, <1>5, <1>6, <1>7, LeasesMove

\* One notebook's row of one run is replaced.
LEMMA RowReplaced ==
  ASSUME NEW A, NEW B, NEW C, NEW f \in [A -> [B -> C]], NEW a \in A, NEW b \in B, NEW c \in C
  PROVE  /\ [f EXCEPT ![a][b] = c] \in [A -> [B -> C]]
         /\ \A x \in A, y \in B :
              [f EXCEPT ![a][b] = c][x][y] = IF x = a /\ y = b THEN c ELSE f[x][y]
<1> DEFINE h == [f[a] EXCEPT ![b] = c]
<1>1. [f EXCEPT ![a][b] = c] = [f EXCEPT ![a] = h]
  OBVIOUS
<1>2. h \in [B -> C] /\ \A y \in B : h[y] = IF y = b THEN c ELSE f[a][y]
  OBVIOUS
<1> HIDE DEF h
<1>3. /\ [f EXCEPT ![a] = h] \in [A -> [B -> C]]
      /\ \A x \in A : [f EXCEPT ![a] = h][x] = IF x = a THEN h ELSE f[x]
  BY <1>2
<1> QED
  BY <1>1, <1>2, <1>3

\* A worker settles one notebook of a run whose lease it holds, as it was claimed.
LEMMA Settles ==
  ASSUME Runs!RunsAssumption, RecognitionInv, NEW w \in Stepper, step[w] # Runs!Idle,
         ~Runs!Fenced(w), Runs!Release(step[w].run),
         NEW row \in Runs!Entry, row.pages \in Lists[step[w].notebook] \cup {<<>>},
         entry' = [entry EXCEPT ![step[w].run][step[w].notebook] = row],
         step' = [step EXCEPT ![w] = Runs!Idle]
  PROVE  /\ run' \in [Run -> Runs!RunState]
         /\ \A q \in Run : run'[q].state = run[q].state
         /\ run[step[w].run].state = step[w].phase
         /\ step[w].was = entry[step[w].run][step[w].notebook]
         /\ entry' \in [Run -> [Volume -> Runs!Entry]]
         /\ \A q \in Run, n \in Volume :
              /\ entry'[q][n].pages \in Lists[n] \cup {<<>>}
              /\ entry'[q][n] = IF q = step[w].run /\ n = step[w].notebook THEN row
                                ELSE entry[q][n]
         /\ step' \in [Stepper -> {Runs!Idle} \cup Runs!Stepping]
         /\ \A v \in Stepper : step'[v] # Runs!Idle =>
              step'[v].read \in Lists[step'[v].notebook]
                                  \cup {Runs!NotRead, Runs!Deleted, Runs!Unreadable}
         /\ StepHeld'
<1> DEFINE r == step[w].run
           m == step[w].notebook
           released == [run[r] EXCEPT !.token = NoStepper, !.leased = FALSE]
<1>1. r \in Run /\ m \in Volume
  BY SteppingIs
<1>2. run[r].state = step[w].phase /\ run[r].token = w
  BY DEF Runs!Fenced
<1>3. step[w].was = entry[r][m]
  BY <1>2, HeldPhase
<1>4. run' = [run EXCEPT ![r].token = NoStepper, ![r].leased = FALSE]
  BY DEF Runs!Release
<1>5. entry' = [entry EXCEPT ![r][m] = row]
  OBVIOUS
<1> HIDE DEF r, m
<1>6. /\ run \in [Run -> Runs!RunState] /\ entry \in [Run -> [Volume -> Runs!Entry]]
      /\ step \in [Stepper -> {Runs!Idle} \cup Runs!Stepping]
  BY DEF RecognitionInv, Runs!TypeOK
<1>7. released \in Runs!RunState /\ released.state = run[r].state /\ released.token = NoStepper
  <2>1. run[r] \in Runs!RunState
    BY <1>1, <1>6
  <2> QED
    BY <2>1 DEF Runs!RunState
<1>8. run' = [run EXCEPT ![r] = released]
  BY <1>4, <1>6, <1>1 DEF Runs!RunState
<1> HIDE DEF released
<1>9. /\ run' \in [Run -> Runs!RunState] /\ run'[r] = released
      /\ \A q \in Run \ {r} : run'[q] = run[q]
  BY <1>1, <1>6, <1>7, <1>8
<1>10. /\ entry' \in [Run -> [Volume -> Runs!Entry]]
       /\ \A q \in Run, n \in Volume :
            entry'[q][n] = IF q = r /\ n = m THEN row ELSE entry[q][n]
  <2>1. /\ [entry EXCEPT ![r][m] = row] \in [Run -> [Volume -> Runs!Entry]]
        /\ \A q \in Run, n \in Volume :
             [entry EXCEPT ![r][m] = row][q][n] = IF q = r /\ n = m THEN row ELSE entry[q][n]
    <3> HIDE <1>5
    <3>1. entry \in [Run -> [Volume -> Runs!Entry]] /\ r \in Run /\ m \in Volume /\ row \in Runs!Entry
      BY <1>1, <1>6
    <3> QED
      BY ONLY <3>1, RowReplaced
  <2> QED
    BY ONLY <1>5, <2>1
<1>11. \A q \in Run, n \in Volume : entry'[q][n].pages \in Lists[n] \cup {<<>>}
  BY <1>10, EntryIs DEF m
<1>12. /\ step' \in [Stepper -> {Runs!Idle} \cup Runs!Stepping] /\ step'[w] = Runs!Idle
       /\ \A v \in Stepper \ {w} : step'[v] = step[v]
  BY <1>6
<1>13. \A v \in Stepper : step'[v] # Runs!Idle =>
         step'[v].read \in Lists[step'[v].notebook]
                             \cup {Runs!NotRead, Runs!Deleted, Runs!Unreadable}
  <2>1. SUFFICES ASSUME NEW v \in Stepper, step'[v] # Runs!Idle
                 PROVE  step'[v].read \in Lists[step'[v].notebook]
                                          \cup {Runs!NotRead, Runs!Deleted, Runs!Unreadable}
    OBVIOUS
  <2>2. step'[v] = step[v]
    BY <1>12, <2>1
  <2> QED
    BY <2>1, <2>2, SteppingIs
<1>14. StepHeld'
  <2>1. SUFFICES ASSUME NEW v \in Stepper, step'[v] # Runs!Idle, run'[step'[v].run].token = v
                 PROVE  /\ run'[step'[v].run].state = step'[v].phase
                        /\ step'[v].was = entry'[step'[v].run][step'[v].notebook]
                        /\ step'[v].was.state
                             = IF step'[v].phase = "queued" THEN "ready" ELSE "pending"
    BY DEF StepHeld
  <2>2. /\ step'[v] = step[v] /\ step[v] # Runs!Idle
        /\ step[v].run \in Run /\ step[v].notebook \in Volume
    <3>1. step'[v] = step[v] /\ step[v] # Runs!Idle
      BY <1>12, <2>1
    <3> QED
      BY <3>1, SteppingIs
  <2>3. v # NoStepper
    BY DEF Runs!RunsAssumption
  <2>4. step[v].run # r
    BY <1>7, <1>9, <2>1, <2>2, <2>3
  <2>5. /\ run'[step[v].run] = run[step[v].run]
        /\ entry'[step[v].run][step[v].notebook] = entry[step[v].run][step[v].notebook]
    BY <1>9, <1>10, <2>2, <2>4
  <2> QED
    BY <2>1, <2>2, <2>5, HeldPhase
<1>15. \A q \in Run : run'[q].state = run[q].state
  BY <1>7, <1>9
<1> QED
  BY <1>2, <1>3, <1>9, <1>10, <1>11, <1>12, <1>13, <1>14, <1>15 DEF r, m

\* A worker drops its step, its run having moved on, or dies.
LEMMA RunsStepLost ==
  ASSUME Runs!RunsAssumption, RecognitionInv, NEW w \in Stepper, Runs!Dropped(w) \/ Runs!Fail(w)
  PROVE  RecognitionInv'
<1>1. CASE Runs!Dropped(w)
  BY <1>1, StepDropped DEF Runs!Dropped
<1>2. CASE Runs!Fail(w)
  BY <1>2, StepDropped DEF Runs!Fail
<1> QED
  BY <1>1, <1>2

\* What a settlement leaves of a notebook's row, if it sends nothing.
LEMMA RowSettled ==
  ASSUME Runs!RunsAssumption, RecognitionInv, NEW w \in Stepper, step[w] # Runs!Idle,
         ~Runs!Fenced(w), Runs!Release(step[w].run),
         NEW row \in Runs!Entry, row.pages \in Lists[step[w].notebook] \cup {<<>>},
         row.cursor = step[w].was.cursor, row.queued = step[w].was.queued,
         row.skipped = step[w].was.skipped,
         step[w].was.cursor # 0 => row.pages = step[w].was.pages,
         entry' = [entry EXCEPT ![step[w].run][step[w].notebook] = row],
         step' = [step EXCEPT ![w] = Runs!Idle],
         UNCHANGED <<list, barred, jobs, handed, resumed, touches>>
  PROVE  RecognitionInv'
<1>1. /\ run' \in [Run -> Runs!RunState]
      /\ \A q \in Run : run'[q].state = run[q].state
      /\ step[w].was = entry[step[w].run][step[w].notebook]
      /\ entry' \in [Run -> [Volume -> Runs!Entry]]
      /\ \A q \in Run, n \in Volume :
           /\ entry'[q][n].pages \in Lists[n] \cup {<<>>}
           /\ entry'[q][n] = IF q = step[w].run /\ n = step[w].notebook THEN row
                             ELSE entry[q][n]
      /\ step' \in [Stepper -> {Runs!Idle} \cup Runs!Stepping]
      /\ \A v \in Stepper : step'[v] # Runs!Idle =>
           step'[v].read \in Lists[step'[v].notebook]
                               \cup {Runs!NotRead, Runs!Deleted, Runs!Unreadable}
      /\ StepHeld'
  BY Settles
<1>2. \A q \in Run, n \in Volume :
        /\ entry'[q][n].pages \in Lists[n] \cup {<<>>}
        /\ entry'[q][n].cursor = entry[q][n].cursor
        /\ entry'[q][n].queued = entry[q][n].queued
        /\ entry'[q][n].skipped = entry[q][n].skipped
        /\ entry[q][n].cursor # 0 => entry'[q][n].pages = entry[q][n].pages
  <2>1. TAKE q \in Run, n \in Volume
  <2>2. CASE q = step[w].run /\ n = step[w].notebook
    BY <1>1, <2>2
  <2>3. CASE ~(q = step[w].run /\ n = step[w].notebook)
    BY <1>1, <2>3
  <2> QED
    BY <2>2, <2>3
<1>3. \A q \in Run :
        /\ run'[q].state \in {"absent", "preparing", "review"} =>
             run[q].state \in {"absent", "preparing", "review"}
        /\ run'[q].state \in {"paused", "cancelled"} => run[q].state = run'[q].state
  BY <1>1
<1> HIDE DEF StepHeld
<1> QED
  BY <1>1, <1>2, <1>3, EntriesMove

\* A notebook under preparation is settled.
LEMMA RunsNotebookPrepared ==
  ASSUME Runs!RunsAssumption, RecognitionInv, NEW w \in Stepper, Runs!Prepare(w)
  PROVE  RecognitionInv'
<1> DEFINE s == step[w]
           row == Runs!Reviewed(s)
<1>1. /\ s # Runs!Idle /\ s.phase = "preparing" /\ s.read # Runs!NotRead /\ ~Runs!Fenced(w)
      /\ Runs!Release(s.run)
      /\ entry' = [entry EXCEPT ![s.run][s.notebook] = row]
      /\ step' = [step EXCEPT ![w] = Runs!Idle]
      /\ UNCHANGED <<list, barred, jobs, handed, resumed, touches>>
  BY DEF Runs!Prepare
<1>2. /\ s.run \in Run /\ s.notebook \in Volume /\ s.was \in Runs!Entry
      /\ s.read \in Lists[s.notebook] \cup {Runs!NotRead, Runs!Deleted, Runs!Unreadable}
  BY <1>1, SteppingIs
<1>3. s.was = entry[s.run][s.notebook] /\ run[s.run].state = "preparing"
  BY <1>1, HeldPhase DEF Runs!Fenced
<1>4. s.was.cursor = 0 /\ s.was.pages \in Lists[s.notebook] \cup {<<>>}
  <2>1. \A r \in Run, n \in Volume :
          /\ entry[r][n].pages \in Lists[n] \cup {<<>>}
          /\ run[r].state = "preparing" => entry[r][n].cursor = 0
    BY EntryIs
  <2>2. s.run \in Run /\ s.notebook \in Volume
    BY <1>2
  <2>3. s.was = entry[s.run][s.notebook] /\ run[s.run].state = "preparing"
    BY <1>3
  <2> HIDE DEF s
  <2>4. entry[s.run][s.notebook].cursor = 0
    BY ONLY <2>1, <2>2, <2>3
  <2>5. entry[s.run][s.notebook].pages \in Lists[s.notebook] \cup {<<>>}
    BY ONLY <2>1, <2>2
  <2> QED
    BY ONLY <2>3, <2>4, <2>5
<1>5. s.read \notin {Runs!Deleted, Runs!Unreadable} =>
        s.read \in Runs!AnyList /\ s.read \in Lists[s.notebook]
  BY <1>1, <1>2, ReadIs
<1>6. /\ row \in Runs!Entry /\ row.cursor = s.was.cursor /\ row.queued = s.was.queued
      /\ row.skipped = s.was.skipped
      /\ row.pages \in {s.was.pages} \cup Lists[s.notebook]
  <2>1. CASE s.read = Runs!Deleted
    <3>1. row = [s.was EXCEPT !.state = "excluded"]
      BY <2>1 DEF Runs!Reviewed, Runs!Deleted, Runs!Unreadable
    <3> HIDE DEF row, s
    <3> QED
      BY <1>2, <3>1 DEF Runs!Entry
  <2>2. CASE s.read = Runs!Unreadable
    <3>1. row = [s.was EXCEPT !.state = "unavailable"]
      BY <2>2 DEF Runs!Reviewed, Runs!Deleted, Runs!Unreadable
    <3> HIDE DEF row, s
    <3> QED
      BY <1>2, <3>1 DEF Runs!Entry
  <2>3. CASE s.read \notin {Runs!Deleted, Runs!Unreadable}
    <3> DEFINE next == IF s.read = <<>> THEN "unavailable"
                       ELSE IF barred[s.notebook] # "no" THEN "excluded" ELSE "ready"
    <3>1. row = [s.was EXCEPT !.pages = s.read, !.state = next]
      BY <2>3 DEF Runs!Reviewed
    <3>2. next \in {"unavailable", "excluded", "ready"}
      OBVIOUS
    <3> HIDE DEF row, s, next
    <3> QED
      BY <1>2, <1>5, <2>3, <3>1, <3>2 DEF Runs!Entry
  <2> QED
    BY <2>1, <2>2, <2>3
<1> HIDE DEF row
<1> QED
  BY <1>1, <1>4, <1>6, RowSettled

\* A notebook whose list is no longer the one under review is withdrawn.
LEMMA RunsWithdrawn ==
  ASSUME Runs!RunsAssumption, RecognitionInv, NEW w \in Stepper, Runs!Withdraw(w)
  PROVE  RecognitionInv'
<1> DEFINE s == step[w]
           next == IF s.read = Runs!Deleted THEN "excluded" ELSE "unavailable"
           row == [s.was EXCEPT !.state = next]
<1>1. /\ s # Runs!Idle /\ ~Runs!Fenced(w)
      /\ Runs!Release(s.run)
      /\ entry' = [entry EXCEPT ![s.run][s.notebook] = row]
      /\ step' = [step EXCEPT ![w] = Runs!Idle]
      /\ UNCHANGED <<list, barred, jobs, handed, resumed, touches>>
  BY DEF Runs!Withdraw
<1>2. s.run \in Run /\ s.notebook \in Volume /\ s.was \in Runs!Entry
  BY <1>1, SteppingIs
<1>3. s.was = entry[s.run][s.notebook]
  BY <1>1, HeldPhase DEF Runs!Fenced
<1>4. s.was.pages \in Lists[s.notebook] \cup {<<>>}
  BY <1>2, <1>3, EntryIs
<1>5. next \in {"excluded", "unavailable"}
  OBVIOUS
<1>6. /\ row \in Runs!Entry /\ row.cursor = s.was.cursor /\ row.queued = s.was.queued
      /\ row.skipped = s.was.skipped /\ row.pages = s.was.pages
  <2> HIDE DEF next, s
  <2> QED
    BY <1>2, <1>5 DEF Runs!Entry
<1> HIDE DEF row
<1> QED
  BY <1>1, <1>4, <1>6, RowSettled

\* The pages of a list behind one place, up to another.
Stretch(l, a, b) == {l[i] : i \in (a + 1)..b}

\* A stretch of a list without repetitions has as many pages as it is long.
LEMMA StretchIs ==
  ASSUME NEW S, NEW l \in Seq(S), Runs!IsInjective(l), NEW a \in Nat, NEW b \in Nat,
         a <= b, b <= Len(l)
  PROVE  IsFiniteSet(Stretch(l, a, b)) /\ Cardinality(Stretch(l, a, b)) = b - a
<1> DEFINE D == (a + 1)..b
           T == {l[i] : i \in D}
           f == [i \in D |-> l[i]]
<1>1. IsFiniteSet(D) /\ Cardinality(D) = b - a
  <2>1. a + 1 \in Int /\ b \in Int
    OBVIOUS
  <2>2. IsFiniteSet(D) /\ Cardinality(D) = IF a + 1 > b THEN 0 ELSE b - (a + 1) + 1
    BY <2>1, FS_Interval
  <2> HIDE DEF D
  <2> QED
    BY <2>2
<1>2. \A i, j \in D : l[i] = l[j] => i = j
  <2>1. D \subseteq DOMAIN l
    OBVIOUS
  <2> QED
    BY <2>1 DEF Runs!IsInjective
<1> HIDE DEF D
<1>3. f \in [D -> T] /\ (\A i, j \in DOMAIN f : f[i] = f[j] => i = j)
      /\ \A t \in T : \E i \in D : f[i] = t
  BY <1>2
<1>4. f \in Bijection(D, T)
  <2> HIDE DEF f, T
  <2> QED
    BY <1>3 DEF Bijection, Injection, Surjection, IsInjective
<1>5. ExistsBijection(D, T)
  BY <1>4 DEF ExistsBijection
<1> HIDE DEF T
<1>6. IsFiniteSet(T) /\ Cardinality(T) = Cardinality(D)
  BY <1>1, <1>5, FS_Bijection
<1> QED
  BY <1>1, <1>6 DEF T, D, Stretch

\* What a worker that holds a confirmed run's lease is about to send: pages of the
\* reviewed list behind its cursor, none of which the run has sent.
LEMMA ChunkIs ==
  ASSUME Runs!RunsAssumption, RecognitionInv, NEW w \in Stepper, step[w] # Runs!Idle,
         step[w].phase = "queued", step[w].read = step[w].was.pages, ~Runs!Fenced(w)
  PROVE  LET s == step[w]
             end == Runs!ChunkEnd(s)
         IN /\ s.run \in Run /\ s.notebook \in Volume /\ s.was \in Runs!Entry
            /\ s.was = entry[s.run][s.notebook] /\ run[s.run].state = "queued"
            /\ s.was.cursor \in Nat /\ end \in Nat /\ s.was.cursor <= end
            /\ end <= Len(s.was.pages)
            /\ Runs!Chunk(s) \subseteq Runs!PagesOf(s.notebook)
            /\ \A p \in Runs!Chunk(s) : /\ handed[s.run][p] = 0
                                        /\ \E i \in 1..end : s.was.pages[i] = p
            /\ IsFiniteSet(Runs!Chunk(s))
            /\ Cardinality(Runs!Chunk(s)) = end - s.was.cursor
            /\ IsFiniteSet(Runs!SentOf(s.run, s.notebook))
<1> DEFINE s == step[w]
           r == s.run
           n == s.notebook
           l == s.was.pages
           c == s.was.cursor
           end == Runs!ChunkEnd(s)
<1>1. /\ r \in Run /\ n \in Volume /\ s.was \in Runs!Entry
      /\ s.read \in Lists[n] \cup {Runs!NotRead, Runs!Deleted, Runs!Unreadable}
  BY SteppingIs
<1>2. s.was = entry[r][n] /\ run[r].state = "queued"
  BY HeldPhase DEF Runs!Fenced
<1>3. s.read = l
  OBVIOUS
<1>4. l \in Lists[n] \cup {<<>>} /\ c <= Len(l) /\ c \in Nat
  <2>1. \A q \in Run, m \in Volume : /\ entry[q][m].pages \in Lists[m] \cup {<<>>}
                                     /\ entry[q][m].cursor <= Len(entry[q][m].pages)
                                     /\ entry[q][m].cursor \in Nat
    <3>1. \A q \in Run, m \in Volume : entry[q][m].cursor <= Len(entry[q][m].pages)
      BY DEF RecognitionInv, CursorRight
    <3>2. \A q \in Run, m \in Volume : entry[q][m].cursor \in Nat
      BY EntryIs DEF Runs!Entry
    <3> QED
      BY <3>1, <3>2, EntryIs
  <2>2. s.was.pages = entry[r][n].pages /\ s.was.cursor = entry[r][n].cursor
    BY <1>2
  <2> HIDE DEF s, r, n
  <2>3. /\ entry[r][n].pages \in Lists[n] \cup {<<>>}
        /\ entry[r][n].cursor <= Len(entry[r][n].pages) /\ entry[r][n].cursor \in Nat
    BY ONLY <1>1, <2>1
  <2> QED
    BY ONLY <2>2, <2>3 DEF l, c
<1>5. l \in Lists[n]
  <2>1. SUFFICES ASSUME l = <<>>, l \in {Runs!NotRead, Runs!Deleted, Runs!Unreadable} PROVE FALSE
    BY <1>1, <1>3, <1>4
  <2> HIDE DEF l
  <2> QED
    BY <2>1 DEF Runs!NotRead, Runs!Deleted, Runs!Unreadable
<1>6. l \in Seq(Runs!PagesOf(n)) /\ Runs!IsInjective(l)
  BY <1>1, <1>5, ReadIs
<1>7. Len(l) \in Nat /\ DOMAIN l = 1..Len(l)
  <2> HIDE DEF l
  <2> QED
    BY <1>6
<1>8. end \in Nat /\ c <= end /\ end <= Len(l)
  <2> DEFINE B == {c + ChunkSize, Len(l)}
  <2>1. end = Runs!Min(B)
    BY <1>3 DEF Runs!ChunkEnd
  <2> HIDE DEF s, l, c, end
  <2>2. ChunkSize \in Nat \ {0}
    BY DEF Runs!RunsAssumption
  <2>3. B \subseteq Nat /\ B # {}
    BY <1>4, <1>7, <2>2
  <2>4. Runs!Min(B) \in B /\ \A y \in B : Runs!Min(B) <= y
    BY <2>3, MinIs
  <2>5. Runs!Min(B) \in {c + ChunkSize, Len(l)} /\ Runs!Min(B) <= Len(l)
    BY <2>4
  <2> HIDE DEF B
  <2> QED
    BY <1>4, <1>7, <2>1, <2>2, <2>5
<1>9. Runs!Chunk(s) = {l[i] : i \in (c + 1)..end}
  BY <1>3 DEF Runs!Chunk
<1> HIDE DEF s, r, n, l, c, end
<1>10. \A i \in 1..Len(l) : l[i] \in Runs!PagesOf(n)
  BY <1>6
<1>11. \A i \in (c + 1)..end : i \in 1..Len(l) /\ i \in 1..end /\ i \notin 1..c
  BY <1>4, <1>7, <1>8
<1>12. Runs!Chunk(s) \subseteq Runs!PagesOf(n)
  BY <1>9, <1>10, <1>11
<1>13. \A p \in Runs!SentOf(r, n) : \E i \in 1..c : l[i] = p
  <2>1. \A p \in Runs!SentOf(r, n) : \E i \in 1..entry[r][n].cursor : entry[r][n].pages[i] = p
    BY <1>1 DEF RecognitionInv, Runs!SentOnce
  <2> QED
    BY <1>2, <2>1 DEF l, c
<1>14. \A p \in Runs!Chunk(s) : handed[r][p] = 0 /\ \E i \in 1..end : l[i] = p
  <2>1. TAKE p \in Runs!Chunk(s)
  <2>2. PICK i \in (c + 1)..end : p = l[i]
    BY <1>9
  <2>3. i \in 1..Len(l) /\ i \in 1..end /\ i \notin 1..c
    BY <1>11
  <2>4. p \in Runs!PagesOf(n)
    BY <1>12
  <2>5. p \notin Runs!SentOf(r, n)
    <3>1. SUFFICES ASSUME p \in Runs!SentOf(r, n) PROVE FALSE
      OBVIOUS
    <3>2. PICK j \in 1..c : l[j] = p
      BY <1>13, <3>1
    <3>3. j \in 1..Len(l) /\ j # i
      BY <1>4, <1>7, <2>3
    <3> QED
      BY <1>6, <1>7, <2>2, <2>3, <3>2, <3>3 DEF Runs!IsInjective
  <2>6. handed[r][p] \in Nat
    <3>1. p \in Runs!AnyPage
      BY <1>1, <2>4 DEF Runs!AnyPage
    <3> QED
      BY <1>1, <3>1 DEF RecognitionInv, Runs!TypeOK
  <2>7. handed[r][p] = 0
    BY <2>4, <2>5, <2>6 DEF Runs!SentOf
  <2> QED
    BY <2>2, <2>3, <2>7
<1>15. IsFiniteSet(Runs!Chunk(s)) /\ Cardinality(Runs!Chunk(s)) = end - c
  <2>1. Runs!Chunk(s) = Stretch(l, c, end)
    BY <1>9 DEF Stretch
  <2> QED
    BY <1>4, <1>6, <1>8, <2>1, StretchIs
<1>16. IsFiniteSet(Runs!SentOf(r, n))
  <2>1. IsFiniteSet(Stretch(l, 0, c))
    BY <1>4, <1>6, StretchIs
  <2>2. Runs!SentOf(r, n) \subseteq Stretch(l, 0, c)
    BY <1>13 DEF Stretch
  <2> QED
    BY <2>1, <2>2, FS_Subset
<1> QED
  BY <1>1, <1>2, <1>4, <1>8, <1>12, <1>14, <1>15, <1>16 DEF s, r, n, l, c, end

\* A chunk is sent: its pages' jobs, their counts and the cursor in one transaction.
LEMMA RunsDispatched ==
  ASSUME Runs!RunsAssumption, RecognitionInv, NEW w \in Stepper, Runs!Dispatch(w)
  PROVE  RecognitionInv'
<1> DEFINE s == step[w]
           r == s.run
           n == s.notebook
           c == s.was.cursor
           l == s.was.pages
           end == Runs!ChunkEnd(s)
           Q == Runs!Queued(s)
           C == Runs!Chunk(s)
           row == Runs!Dispatched(s)
           new(p) == Runs!Request(p, s.run)
           next == IF Runs!Refused(s.notebook) THEN "excluded"
                   ELSE IF Runs!ChunkEnd(s) = Len(s.read) THEN "queued" ELSE "ready"
           Sent2(q, m) == {p \in Runs!PagesOf(m) : handed'[q][p] > 0}
           counts == [p \in Runs!AnyPage |-> handed[s.run][p] + (IF p \in Runs!Queued(s) THEN 1 ELSE 0)]
<1>1. /\ s # Runs!Idle /\ s.phase = "queued" /\ s.read = s.was.pages /\ ~Runs!Fenced(w)
      /\ Runs!Room(Q)
      /\ Runs!Release(s.run)
      /\ entry' = [entry EXCEPT ![s.run][s.notebook] = row]
      /\ jobs' = [p \in Runs!AnyPage |-> IF p \in Q THEN new(p) ELSE jobs[p]]
      /\ step' = [step EXCEPT ![w] = Runs!Idle]
      /\ UNCHANGED <<list, barred, resumed, touches>>
  BY DEF Runs!Dispatch
<1>2. handed' = [handed EXCEPT ![s.run] = counts]
  BY DEF Runs!Dispatch
<1>3. /\ r \in Run /\ n \in Volume /\ s.was \in Runs!Entry
      /\ s.was = entry[r][n] /\ run[r].state = "queued"
      /\ c \in Nat /\ end \in Nat /\ c <= end /\ end <= Len(l)
      /\ C \subseteq Runs!PagesOf(n)
      /\ \A p \in C : handed[r][p] = 0 /\ \E i \in 1..end : l[i] = p
      /\ IsFiniteSet(C) /\ Cardinality(C) = end - c
      /\ IsFiniteSet(Runs!SentOf(r, n))
  <2> HIDE <1>2
  <2> QED
    BY <1>1, ChunkIs
<1>4. Q \subseteq C /\ \A p \in Q : Runs!Requestable(p)
  BY DEF Runs!Queued
<1>5. IsFiniteSet(Q) /\ Cardinality(Q) \in Nat /\ Cardinality(Q) <= Cardinality(C)
      /\ Cardinality(C) \in Nat
  <2> HIDE DEF Q, C
  <2>1. IsFiniteSet(C)
    BY <1>3
  <2>2. IsFiniteSet(Q) /\ Cardinality(Q) <= Cardinality(C)
    BY <1>4, <2>1, FS_Subset
  <2> QED
    BY <2>1, <2>2, FS_CardinalityType
<1>6. next \in {"excluded", "queued", "ready"}
  OBVIOUS
<1>7. row = [s.was EXCEPT !.queued = s.was.queued + Cardinality(Q),
                          !.skipped = s.was.skipped + Cardinality(C) - Cardinality(Q),
                          !.cursor = end, !.state = next]
  BY CardinalityIs DEF Runs!Dispatched
<1>8. /\ row \in Runs!Entry /\ row.pages = l /\ row.cursor = end
      /\ row.queued = s.was.queued + Cardinality(Q)
      /\ row.skipped = s.was.skipped + Cardinality(C) - Cardinality(Q)
  <2> DEFINE qs == s.was.queued + Cardinality(Q)
             ks == s.was.skipped + Cardinality(C) - Cardinality(Q)
  <2>1. s.was.queued \in Nat /\ s.was.skipped \in Nat
    BY <1>3 DEF Runs!Entry
  <2>2. qs \in Nat /\ ks \in Nat
    <3> HIDE DEF s, Q, C
    <3> QED
      BY <1>5, <2>1
  <2>3. s.was \in Runs!Entry /\ end \in Nat
    BY <1>3
  <2>4. row = [s.was EXCEPT !.queued = qs, !.skipped = ks, !.cursor = end, !.state = next]
    BY <1>7
  <2> HIDE DEF s, Q, C, qs, ks, row, next, end
  <2>5. /\ row \in Runs!Entry /\ row.pages = s.was.pages /\ row.cursor = end
        /\ row.queued = qs /\ row.skipped = ks
    BY ONLY <1>6, <2>2, <2>3, <2>4 DEF Runs!Entry
  <2> QED
    BY <2>5 DEF qs, ks, l
<1>9. row.pages \in Lists[n] \cup {<<>>}
  <2>1. l = entry[r][n].pages
    BY <1>3
  <2>2. entry[r][n].pages \in Lists[n] \cup {<<>>}
    <3> HIDE DEF r, n
    <3> QED
      BY <1>3, EntryIs
  <2> QED
    BY <1>8, <2>1, <2>2
<1> HIDE DEF row, c, l, end, Q, C, counts, new, next
<1>10. /\ run' \in [Run -> Runs!RunState]
       /\ \A q \in Run : run'[q].state = run[q].state
       /\ entry' \in [Run -> [Volume -> Runs!Entry]]
       /\ \A q \in Run, m \in Volume :
            /\ entry'[q][m].pages \in Lists[m] \cup {<<>>}
            /\ entry'[q][m] = IF q = r /\ m = n THEN row ELSE entry[q][m]
       /\ step' \in [Stepper -> {Runs!Idle} \cup Runs!Stepping]
       /\ \A v \in Stepper : step'[v] # Runs!Idle =>
            step'[v].read \in Lists[step'[v].notebook]
                                \cup {Runs!NotRead, Runs!Deleted, Runs!Unreadable}
       /\ StepHeld'
  <2> HIDE <1>2
  <2>1. /\ step[w] # Runs!Idle /\ ~Runs!Fenced(w) /\ Runs!Release(step[w].run)
        /\ row \in Runs!Entry /\ row.pages \in Lists[step[w].notebook] \cup {<<>>}
        /\ entry' = [entry EXCEPT ![step[w].run][step[w].notebook] = row]
        /\ step' = [step EXCEPT ![w] = Runs!Idle]
    BY <1>1, <1>8, <1>9
  <2> QED
    BY <2>1, Settles
<1> HIDE DEF s, r, n
<1>11. /\ handed' \in [Run -> [Runs!AnyPage -> Nat]]
       /\ \A q \in Run, p \in Runs!AnyPage :
            handed'[q][p] = IF q = r /\ p \in Q THEN handed[q][p] + 1 ELSE handed[q][p]
  <2>1. handed \in [Run -> [Runs!AnyPage -> Nat]]
    BY DEF RecognitionInv, Runs!TypeOK
  <2>2. /\ counts \in [Runs!AnyPage -> Nat]
        /\ \A p \in Runs!AnyPage : counts[p] = IF p \in Q THEN handed[r][p] + 1 ELSE handed[r][p]
    <3>1. handed[r] \in [Runs!AnyPage -> Nat]
      BY <1>3, <2>1
    <3>2. \A p \in Runs!AnyPage : handed[r][p] \in Nat
      BY <3>1
    <3> QED
      BY <3>2 DEF counts, Q, r
  <2>3. handed' = [handed EXCEPT ![r] = counts]
    BY <1>2 DEF r
  <2> QED
    BY <1>3, <2>1, <2>2, <2>3
<1>12. \A m \in Volume : Runs!PagesOf(m) \subseteq Runs!AnyPage
  BY DEF Runs!AnyPage
<1>13. Q \subseteq Runs!AnyPage /\ Q \subseteq Runs!PagesOf(n)
  BY <1>3, <1>4, <1>12
<1>14. \A m \in Volume : m # n => \A p \in Runs!PagesOf(m) : p \notin Q
  BY <1>3, <1>13 DEF Runs!RunsAssumption
<1>15. \A p \in Q : handed[r][p] = 0 /\ \E i \in 1..end : l[i] = p
  BY <1>3, <1>4
<1>16. \A q \in Run, m \in Volume : q # r \/ m # n => Runs!SentOf(q, m)' = Runs!SentOf(q, m)
  <2>1. SUFFICES ASSUME NEW q \in Run, NEW m \in Volume, q # r \/ m # n
                 PROVE  {p \in Runs!PagesOf(m) : handed'[q][p] > 0} = Runs!SentOf(q, m)
    BY DEF Runs!SentOf
  <2>2. \A p \in Runs!PagesOf(m) : handed'[q][p] = handed[q][p]
    BY <1>11, <1>12, <1>14, <2>1
  <2> QED
    BY <2>2 DEF Runs!SentOf
<1>17. /\ Sent2(r, n) = Runs!SentOf(r, n) \cup Q
       /\ Runs!SentOf(r, n) \cap Q = {}
  <2>1. Sent2(r, n) = Runs!SentOf(r, n) \cup Q
    <3>1. \A p \in Q : p \in Runs!PagesOf(n) /\ handed'[r][p] > 0
      BY <1>3, <1>11, <1>13, <1>15
    <3>2. \A p \in Runs!PagesOf(n) \ Q : handed'[r][p] = handed[r][p]
      BY <1>3, <1>11, <1>12
    <3>3. \A p \in Runs!SentOf(r, n) : p \notin Q
      BY <1>15 DEF Runs!SentOf
    <3> QED
      BY <3>1, <3>2, <3>3 DEF Runs!SentOf
  <2>2. Runs!SentOf(r, n) \cap Q = {}
    BY <1>15 DEF Runs!SentOf
  <2> QED
    BY <2>1, <2>2
<1>0. \A q \in Run, m \in Volume : Runs!SentOf(q, m)' = Sent2(q, m)
  BY DEF Runs!SentOf
<1> HIDE DEF Sent2
<1>18. \A p \in Q : /\ new(p) \in Seq(Runs!Job) /\ Len(new(p)) = Len(jobs[p]) + 1
                    /\ Len(new(p)) <= MaxJobs
                    /\ LastJob(new(p)).batch = r
                    /\ \A q \in Run : Batched(new(p), q)
                         = IF q = r THEN Batched(jobs[p], q) \cup {Len(jobs[p]) + 1}
                           ELSE Batched(jobs[p], q)
  <2>1. TAKE p \in Q
  <2>2. p \in Runs!AnyPage /\ Runs!Requestable(p) /\ Len(jobs[p]) < MaxJobs
    BY <1>1, <1>4, <1>13 DEF Runs!Room
  <2>3. jobs[p] \in Seq(Runs!Job) /\ Len(jobs[p]) \in Nat
    BY <2>2, PageJobs
  <2>4. new(p) = Runs!Request(p, r) /\ r \in Run \cup {Runs!NoBatch}
    BY <1>3 DEF new, r
  <2>5. /\ new(p) \in Seq(Runs!Job) /\ Len(new(p)) = Len(jobs[p]) + 1
        /\ LastJob(new(p)).batch = r
        /\ \A q \in Run : Batched(new(p), q)
             = IF q = r THEN Batched(jobs[p], q) \cup {Len(jobs[p]) + 1} ELSE Batched(jobs[p], q)
    BY <2>2, <2>3, <2>4, RequestIs
  <2>6. MaxJobs \in Nat
    BY DEF Runs!RunsAssumption
  <2> QED
    BY <2>2, <2>3, <2>5, <2>6
<1>19. \A p \in Runs!AnyPage : jobs'[p] = IF p \in Q THEN new(p) ELSE jobs[p]
  BY <1>1
<1>20. Runs!TypeOK'
  <2>1. jobs' \in [Runs!AnyPage -> Seq(Runs!Job)]
    BY <1>1, <1>18 DEF RecognitionInv, Runs!TypeOK
  <2>2. \A p \in Runs!AnyPage : Len(jobs'[p]) <= MaxJobs
    BY <1>18, <1>19, PageJobs
  <2> QED
    BY <1>1, <1>10, <1>11, <2>1, <2>2 DEF RecognitionInv, Runs!TypeOK
<1>21. ListsKept'
  BY <1>1, <1>10 DEF RecognitionInv, ListsKept
<1>22. CursorRight'
  <2>1. SUFFICES ASSUME NEW q \in Run, NEW m \in Volume
                 PROVE  /\ entry'[q][m].cursor <= Len(entry'[q][m].pages)
                        /\ run'[q].state \in {"absent", "preparing", "review"} =>
                             /\ entry'[q][m].cursor = 0 /\ entry'[q][m].queued = 0
                             /\ entry'[q][m].skipped = 0
    BY DEF CursorRight
  <2>2. CASE q = r /\ m = n
    BY <1>3, <1>8, <1>10, <2>2
  <2>3. CASE ~(q = r /\ m = n)
    <3>1. entry'[q][m] = entry[q][m] /\ run'[q].state = run[q].state
      BY <1>10, <2>3
    <3> QED
      BY <3>1 DEF RecognitionInv, CursorRight
  <2> QED
    BY <2>2, <2>3
<1>23. Runs!SentOnce'
  <2>1. SUFFICES ASSUME NEW q \in Run, NEW m \in Volume, NEW p \in Runs!SentOf(q, m)'
                 PROVE  handed'[q][p] = 1
                        /\ \E i \in 1..entry'[q][m].cursor : entry'[q][m].pages[i] = p
    BY DEF Runs!SentOnce
  <2>2. p \in Runs!AnyPage /\ p \in Runs!PagesOf(m)
    BY <1>12 DEF Runs!SentOf
  <2>3. CASE q = r /\ m = n
    <3>1. entry'[q][m].cursor = end /\ entry'[q][m].pages = l
      BY <1>8, <1>10, <2>3
    <3>2. CASE p \in Q
      BY <1>11, <1>15, <2>2, <2>3, <3>1, <3>2
    <3>3. CASE p \notin Q
      <4>1. p \in Runs!SentOf(r, n)
        BY <1>0, <1>17, <2>1, <2>3, <3>3
      <4>2. handed[r][p] = 1 /\ \E i \in 1..entry[r][n].cursor : entry[r][n].pages[i] = p
        BY <1>3, <4>1 DEF RecognitionInv, Runs!SentOnce
      <4>3. PICK i \in 1..c : l[i] = p
        BY <1>3, <4>2 DEF c, l
      <4>4. i \in 1..end
        BY <1>3
      <4> QED
        BY <1>11, <2>2, <2>3, <3>1, <3>3, <4>2, <4>3, <4>4
    <3> QED
      BY <3>2, <3>3
  <2>4. CASE q # r \/ m # n
    <3>1. p \in Runs!SentOf(q, m) /\ entry'[q][m] = entry[q][m]
      BY <1>10, <1>16, <2>1, <2>4
    <3>2. handed'[q][p] = handed[q][p]
      BY <1>11, <1>14, <2>2, <2>4
    <3>3. /\ handed[q][p] = 1
          /\ \E i \in 1..entry[q][m].cursor : entry[q][m].pages[i] = p
      BY <3>1 DEF RecognitionInv, Runs!SentOnce
    <3> QED
      BY ONLY <3>1, <3>2, <3>3
  <2> QED
    BY <2>3, <2>4
<1>24. EntriesCounted'
  <2>1. SUFFICES ASSUME NEW q \in Run, NEW m \in Volume
                 PROVE  /\ entry'[q][m].queued = Cardinality(Runs!SentOf(q, m)')
                        /\ entry'[q][m].cursor = entry'[q][m].queued + entry'[q][m].skipped
    BY DEF EntriesCounted
  <2> HIDE DEF EntriesCounted
  <2>2. \A x \in Run, y \in Volume :
          /\ entry[x][y].queued = Cardinality(Runs!SentOf(x, y))
          /\ entry[x][y].cursor = entry[x][y].queued + entry[x][y].skipped
    BY DEF RecognitionInv, EntriesCounted
  <2>3. CASE q = r /\ m = n
    <3>1. Cardinality(Runs!SentOf(r, n) \cup Q)
            = Cardinality(Runs!SentOf(r, n)) + Cardinality(Q)
      <4>1. Cardinality({}) = 0
        BY FS_EmptySet
      <4>2. Cardinality(Runs!SentOf(r, n) \cup Q)
              = Cardinality(Runs!SentOf(r, n)) + Cardinality(Q)
                  - Cardinality(Runs!SentOf(r, n) \cap Q)
        BY <1>3, <1>5, FS_Union
      <4>3. Cardinality(Runs!SentOf(r, n)) \in Nat
        BY <1>3, FS_CardinalityType
      <4> QED
        <5>1. Cardinality(Runs!SentOf(r, n) \cap Q) = 0
          BY <1>17, <4>1
        <5>2. Cardinality(Q) \in Nat
          BY <1>5
        <5> QED
          BY <4>2, <4>3, <5>1, <5>2
    <3>2. /\ entry[r][n].queued = Cardinality(Runs!SentOf(r, n))
          /\ entry[r][n].cursor = entry[r][n].queued + entry[r][n].skipped
      BY <1>3, <2>2
    <3>3. entry'[q][m] = row
      BY <1>10, <2>3
    <3>4. row.queued = entry[r][n].queued + Cardinality(Q)
          /\ row.skipped = entry[r][n].skipped + Cardinality(C) - Cardinality(Q)
          /\ row.cursor = end
      BY <1>3, <1>8
    <3>5. end = entry[r][n].cursor + Cardinality(C)
      BY <1>3, <1>5 DEF c
    <3>6. entry[r][n].queued \in Nat /\ entry[r][n].skipped \in Nat
      BY <1>3 DEF Runs!Entry
    <3>7. row.queued = Cardinality(Runs!SentOf(r, n) \cup Q)
      BY <3>1, <3>2, <3>4
    <3>8. row.cursor = row.queued + row.skipped
      BY <1>5, <3>2, <3>4, <3>5, <3>6
    <3> QED
      BY <1>0, <1>17, <2>3, <3>3, <3>7, <3>8
  <2>4. CASE q # r \/ m # n
    <3>1. entry'[q][m] = entry[q][m] /\ Runs!SentOf(q, m)' = Runs!SentOf(q, m)
      BY <1>10, <1>16, <2>4
    <3> QED
      BY <2>2, <3>1
  <2> QED
    BY <2>3, <2>4
<1>25. JobsCounted'
  <2>1. SUFFICES ASSUME NEW q \in Run, NEW p \in Runs!AnyPage
                 PROVE  Cardinality(Batched(jobs'[p], q)) = handed'[q][p]
    BY DEF JobsCounted
  <2>2. Cardinality(Batched(jobs[p], q)) = handed[q][p]
    BY DEF RecognitionInv, JobsCounted
  <2>3. CASE q = r /\ p \in Q
    <3>1. Batched(jobs'[p], q) = Batched(jobs[p], q) \cup {Len(jobs[p]) + 1}
      BY <1>18, <1>19, <2>3
    <3>2. IsFiniteSet(Batched(jobs[p], q)) /\ Len(jobs[p]) + 1 \notin Batched(jobs[p], q)
      BY PageJobs, JobsAre
    <3>3. Cardinality(Batched(jobs[p], q) \cup {Len(jobs[p]) + 1}) = handed[q][p] + 1
      BY <2>2, <3>2, FS_AddElement
    <3> QED
      BY <1>11, <2>3, <3>1, <3>3
  <2>4. CASE q # r \/ p \notin Q
    <3>1. Batched(jobs'[p], q) = Batched(jobs[p], q)
      BY <1>18, <1>19, <2>4
    <3>2. handed'[q][p] = handed[q][p]
      BY <1>11, <2>4
    <3> QED
      BY <2>2, <3>1, <3>2
  <2> QED
    BY <2>3, <2>4
<1>26. StoppedQuiet'
  <2>1. SUFFICES ASSUME NEW q \in Run, run'[q].state \in {"paused", "cancelled"},
                        NEW p \in Runs!AnyPage, Waits(jobs'[p], q)
                 PROVE  <<p, Len(jobs'[p])>> \in resumed'
    BY DEF StoppedQuiet
  <2>2. run[q].state \in {"paused", "cancelled"} /\ q # r
    BY <1>3, <1>10, <2>1
  <2>3. p \notin Q
    BY <1>18, <1>19, <2>1, <2>2 DEF Waits
  <2>4. jobs'[p] = jobs[p] /\ resumed' = resumed
    BY <1>1, <1>19, <2>3
  <2> QED
    BY <2>1, <2>2, <2>4 DEF RecognitionInv, StoppedQuiet
<1> QED
  BY <1>10, <1>20, <1>21, <1>22, <1>23, <1>24, <1>25, <1>26 DEF RecognitionInv

\* Nothing a run keeps moves.
LEMMA RunsStutter ==
  ASSUME RecognitionInv, UNCHANGED Runs!lvars
  PROVE  RecognitionInv'
<1>1. /\ list' = list /\ barred' = barred /\ jobs' = jobs /\ run' = run /\ entry' = entry
      /\ step' = step /\ handed' = handed /\ resumed' = resumed /\ touches' = touches
  BY DEF Runs!lvars
<1>2. Runs!TypeOK'
  BY <1>1 DEF RecognitionInv, Runs!TypeOK
<1>3. ListsKept' /\ CursorRight' /\ StepHeld'
  BY <1>1 DEF RecognitionInv, ListsKept, CursorRight, StepHeld
<1>4. Runs!SentOnce'
  BY <1>1 DEF RecognitionInv, Runs!SentOnce, Runs!SentOf
<1>5. EntriesCounted'
  <2>1. \A r \in Run, n \in Volume : Runs!SentOf(r, n)' = Runs!SentOf(r, n)
    BY <1>1 DEF Runs!SentOf
  <2> QED
    BY <1>1, <2>1 DEF RecognitionInv, EntriesCounted
<1>6. JobsCounted' /\ StoppedQuiet'
  BY <1>1 DEF RecognitionInv, JobsCounted, StoppedQuiet
<1> QED
  BY <1>2, <1>3, <1>4, <1>5, <1>6 DEF RecognitionInv

\* Each step of a run keeps the invariant.
LEMMA RunsNext ==
  ASSUME Runs!RunsAssumption, RecognitionInv, Runs!Next
  PROVE  RecognitionInv'
<1>1. ASSUME NEW r \in Run, Runs!CreateRun(r) \/ Runs!LeaseLapses(r) \/ Runs!PrepareAgain(r)
      PROVE  RecognitionInv'
  BY <1>1, RunsCreated, RunsLeaseLapsed, RunsPreparedAgain
<1>2. ASSUME NEW r \in Run, NEW excluded \in SUBSET Volume, Runs!ApproveRun(r, excluded)
      PROVE  RecognitionInv'
  BY <1>2, RunsApproved
<1>3. ASSUME NEW r \in Run, NEW order \in {"pause", "resume", "cancel", "retry"},
             Runs!ControlRun(r, order)
      PROVE  RecognitionInv'
  BY <1>3, RunsControlled
<1>4. ASSUME NEW w \in Stepper,
             \/ Runs!Claim(w) \/ Runs!ReadCatalog(w) \/ Runs!Dropped(w) \/ Runs!Prepare(w)
             \/ Runs!Dispatch(w) \/ Runs!Withdraw(w) \/ Runs!Fail(w)
      PROVE  RecognitionInv'
  BY <1>4, RunsClaimed, RunsCatalogRead, RunsStepLost, RunsNotebookPrepared, RunsDispatched,
     RunsWithdrawn
<1>5. ASSUME Runs!Prepared PROVE RecognitionInv'
  BY <1>5, RunsPrepared
<1>6. ASSUME NEW n \in Volume, NEW order \in Controls, NEW S \in SUBSET Runs!PagesOf(n),
             Runs!ControlJobs(n, S, order)
      PROVE  RecognitionInv'
  BY <1>6, RunsJobsControlled
<1>7. ASSUME NEW p \in Runs!AnyPage, Runs!QueuePage(p) \/ Runs!Recognize(p)
      PROVE  RecognitionInv'
  BY <1>7, RunsPageQueued, RunsRecognized
<1>8. ASSUME NEW n \in Volume, Runs!EditNotebook(n) PROVE RecognitionInv'
  BY <1>8, RunsNotebookEdited
<1>9. ASSUME NEW n \in Volume, NEW how \in {"no", "skip", "large"}, Runs!Bar(n, how)
      PROVE  RecognitionInv'
  BY <1>9, RunsBarred
<1> HIDE DEF RecognitionInv
<1> QED
  BY <1>1, <1>2, <1>3, <1>4, <1>5, <1>6, <1>7, <1>8, <1>9 DEF Runs!Next, Controls

\* The inductive invariant says what the run checks.
LEMMA RecognitionIsSound ==
  ASSUME Runs!RunsAssumption, RecognitionInv
  PROVE  RunSound
<1>1. Runs!TypeOK /\ Runs!SentOnce
  BY DEF RecognitionInv
<1>2. Runs!ProgressRight
  <2>1. \A r \in Run, n \in Volume :
          /\ entry[r][n].queued = Runs!Cardinality(Runs!SentOf(r, n))
          /\ entry[r][n].cursor = entry[r][n].queued + entry[r][n].skipped
    BY CardinalityIs DEF RecognitionInv, EntriesCounted
  <2>2. ASSUME NEW r \in Run, NEW n \in Volume, NEW p \in Runs!PagesOf(n)
        PROVE  Runs!Cardinality({i \in DOMAIN jobs[p] : jobs[p][i].batch = r}) = handed[r][p]
    <3>1. p \in Runs!AnyPage
      BY DEF Runs!AnyPage
    <3>2. Cardinality(Batched(jobs[p], r)) = handed[r][p]
      BY <3>1 DEF RecognitionInv, JobsCounted
    <3>3. {i \in DOMAIN jobs[p] : jobs[p][i].batch = r} = Batched(jobs[p], r)
      BY DEF Batched
    <3> QED
      BY <3>2, <3>3, CardinalityIs
  <2> QED
    BY <2>1, <2>2 DEF Runs!ProgressRight
<1>3. Runs!HeldRun
  <2>1. SUFFICES ASSUME NEW r \in Run, run[r].state \in {"paused", "cancelled"},
                        NEW p \in Runs!AnyPage, Runs!InBatch(p, r),
                        <<p, Len(jobs[p])>> \notin resumed, Runs!StateOf(p) = "queued"
                 PROVE  FALSE
    BY DEF Runs!HeldRun
  <2>2. Waits(jobs[p], r)
    BY <2>1 DEF Waits, Runs!InBatch, Runs!StateOf, LastJob
  <2> QED
    BY <2>1, <2>2 DEF RecognitionInv, StoppedQuiet
<1> QED
  BY <1>1, <1>2, <1>3 DEF RunSound

\* For every number of runs, workers, notebooks and pages, however a run's lease lapses and
\* its owner pauses, resumes or cancels it: a run sends each page the owner reviewed at
\* most once (StepRun, recognition/runs.go:95-256), its counts are of the pages it sent,
\* and while it is stopped no page of it waits but those set going by themselves
\* (ControlRun, runs.go:416-498).
THEOREM RunsStaySound == Runs!Spec => []RunSound
<1>1. Runs!RunsAssumption
  BY RecognitionAssumption DEF RecognitionAssumption
<1>2. Runs!Init => RecognitionInv
  BY <1>1, RunsInit
<1>3. RecognitionInv /\ [Runs!Next]_(Runs!lvars) => RecognitionInv'
  BY <1>1, RunsNext, RunsStutter
<1>4. RecognitionInv => RunSound
  BY <1>1, RecognitionIsSound
<1> QED
  BY <1>2, <1>3, <1>4, PTL DEF Runs!Spec
=============================================================================
