--------------------------- MODULE RecognitionParts ---------------------------
(***************************************************************************)
(* Parts of the server that keep no row in common with the recognition     *)
(* queue nor with each other, but the jobs they hand to it: runs of         *)
(* recognition over the library, and the minutes of recordings.             *)
(***************************************************************************)
CONSTANTS
  Volume, Lists, Run, Stepper, NoStepper, ChunkSize, MaxJobs, MaxTouches,
  Recording, ByTime, Body, NoBody, Voice, Scribe, NoScribe, Requester, MaxDrafts, MaxRequests,
  MaxTurns

VARIABLES
  list, barred, jobs, run, entry, step, handed, resumed, touches,
  audio, sheet, voice, trans, min, desk, ask, retrying, sent, asked, turns

Runs == INSTANCE LibraryRuns WITH
  Notebook <- Volume, Worker <- Stepper, NoWorker <- NoStepper, MaxAttempts <- MaxJobs,
  MaxEdits <- MaxTouches,
  sent <- handed, edits <- touches
Minute == INSTANCE Minutes WITH
  Identity <- Voice, Worker <- Scribe, NoWorker <- NoScribe, MaxAttempts <- MaxDrafts,
  MaxEdits <- MaxTurns,
  page <- sheet, identity <- voice, work <- desk, changes <- turns

ASSUME RecognitionAssumption == Runs!RunsAssumption /\ Minute!MinutesAssumption

\* A run sends each page the owner reviewed once, its counts are of those pages, and
\* a stopped run has no page waiting (recognition/runs.go:95-256, 416-498).
RunSound == Runs!TypeOK /\ Runs!SentOnce /\ Runs!ProgressRight /\ Runs!HeldRun

\* Minutes that are ready are of the transcripts shown beside them, a request sends
\* one note, and minutes not marked out of date are of the notebook as it is
\* (boox/minutes.go:280-560; minutes_views.go:234-244).
MinutesSound ==
  Minute!TypeOK /\ Minute!MadeFromShown /\ Minute!SentByRequest /\ Minute!FreshOrFlagged
===============================================================================
