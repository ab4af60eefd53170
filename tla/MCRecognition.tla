----------------------------- MODULE MCRecognition -----------------------------
(* The recognition queue, runs of recognition over the library, and the     *)
(* minutes of recordings, side by side.  The parts share no row: a behaviour *)
(* moves one of them, each on variables of its own.                         *)
EXTENDS MCPageIndex, RecognitionParts

CONSTANTS w1, w2, nobody, nothing, e1, h1, m1

VARIABLE part  \* the part that moves

RunsVars == <<list, barred, jobs, run, entry, step, handed, resumed, touches>>
MinuteVars == <<audio, sheet, voice, trans, min, desk, ask, retrying, sent, asked, turns>>

\* One notebook of two pages, the first of which may be removed.
ShrinkingList == <<{<<"p", "q">>, <<"q">>}>>

\* One recording.
OneRecording == <<1>>

AllInit ==
  /\ part \in {"index", "runs", "minutes"} /\ Init /\ Runs!Init /\ Minute!Init
  /\ part # "index" => /\ src = CHOOSE v \in Drawn : v.status = "live"
                       /\ policy.limit = CHOOSE limit \in Limits : TRUE
  /\ part # "runs" => list = <<<<"p", "q">>>>
  /\ part # "minutes" => audio = [r \in {1} |-> nothing]

AllNext ==
  \/ part = "index" /\ Next /\ UNCHANGED <<part, RunsVars, MinuteVars>>
  \/ part = "runs" /\ Runs!Next /\ UNCHANGED <<part, vars, MinuteVars>>
  \/ part = "minutes" /\ Minute!Next /\ UNCHANGED <<part, vars, RunsVars>>
  \/ part # "index" /\ UNCHANGED <<part, vars, RunsVars, MinuteVars>>  \* their bounds stop them

AllSpec == AllInit /\ [][AllNext]_<<part, vars, RunsVars, MinuteVars>> /\ Fairness
===============================================================================
