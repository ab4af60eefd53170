------------------------------- MODULE TaskSync -------------------------------
(* Tasks and the CalDAV clients that follow them                            *)
(* (internal/alexandria/taskdb, caldav/synccollection.go, tasksvc).  Every  *)
(* write stamps its row with milliseconds, never below the row's last stamp *)
(* plus one, under a lock of its task; the stamp is taken before the        *)
(* transaction commits.  A client's sync token is a stamp: sync-collection  *)
(* reads the floor, the rows written since and the collection's maximum in  *)
(* three statements, and a clean-up of old tombstones raises the floor      *)
(* after it committed.                                                      *)
EXTENDS Naturals, FiniteSets, FiniteSetsExt

CONSTANTS
  Task,
  Sizes,        \* DAV:limit values a client sends; 0: none
  MaxClock,     \* bound: milliseconds that pass
  MaxWrites     \* bound: committed writes

TaskAssumption ==
  /\ Task # {} /\ Sizes \subseteq Nat
  /\ MaxClock \in Nat \ {0} /\ MaxWrites \in Nat

VARIABLES
  clock,
  task,         \* alexandria_tasks: state, created_at, updated_at, content
  ledger,       \* alexandria_task_purged
  floor,        \* the sync floor; 0: none
  txns,         \* transactions that hold their tasks' locks and took a stamp
  raising,      \* the cutoff a clean-up committed and has not recorded yet; 0: none
  token,        \* the client's sync token; NoToken: it starts over
  copy,         \* the client's content of each task; Nothing: it has none
  report,       \* the client's sync-collection request
  late,         \* history: last written below the client's token, or while an
                \* answer that moved the token was being read
  cut,          \* history: left out by a limited first answer
  writes

tvars == <<clock, task, ledger, floor, txns, raising, token, copy, report,
           late, cut, writes>>

NoToken == MaxClock + MaxWrites + 1
Stamps == 0..(MaxClock + MaxWrites)
Nothing == MaxWrites + 1
NoTask == [state |-> "none", created |-> 0, updated |-> 0, content |-> 0]
Idle == [step |-> "idle", rows |-> {}, seen |-> [t \in Task |-> NoTask], raced |-> {}]
Kinds == {"create", "update", "delete", "clear", "restore", "purge"}

Live(t) == task[t].state = "live"
Trashed(t) == task[t].state = "trash"
\* What a client that missed nothing has of the task.
Shown(t) == IF Live(t) THEN task[t].content ELSE Nothing

Init ==
  /\ clock = 1
  /\ task = [t \in Task |-> NoTask] /\ ledger = {} /\ floor = 0
  /\ txns = {} /\ raising = 0
  /\ token = NoToken /\ copy = [t \in Task |-> Nothing] /\ report = Idle
  /\ late = {} /\ cut = {}
  /\ writes = 0

Tick ==
  /\ clock < MaxClock /\ clock' = clock + 1
  /\ UNCHANGED <<task, ledger, floor, txns, raising, token, copy, report,
                 late, cut, writes>>

-----------------------------------------------------------------------------
(* Writes.                                                                  *)

Locked(t) == \E x \in txns : t \in x.on

\* The rows a write changes: the conditions of its statements and checkLive.
Applies(kind, t) ==
  CASE kind = "create"  -> task[t] = NoTask /\ t \notin ledger
    [] kind = "update"  -> Live(t)
    [] kind = "delete"  -> task[t] # NoTask
    [] kind = "clear"   -> Live(t)
    [] kind = "restore" -> Trashed(t) /\ t \notin ledger
    [] kind = "purge"   -> Trashed(t) /\ t \notin ledger

\* lockTasks and the reading of the time.  Clearing the completed tasks and
\* emptying the trash take several tasks under one stamp.
Begin ==
  \E kind \in Kinds, on \in (SUBSET Task) \ {{}} :
    /\ writes + Cardinality(txns) < MaxWrites
    /\ kind \in {"clear", "purge"} \/ Cardinality(on) = 1
    /\ \A t \in on : Applies(kind, t) /\ ~Locked(t)
    /\ txns' = txns \cup {[kind |-> kind, on |-> on, now |-> clock]}
    /\ UNCHANGED <<clock, task, ledger, floor, raising, token, copy, report,
                   late, cut, writes>>

Written(x, t) ==
  [state   |-> IF x.kind \in {"delete", "clear", "purge"} THEN "trash" ELSE "live",
   created |-> IF x.kind = "create" THEN x.now ELSE task[t].created,
   updated |-> IF x.kind = "create" THEN x.now
               ELSE Max({x.now, task[t].updated + 1}),
   content |-> IF x.kind \in {"create", "update"} THEN writes + 1
               ELSE task[t].content]

\* A request being answered remembers what changed since its first read: its
\* answer may leave that out and still move the token past it.
Raced(on) ==
  report' = [report EXCEPT !.raced = IF report.step = "idle" THEN {} ELSE @ \cup on]

Commit ==
  \E x \in txns :
    /\ txns' = txns \ {x} /\ writes' = writes + 1
    /\ task' = [t \in Task |-> IF t \in x.on THEN Written(x, t) ELSE task[t]]
    /\ ledger' = IF x.kind = "purge" THEN ledger \cup x.on ELSE ledger
    /\ late' = (late \ x.on) \cup
         {t \in x.on : token # NoToken /\ Written(x, t).updated < token}
    /\ cut' = cut \ x.on
    /\ Raced(x.on)
    /\ UNCHANGED <<clock, floor, raising, token, copy>>

\* HardDeleteOlderThan: the rows go, their names stay; at REPEATABLE READ it is
\* one step, with every row of the trash locked.
HardDelete ==
  \E cutoff \in 1..(clock - 1) :
    LET old == {t \in Task : Trashed(t) /\ task[t].updated < cutoff} IN
    /\ raising = 0 /\ old # {}
    /\ \A t \in Task : Trashed(t) => ~Locked(t)
    /\ task' = [t \in Task |-> IF t \in old THEN NoTask ELSE task[t]]
    /\ ledger' = ledger \cup old
    /\ raising' = cutoff
    /\ Raced(old)
    /\ UNCHANGED <<clock, floor, txns, token, copy, late, cut, writes>>

\* raiseSyncFloor keeps the highest cutoff.
RaiseFloor ==
  /\ raising # 0
  /\ floor' = Max({floor, raising})
  /\ raising' = 0
  /\ UNCHANGED <<clock, task, ledger, txns, token, copy, report, late, cut, writes>>
\* The server dies, or the database refuses, before the floor is recorded.
FloorLost ==
  /\ raising # 0
  /\ raising' = 0
  /\ late' = late \cup {t \in ledger : task[t] = NoTask}
  /\ UNCHANGED <<clock, task, ledger, floor, txns, token, copy, report, cut, writes>>

-----------------------------------------------------------------------------
(* One sync-collection request.                                             *)

\* Removed by a clean-up whose floor is not recorded: no answer can name them.
Unfloored == IF raising = 0 THEN {} ELSE {t \in ledger : task[t] = NoTask}

\* A token below the floor is refused: the client starts over.
CheckFloor ==
  /\ report.step = "idle"
  /\ IF token # NoToken /\ floor > 0 /\ token < floor
     THEN token' = NoToken /\ report' = report
     ELSE token' = token /\ report' = [Idle EXCEPT !.step = "checked", !.raced = Unfloored]
  /\ UNCHANGED <<clock, task, ledger, floor, txns, raising, copy, late, cut, writes>>

\* Fault: the bound excludes the token itself.
ChangedAfter(t) == task[t] # NoTask /\ task[t].updated > token
\* ListChangedSince: at or after the token, tombstones included.
ChangedSince(t) == task[t] # NoTask /\ task[t].updated >= token

\* Changes: the live tasks for a first answer, or what was written since.
ReadChanges ==
  /\ report.step = "checked"
  /\ report' = [report EXCEPT !.step = "read", !.seen = task,
       !.raced = {t \in @ : task[t] = NoTask},
       !.rows = {t \in Task : IF token = NoToken THEN Live(t) ELSE ChangedSince(t)}]
  /\ UNCHANGED <<clock, task, ledger, floor, txns, raising, token, copy, late,
                 cut, writes>>

MaxUpdatedAtAll == Max({task[t].updated : t \in Task})

\* The order of the answer: created_at at first, updated_at afterwards.
SortKey(t) == IF token = NoToken THEN report.seen[t].created ELSE report.seen[t].updated

\* The first n rows of the answer; every order of equal rows is possible.
Prefixes(n) ==
  IF n = 0 \/ Cardinality(report.rows) <= n THEN {report.rows}
  ELSE {s \in kSubset(n, report.rows) :
          \A a \in s, b \in report.rows \ s : SortKey(a) <= SortKey(b)}

\* The next token: the maximum, or the last row's stamp when rows were cut.
NextTokens(sent) ==
  IF sent = report.rows THEN {MaxUpdatedAtAll}
  ELSE {report.seen[t].updated : t \in {u \in sent : \A v \in sent : SortKey(v) <= SortKey(u)}}

\* The answer reaches the client, which applies it and keeps its token.
Answer ==
  /\ report.step = "read"
  /\ \E n \in Sizes : \E sent \in Prefixes(n) : \E next \in NextTokens(sent) :
       /\ token' = next
       /\ copy' = [t \in Task |->
            IF t \in sent /\ report.seen[t].state = "live" THEN report.seen[t].content
            ELSE IF t \in sent \/ token = NoToken THEN Nothing
            ELSE copy[t]]
       /\ late' = (IF token = NoToken THEN {} ELSE late \ sent) \cup report.raced
       /\ cut' = (IF token = NoToken THEN {} ELSE cut) \cup
            {t \in report.rows \ sent : token = NoToken /\ report.seen[t].updated < next}
  /\ report' = Idle
  /\ UNCHANGED <<clock, task, ledger, floor, txns, raising, writes>>

\* The answer is lost: the client asks again with the token it has.
Unanswered ==
  /\ report.step # "idle" /\ report' = Idle
  /\ UNCHANGED <<clock, task, ledger, floor, txns, raising, token, copy, late,
                 cut, writes>>

Next ==
  \/ Tick \/ Begin \/ Commit \/ HardDelete \/ RaiseFloor \/ FloorLost
  \/ CheckFloor \/ ReadChanges \/ Answer \/ Unanswered

Spec == Init /\ [][Next]_tvars

-----------------------------------------------------------------------------
Row == [state : {"none", "live", "trash"}, created : Stamps, updated : Stamps,
        content : 0..MaxWrites]

TypeOK ==
  /\ clock \in 1..MaxClock /\ writes \in 0..MaxWrites
  /\ floor \in 0..MaxClock /\ raising \in 0..MaxClock /\ ledger \subseteq Task
  /\ task \in [Task -> Row]
  /\ \A t \in Task : task[t].created <= task[t].updated /\ (t \in ledger => ~Live(t))
  /\ txns \subseteq [kind : Kinds, on : SUBSET Task, now : 1..clock]
  /\ \A x, y \in txns : x # y => x.on \cap y.on = {}
  /\ token \in Stamps \cup {NoToken} /\ copy \in [Task -> 0..Nothing]
  /\ report \in [step : {"idle", "checked", "read"}, rows : SUBSET Task,
                  seen : [Task -> Row], raced : SUBSET Task]
  /\ late \subseteq Task /\ cut \subseteq Task

\* The next answer brings the task: it was written at or after the token, or
\* the token is refused, or will be when the floor is recorded.
Pending(t) ==
  \/ token = NoToken
  \/ ChangedSince(t)
  \/ token < Max({floor, raising})

\* A client whose copy of a task is not the server's will be told of it at its
\* next request (caldav/synccollection.go:188-237, taskdb ListChangedSince),
\* unless the task's last write was stamped below the token, met the request
\* half way, lost its floor, or was left out by a limited first answer.
NothingSkipped ==
  report.step = "idle" =>
    \A t \in Task : copy[t] # Shown(t) => Pending(t) \/ t \in late \cup cut
===============================================================================
