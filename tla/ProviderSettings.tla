---------------------------- MODULE ProviderSettings ----------------------------
(***************************************************************************)
(* internal/alexandria/providers/store.go, web/providers.go, boox/auto.go:  *)
(* the row of AI settings, edited from the forms of several browser tabs,    *)
(* and the clock from which notebooks are processed automatically.  A form   *)
(* is checked against the row it showed, then saved in a transaction of its  *)
(* own; a pass of the worker reads the row once and acts on it later.        *)
(***************************************************************************)
EXTENDS Naturals

CONSTANTS
  Tab,         \* pages of the settings open in browsers
  Pass,        \* passes of the page worker, of one or more processes
  Url,         \* addresses of providers
  NoUrl,       \* an empty address, and no saved key
  Deployed,    \* the recognition endpoint of the deployment's defaults
  Scopes,      \* bound: the forms a behaviour has, "alone" for one tab at a time, and
               \* "pass" and "time" when they move
  MaxRevision, \* bound: saves
  MaxClock     \* bound: seconds

VARIABLES
  scope,  \* the scope of this behaviour
  row,    \* alexandria_provider_settings
  since,  \* the automatic_since setting, 0 when unset
  tab,    \* what each tab shows or is about to save
  pass,   \* the locals of AutoProcess
  book,   \* a notebook: its last change, and whether it has an unrecognized page
  clock,
  reset,  \* history: when automatic processing was last turned wholly off or on
  swept,  \* history: a notebook unchanged since that moment was queued
  late    \* history: a pass saved a start it took before that moment

svars == <<scope, row, since, tab, pass, book, clock, reset, swept, late>>

Provider == {"recognition", "summary"}
Form == {"models", "minutes", "automatic"}
Addresses == Url \cup {NoUrl}

\* A key is represented by the address it was typed for.
Endpoint == [url : Addresses, on : BOOLEAN, key : Addresses]
Config == [recognition : Endpoint, summary : Endpoint,
           automatic : [recognize : BOOLEAN, summarize : BOOLEAN], semantic : BOOLEAN]

\* The deployment gives a key for its own endpoint only.
SettingsAssumption ==
  /\ Deployed \in Endpoint /\ Deployed.key \in {NoUrl, Deployed.url}
  /\ MaxRevision \in Nat \ {0} /\ MaxClock \in Nat \ {0}

Closed == [stage |-> "closed"]
Idle == [stage |-> "idle"]

TypeOK ==
  /\ row \in [revision : 1..MaxRevision, config : Config]
  /\ since \in 0..MaxClock /\ reset \in 1..MaxClock
  /\ \A t \in Tab :
       \/ tab[t] = Closed
       \/ tab[t].stage = "shown" /\ tab[t].revision \in 1..MaxRevision
       \/ /\ tab[t].stage = "candidate" /\ tab[t].form \in Form
          /\ tab[t].revision \in 1..MaxRevision /\ tab[t].config \in Config
  /\ \A p \in Pass : pass[p].stage \in {"idle", "loaded", "started", "inserted", "read"}
  /\ book \in [changed : 0..MaxClock, pending : BOOLEAN]
  /\ clock \in 1..MaxClock /\ swept \in BOOLEAN /\ late \in BOOLEAN

\* Ensure: the deployment's defaults seed the row once.
Defaults ==
  [recognition |-> Deployed, summary |-> [url |-> NoUrl, on |-> FALSE, key |-> NoUrl],
   automatic |-> [recognize |-> TRUE, summarize |-> TRUE], semantic |-> FALSE]

Init ==
  /\ scope \in Scopes
  /\ row = [revision |-> 1, config |-> Defaults]
  /\ since = 0 /\ tab = [t \in Tab |-> Closed] /\ pass = [p \in Pass |-> Idle]
  /\ book = [changed |-> 0, pending |-> TRUE]
  /\ clock = 1 /\ reset = 1 /\ swept = FALSE /\ late = FALSE

-----------------------------------------------------------------------------
(* The forms.                                                               *)

Valid(e) == e.on => e.url # NoUrl

\* keyChange: what the form leaves of the saved endpoint e, or nothing when it is refused.
KeyChanges(e, url, on) ==
  {[url |-> url, on |-> on, key |-> url],     \* a key was typed
   [url |-> url, on |-> on, key |-> NoUrl]}   \* the saved key is cleared
  \cup IF e.key # NoUrl /\ url # e.url
       THEN {}                                \* "Re-enter or clear the API key"
       ELSE {[url |-> url, on |-> on, key |-> e.key]}

EndpointEdits(e) ==
  {n \in UNION {KeyChanges(e, url, on) : url \in Addresses, on \in BOOLEAN} : Valid(n)}

\* Candidate: the form of recognition and search does not carry the automatic choices,
\* and what it makes of the row has the default ones.
ModelsForm(c, e, b) ==
  [c EXCEPT !.recognition = e, !.semantic = b, !.automatic = Defaults.automatic]
ModelsCandidates(c) ==
  {ModelsForm(c, e, b) : e \in EndpointEdits(c.recognition), b \in BOOLEAN}
\* MinutesCandidate (the transcription endpoint goes as the summary's does).
MinutesCandidates(c) == {[c EXCEPT !.summary = e] : e \in EndpointEdits(c.summary)}
AutomaticCandidates(c) ==
  {[c EXCEPT !.automatic = a] : a \in [recognize : BOOLEAN, summarize : BOOLEAN]}

Candidates(form, c) ==
  CASE form = "models"    -> ModelsCandidates(c)
    [] form = "minutes"   -> MinutesCandidates(c)
    [] form = "automatic" -> AutomaticCandidates(c)

Show(t) ==
  /\ tab[t].stage # "candidate"
  /\ "alone" \in scope => \A q \in Tab \ {t} : tab[q] = Closed
  /\ tab' = [tab EXCEPT ![t] = [stage |-> "shown", revision |-> row.revision]]
  /\ UNCHANGED <<scope, row, since, pass, book, clock, reset, swept, late>>

\* editableSnapshot and the candidate of one form; a stale form is refused.
Submit(t) ==
  /\ tab[t].stage = "shown" /\ tab[t].revision = row.revision
  /\ \E form \in Form \cap scope : \E c \in Candidates(form, row.config) :
       tab' = [tab EXCEPT ![t] = [stage |-> "candidate", form |-> form,
                                  revision |-> row.revision, config |-> c]]
  /\ UNCHANGED <<scope, row, since, pass, book, clock, reset, swept, late>>

Fresh(s) == s.revision = row.revision
Chosen(c) == c.automatic.recognize \/ c.automatic.summarize
\* Fault: the clock only restarts when automatic processing is turned off.
RestartsOff(old, new) == Chosen(old) /\ ~Chosen(new)

\* The clock restarts when automatic processing is turned wholly off, or back on.
Restarts(old, new) == Chosen(old) # Chosen(new)

Save(t) ==
  /\ tab[t].stage = "candidate" /\ row.revision < MaxRevision
  /\ tab' = [tab EXCEPT ![t] = Closed]
  /\ IF Fresh(tab[t])
     THEN /\ row' = [revision |-> row.revision + 1, config |-> tab[t].config]
          /\ since' = IF Restarts(row.config, tab[t].config) THEN 0 ELSE since
          /\ reset' = IF Chosen(row.config) # Chosen(tab[t].config) THEN clock ELSE reset
     ELSE UNCHANGED <<row, since, reset>>
  /\ UNCHANGED <<scope, pass, book, clock, swept, late>>

\* A connection test leaves the settings as they are: the candidate is dropped.
Test(t) ==
  /\ tab[t].stage = "candidate" /\ tab[t].form \in {"models", "minutes"}
  /\ tab' = [tab EXCEPT ![t] = [stage |-> "shown", revision |-> tab[t].revision]]
  /\ UNCHANGED <<scope, row, since, pass, book, clock, reset, swept, late>>

\* SetEmbeddingEnabled: one field of the row, in one transaction.
SetSemantic(t) ==
  /\ "semantic" \in scope /\ tab[t].stage = "shown" /\ Fresh(tab[t]) /\ row.revision < MaxRevision
  /\ row' = [revision |-> row.revision + 1,
              config |-> [row.config EXCEPT !.semantic = ~row.config.semantic]]
  /\ tab' = [tab EXCEPT ![t] = Closed]
  /\ UNCHANGED <<scope, since, pass, book, clock, reset, swept, late>>

-----------------------------------------------------------------------------
(* The automatic pass.                                                      *)

AutoRecognize(c) == c.recognition.on /\ c.automatic.recognize

\* pageConfiguration: the settings of this turn.
Load(p) ==
  /\ "pass" \in scope /\ pass[p] = Idle /\ AutoRecognize(row.config)
  /\ pass' = [pass EXCEPT ![p] = [stage |-> "loaded", reset |-> reset]]
  /\ UNCHANGED <<scope, row, since, tab, book, clock, reset, swept, late>>

\* automaticSince: the time, the insert unless there is a start, and the start in force.
Start(p) ==
  /\ pass[p].stage = "loaded"
  /\ pass' = [pass EXCEPT ![p] = [stage |-> "started", reset |-> pass[p].reset, start |-> clock]]
  /\ UNCHANGED <<scope, row, since, tab, book, clock, reset, swept, late>>

Insert(p) ==
  /\ pass[p].stage = "started"
  /\ since' = IF since = 0 THEN pass[p].start ELSE since
  /\ late' = (late \/ (since = 0 /\ pass[p].start < reset))
  /\ pass' = [pass EXCEPT ![p] = [stage |-> "inserted", reset |-> pass[p].reset]]
  /\ UNCHANGED <<scope, row, tab, book, clock, reset, swept>>

Read(p) ==
  /\ pass[p].stage = "inserted"
  /\ pass' = [pass EXCEPT ![p] =
                IF since = 0 THEN Idle
                ELSE [stage |-> "read", reset |-> pass[p].reset, since |-> since]]
  /\ UNCHANGED <<scope, row, since, tab, book, clock, reset, swept, late>>

\* quietNotebooks, autoRecognize: the notebook changed since the start and is quiet.
Due(p) == book.pending /\ pass[p].since <= book.changed /\ book.changed < clock
Queue(p) ==
  /\ pass[p].stage = "read"
  /\ pass' = [pass EXCEPT ![p] = Idle]
  /\ IF Due(p)
     THEN /\ book' = [book EXCEPT !.pending = FALSE]
          /\ swept' = (swept \/ book.changed < pass[p].reset)
     ELSE UNCHANGED <<book, swept>>
  /\ UNCHANGED <<scope, row, since, tab, clock, reset, late>>

\* A process stops, or a step of the pass fails.
Abandon(p) ==
  /\ pass[p] # Idle /\ pass' = [pass EXCEPT ![p] = Idle]
  /\ UNCHANGED <<scope, row, since, tab, book, clock, reset, swept, late>>

\* A tablet adds a page.
Change ==
  /\ "time" \in scope
  /\ book' = [changed |-> clock, pending |-> TRUE]
  /\ UNCHANGED <<scope, row, since, tab, pass, clock, reset, swept, late>>

Tick ==
  /\ "time" \in scope /\ clock < MaxClock /\ clock' = clock + 1
  /\ UNCHANGED <<scope, row, since, tab, pass, book, reset, swept, late>>

Next ==
  \/ \E t \in Tab : Show(t) \/ Submit(t) \/ Save(t) \/ Test(t) \/ SetSemantic(t)
  \/ \E p \in Pass : Load(p) \/ Start(p) \/ Insert(p) \/ Read(p) \/ Queue(p) \/ Abandon(p)
  \/ Change \/ Tick

Spec == Init /\ [][Next]_svars

-----------------------------------------------------------------------------
(* A key is only ever with the address it was typed for, in the row and in what a   *)
(* tab is about to save or to test: "it never sends an old key to a new server"     *)
(* (docs/guide/ai-models.md; store.go:615-636).                                     *)
Keyed(c) == \A q \in Provider : c[q].key \in {NoUrl, c[q].url}
KeysStay ==
  /\ Keyed(row.config)
  /\ \A t \in Tab : tab[t].stage = "candidate" => Keyed(tab[t].config)

(* No notebook is queued for a change made before automatic processing was last     *)
(* turned wholly off or back on (store.go:677-688, auto.go:73-92): unless a pass     *)
(* that took its start before that moment saved it after.                           *)
NothingSwept == swept => late

(* A form changes only what it carries, whatever other tabs saved meanwhile          *)
(* (store.go:637-700).  The automatic choices go with the models' form.              *)
Carried(form) ==
  CASE form = "models"    -> {"recognition", "semantic", "automatic"}
    [] form = "minutes"   -> {"summary"}
    [] form = "automatic" -> {"automatic"}
FormsKeepOthers ==
  \A t \in Tab :
    tab[t].stage = "candidate" /\ row'.revision # row.revision /\ tab'[t] = Closed =>
      \A part \in DOMAIN row.config \ Carried(tab[t].form) :
        row'.config[part] = row.config[part]
================================================================================
