------------------------------- MODULE Console -------------------------------
(***************************************************************************)
(* frontend/src/app.tsx: one tab of the console.  A refresh sends one      *)
(* request per resource and ends with the last answer or with the first    *)
(* failure; nothing stops the user from starting another one before.  The  *)
(* answers come in any order, and each carries the version of the runtime  *)
(* snapshot it was made from.                                              *)
(*                                                                         *)
(* From click to request is one step: setState, the effect that depends on *)
(* the connection, and fetch run without another event in between.  A save *)
(* that localStorage refuses throws before anything is set and is no step. *)
(* Other tabs of the browser run the same code; all they share with this   *)
(* one is localStorage.                                                    *)
(***************************************************************************)
EXTENDS ConsoleApi, FiniteSets

CONSTANTS
  Resources,      \* the paths of fetchSnapshot
  Inputs,         \* [field -> texts]: what the user types
  InitialStorage, \* what localStorage may hold when the tab is opened
  OtherSettings,  \* what other tabs save
  MaxRefreshes,   \* bound: refreshes begun, those of reloads included
  MaxVersion      \* bound: versions of the server's snapshot

ASSUME ConsoleAssumption ==
  /\ Resources # {}
  /\ Inputs \in [{"baseUrl", "token", "authHeader"} -> SUBSET Text]
  /\ InitialStorage \subseteq StoredObject \cup {Absent}
  /\ OtherSettings \subseteq ConnectionSettings
  /\ MaxRefreshes \in Nat \ {0} /\ MaxVersion \in Nat

VARIABLES
  stored,     \* localStorage, key geoloom-connection
  connection, \* the settings in use
  draft,      \* the settings in the fields
  same,       \* connection and draft are one object
  snapshot,   \* what the pages show: the request, and a version per resource
  loading,
  error,      \* "" or the kind of the message
  flight,     \* refreshes that have not settled
  version,    \* server: number of the published snapshot
  \* history
  begun,      \* refreshes begun
  latest,     \* the refresh begun last, and how it ended
  alone,      \* no other was under way since the one begun last began
  foreign     \* another tab has saved since this one loaded or saved

fields == <<stored, connection, draft, same, foreign>>
screen == <<snapshot, loading, error>>
vars == <<fields, screen, flight, version, begun, latest, alone>>

Waiting == MaxVersion + 1   \* a resource without an answer yet
NoSnapshot == [request |-> Absent, parts |-> Absent]

Versions == 0..MaxVersion
Refresh ==
  [number : 1..MaxRefreshes, request : RequestType, since : Versions,
   parts : [Resources -> Versions \cup {Waiting}]]
Snapshot == [request : RequestType, parts : [Resources -> Versions]]

TypeOK ==
  /\ stored \in StoredObject \cup {Absent}
  /\ connection \in ConnectionSettings /\ draft \in ConnectionSettings
  /\ same \in BOOLEAN
  /\ snapshot \in Snapshot \cup {NoSnapshot}
  /\ loading \in BOOLEAN
  /\ error \in {"", "unauthorized", "failed"}
  /\ flight \subseteq Refresh
  /\ version \in Versions
  /\ begun \in 1..MaxRefreshes
  /\ latest \in [request : RequestType, since : Versions,
                 outcome : {"none", "ok", "unauthorized", "failed"}]
  /\ alone \in BOOLEAN /\ foreign \in BOOLEAN

-----------------------------------------------------------------------------
(* The tab is opened                                                       *)

(* The two states of the settings are loaded by two calls; they are one    *)
(* object when both return the default.                                    *)
Loaded(value, current, edited, one) ==
  /\ current = LoadConnectionSettings(value)
  /\ edited = LoadConnectionSettings(value)
  /\ one = (value = Absent)

FirstRefresh(number, settings) ==
  [number |-> number, request |-> RequestOf(settings), since |-> version,
   parts |-> [r \in Resources |-> Waiting]]

Begun(settings) == [request |-> RequestOf(settings), since |-> version, outcome |-> "none"]

Init ==
  /\ stored \in InitialStorage
  /\ Loaded(stored, connection, draft, same)
  /\ foreign = FALSE
  /\ snapshot = NoSnapshot /\ loading = TRUE /\ error = ""
  /\ version = 0
  /\ begun = 1
  /\ flight = {FirstRefresh(1, connection)}
  /\ latest = Begun(connection)
  /\ alone = TRUE

(* The requests of the page that goes away are dropped with it.            *)
Reload ==
  /\ begun < MaxRefreshes
  /\ Loaded(stored, connection', draft', same')
  /\ foreign' = FALSE
  /\ snapshot' = NoSnapshot /\ loading' = TRUE /\ error' = ""
  /\ begun' = begun + 1
  /\ flight' = {FirstRefresh(begun + 1, connection')}
  /\ latest' = Begun(connection')
  /\ alone' = TRUE
  /\ UNCHANGED <<stored, version>>

-----------------------------------------------------------------------------
(* A refresh                                                               *)

MutantBegin(settings) ==
  /\ begun < MaxRefreshes
  /\ loading' = TRUE
  /\ begun' = begun + 1
  /\ flight' = flight \cup {FirstRefresh(begun + 1, settings)}
  /\ latest' = Begun(settings)
  /\ alone' = (flight = {})
  /\ UNCHANGED <<snapshot, error>>

Begin(settings) ==
  /\ begun < MaxRefreshes
  /\ loading' = TRUE /\ error' = ""
  /\ begun' = begun + 1
  /\ flight' = flight \cup {FirstRefresh(begun + 1, settings)}
  /\ latest' = Begun(settings)
  /\ alone' = (flight = {})
  /\ UNCHANGED snapshot

Settles(refresh, outcome) ==
  /\ flight' = flight \ {refresh}
  /\ loading' = FALSE
  /\ latest' = IF refresh.number = begun THEN [latest EXCEPT !.outcome = outcome] ELSE latest
  /\ UNCHANGED <<fields, version, begun, alone>>

(* One of the answers arrives and others are still missing.                *)
Answer(refresh, resource) ==
  /\ "ok" \in Outcomes(refresh.request)
  /\ refresh.parts[resource] = Waiting
  /\ \E other \in Resources \ {resource} : refresh.parts[other] = Waiting
  /\ flight' = (flight \ {refresh}) \cup {[refresh EXCEPT !.parts[resource] = version]}
  /\ UNCHANGED <<fields, screen, version, begun, latest, alone>>

(* Promise.all resolves with the last answer.                              *)
Succeed(refresh, resource) ==
  /\ "ok" \in Outcomes(refresh.request)
  /\ refresh.parts[resource] = Waiting
  /\ \A other \in Resources \ {resource} : refresh.parts[other] # Waiting
  /\ snapshot' = [request |-> refresh.request,
                  parts |-> [refresh.parts EXCEPT ![resource] = version]]
  /\ UNCHANGED error
  /\ Settles(refresh, "ok")

(* It rejects with the first answer that is none; the others are ignored.  *)
Fail(refresh, kind) ==
  /\ kind \in Outcomes(refresh.request) \ {"ok"}
  /\ snapshot' = NoSnapshot
  /\ error' = kind
  /\ Settles(refresh, kind)

-----------------------------------------------------------------------------
(* The user                                                                *)

RefreshClicked ==
  /\ Begin(connection)
  /\ UNCHANGED <<fields, version>>

Edit(field, text) ==
  /\ draft[field] # text
  /\ draft' = [draft EXCEPT ![field] = text]
  /\ same' = FALSE
  /\ UNCHANGED <<stored, connection, foreign, screen, flight, version, begun, latest, alone>>

(* applyConnection.  The effect refreshes when connection becomes another  *)
(* object; saving an untouched form again does not.                        *)
ApplyConnection ==
  /\ stored' = draft
  /\ connection' = draft
  /\ same' = TRUE
  /\ foreign' = FALSE
  /\ IF same THEN UNCHANGED <<screen, flight, begun, latest, alone>> ELSE Begin(draft)
  /\ UNCHANGED <<draft, version>>

-----------------------------------------------------------------------------
(* The rest of the world                                                   *)

OtherTabSaves(settings) ==
  /\ stored' = settings
  /\ foreign' = TRUE
  /\ UNCHANGED <<connection, draft, same, screen, flight, version, begun, latest, alone>>

ServerPublishes ==
  /\ version < MaxVersion
  /\ version' = version + 1
  /\ UNCHANGED <<fields, screen, flight, begun, latest, alone>>

-----------------------------------------------------------------------------
Answered(refresh) ==
  \/ \E resource \in Resources : Answer(refresh, resource) \/ Succeed(refresh, resource)
  \/ \E kind \in {"unauthorized", "failed"} : Fail(refresh, kind)

Next ==
  \/ \E refresh \in flight : Answered(refresh)
  \/ RefreshClicked
  \/ \E field \in DOMAIN Inputs : \E text \in Inputs[field] : Edit(field, text)
  \/ ApplyConnection
  \/ Reload
  \/ \E settings \in OtherSettings : OtherTabSaves(settings)
  \/ ServerPublishes

Spec == Init /\ [][Next]_vars

(* Every request is answered or given up by the browser in the end.        *)
FairSpec == Spec /\ WF_vars(\E refresh \in flight : Answered(refresh))
-----------------------------------------------------------------------------
(* Properties                                                              *)

Online == snapshot # NoSnapshot /\ error = ""

(* What the tab shows is explained by its refreshes, whatever their order: *)
(* once nothing loads there is a page or an error, never the empty card.   *)
(* And if no two refreshes crossed, the tab shows exactly how the last one *)
(* ended, made with the connection in use, and no part of the page is      *)
(* older than the click.                                                   *)
ScreenTells ==
  /\ ~loading => Online \/ error # ""
  /\ alone /\ flight # {} => loading /\ error = ""
  /\ alone /\ flight = {} =>
       /\ ~loading
       /\ latest.request = RequestOf(connection)
       /\ latest.outcome = "ok" =>
            /\ Online /\ snapshot.request = latest.request
            /\ \A resource \in Resources : snapshot.parts[resource] >= latest.since
       /\ latest.outcome # "ok" => ~Online /\ snapshot = NoSnapshot /\ error = latest.outcome

(* Unless another tab has saved, a reload of the tab goes to the same      *)
(* address with the same header and token as before: saving, loading and   *)
(* the making of a request agree on blank fields and defaults.             *)
ReloadChangesNothing ==
  ~foreign => RequestOf(LoadConnectionSettings(stored)) = RequestOf(connection)

(* The loading card does not stay: some refresh settles and takes it away. *)
WaitsEnd == loading ~> ~loading

(* README.md:440-442: after the right token is saved and the requests are  *)
(* answered with 200 the state changes to connected.  Violated: an older   *)
(* refresh that fails late puts its error over the newer one's success.    *)
LastRefreshDecides == flight = {} /\ latest.outcome = "ok" => Online
=============================================================================
