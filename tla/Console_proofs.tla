--------------------------- MODULE Console_proofs ---------------------------
(***************************************************************************)
(* What TLAPS proves of the console: of a tab, for any texts and any       *)
(* number of resources, refreshes and versions; of the ring behind its log *)
(* page, for every capacity; and of what its pages show, for any lists a   *)
(* refresh may hand over.                                                  *)
(***************************************************************************)
EXTENDS Console, ConsolePages, Lists_proofs, SequenceTheorems, FiniteSetTheorems, TLAPS

(* Loading gives settings, whatever was stored.                            *)
LEMMA LoadType ==
  ASSUME NEW value \in StoredObject \cup {Absent}
  PROVE  LoadConnectionSettings(value) \in ConnectionSettings
BY WordsAssumption, AbsenceAssumption
   DEF LoadConnectionSettings, StoredObject, ConnectionSettings, DefaultConnection, Text, Plain

LEMMA RequestTyped ==
  ASSUME NEW settings \in ConnectionSettings
  PROVE  RequestOf(settings) \in RequestType
BY WordsAssumption
   DEF RequestOf, RequestType, ConnectionSettings, Base, HeaderName, Blank, Text

(* What is saved and loaded again makes the same request.                  *)
LEMMA SavedIsLoaded ==
  ASSUME NEW settings \in ConnectionSettings
  PROVE  RequestOf(LoadConnectionSettings(settings)) = RequestOf(settings)
<1>1. settings # Absent /\ settings.baseUrl # Null /\ settings.token # Null /\ settings.authHeader # Null
  BY AbsenceAssumption DEF ConnectionSettings, StoredObject
<1>2. CASE Blank(settings.authHeader)
  BY <1>1, <1>2, WordsAssumption
     DEF LoadConnectionSettings, RequestOf, HeaderName, Blank, Plain, Base
<1>3. CASE ~Blank(settings.authHeader)
  BY <1>1, <1>3 DEF LoadConnectionSettings, RequestOf, HeaderName, Blank, Plain, Base
<1>. QED  BY <1>2, <1>3

LEMMA SavedIsStorable == ConnectionSettings \subseteq StoredObject
BY DEF ConnectionSettings, StoredObject

LEMMA FirstRefreshTyped ==
  ASSUME NEW number \in 1..MaxRefreshes, NEW settings \in ConnectionSettings, version \in Versions
  PROVE  /\ FirstRefresh(number, settings) \in Refresh
         /\ Begun(settings) \in [request : RequestType, since : Versions,
                                 outcome : {"none", "ok", "unauthorized", "failed"}]
BY RequestTyped DEF FirstRefresh, Begun, Refresh

LEMMA Bounds == MaxRefreshes \in Nat \ {0} /\ MaxVersion \in Nat
BY Zenon, ConsoleAssumption

LEMMA NextNumber ==
  ASSUME TypeOK, begun < MaxRefreshes
  PROVE  begun + 1 \in 1..MaxRefreshes
<1>. begun \in 1..MaxRefreshes
  BY DEF TypeOK
<1>. QED  BY Bounds

-----------------------------------------------------------------------------
(* Types                                                                   *)

LEMMA InitTyped == Init => TypeOK
<1> SUFFICES ASSUME Init PROVE TypeOK
  OBVIOUS
<1>1. stored \in StoredObject \cup {Absent} /\ version \in Versions /\ 1 \in 1..MaxRefreshes
  <2>1. stored \in InitialStorage /\ version = 0
    BY DEF Init
  <2>2. InitialStorage \subseteq StoredObject \cup {Absent}
    BY Zenon, ConsoleAssumption
  <2>. QED  BY <2>1, <2>2, Bounds DEF Versions
<1>2. connection \in ConnectionSettings /\ draft \in ConnectionSettings
  BY <1>1, LoadType DEF Init, Loaded
<1>3. FirstRefresh(1, connection) \in Refresh /\ Begun(connection) \in
        [request : RequestType, since : Versions, outcome : {"none", "ok", "unauthorized", "failed"}]
  BY <1>1, <1>2, FirstRefreshTyped
<1>. QED  BY <1>1, <1>2, <1>3 DEF Init, Loaded, TypeOK

LEMMA BeginTyped ==
  ASSUME TypeOK, NEW settings \in ConnectionSettings, Begin(settings)
  PROVE  /\ flight' \subseteq Refresh /\ begun' \in 1..MaxRefreshes
         /\ latest' \in [request : RequestType, since : Versions,
                         outcome : {"none", "ok", "unauthorized", "failed"}]
         /\ alone' \in BOOLEAN /\ loading' \in BOOLEAN /\ error' = ""
<1>1. begun + 1 \in 1..MaxRefreshes
  BY NextNumber DEF Begin
<1>2. FirstRefresh(begun + 1, settings) \in Refresh /\ Begun(settings) \in
        [request : RequestType, since : Versions, outcome : {"none", "ok", "unauthorized", "failed"}]
  BY <1>1, FirstRefreshTyped DEF TypeOK
<1>. QED  BY <1>1, <1>2 DEF Begin, TypeOK

LEMMA SettlesTyped ==
  ASSUME TypeOK, NEW refresh \in flight, NEW outcome \in {"ok", "unauthorized", "failed"},
         Settles(refresh, outcome)
  PROVE  /\ flight' \subseteq Refresh /\ loading' = FALSE
         /\ latest' \in [request : RequestType, since : Versions,
                         outcome : {"none", "ok", "unauthorized", "failed"}]
         /\ UNCHANGED <<fields, version, begun, alone>>
BY DEF Settles, TypeOK

LEMMA StepTyped == TypeOK /\ [Next]_vars => TypeOK'
<1> SUFFICES ASSUME TypeOK, [Next]_vars PROVE TypeOK'
  OBVIOUS
<1>1. ASSUME NEW refresh \in flight, NEW resource \in Resources, Answer(refresh, resource)
      PROVE  TypeOK'
  <2>1. [refresh EXCEPT !.parts[resource] = version] \in Refresh
    BY DEF TypeOK, Refresh
  <2>. QED  BY <1>1, <2>1 DEF Answer, TypeOK, fields, screen
<1>2. ASSUME NEW refresh \in flight, NEW resource \in Resources, Succeed(refresh, resource)
      PROVE  TypeOK'
  <2>1. refresh \in Refresh /\ version \in Versions
    BY DEF TypeOK
  <2>2. \A other \in Resources : [refresh.parts EXCEPT ![resource] = version][other] \in Versions
    BY <1>2, <2>1 DEF Succeed, Refresh
  <2>3. snapshot' \in Snapshot
    BY <1>2, <2>1, <2>2 DEF Succeed, Snapshot, Refresh
  <2>. QED  BY <1>2, <2>3, SettlesTyped DEF Succeed, TypeOK, fields
<1>3. ASSUME NEW refresh \in flight, NEW kind \in {"unauthorized", "failed"}, Fail(refresh, kind)
      PROVE  TypeOK'
  BY <1>3, SettlesTyped DEF Fail, TypeOK, fields
<1>4. CASE RefreshClicked
  BY <1>4, BeginTyped DEF RefreshClicked, Begin, TypeOK, fields
<1>5. ASSUME NEW field \in DOMAIN Inputs, NEW text \in Inputs[field], Edit(field, text)
      PROVE  TypeOK'
  <2>1. text \in Text /\ field \in {"baseUrl", "token", "authHeader"}
    BY ConsoleAssumption
  <2>2. draft' \in ConnectionSettings
    BY <1>5, <2>1 DEF Edit, TypeOK, ConnectionSettings
  <2>. QED  BY <1>5, <2>2 DEF Edit, TypeOK, screen
<1>6. CASE ApplyConnection
  <2>1. draft \in ConnectionSettings /\ draft \in StoredObject
    BY SavedIsStorable DEF TypeOK
  <2>2. CASE same
    BY <1>6, <2>1, <2>2 DEF ApplyConnection, TypeOK, screen
  <2>3. CASE ~same
    BY <1>6, <2>1, <2>3, BeginTyped DEF ApplyConnection, Begin, TypeOK
  <2>. QED  BY <2>2, <2>3
<1>7. CASE Reload
  <2>1. connection' \in ConnectionSettings /\ draft' \in ConnectionSettings /\ same' \in BOOLEAN
    BY <1>7, LoadType DEF Reload, Loaded, TypeOK
  <2>2. begun + 1 \in 1..MaxRefreshes
    BY <1>7, NextNumber DEF Reload
  <2>3. FirstRefresh(begun + 1, connection') \in Refresh /\ Begun(connection') \in
          [request : RequestType, since : Versions, outcome : {"none", "ok", "unauthorized", "failed"}]
    BY <2>1, <2>2, FirstRefreshTyped DEF TypeOK
  <2>. QED  BY <1>7, <2>1, <2>2, <2>3 DEF Reload, TypeOK
<1>8. ASSUME NEW settings \in OtherSettings, OtherTabSaves(settings)
      PROVE  TypeOK'
  BY <1>8, ConsoleAssumption, SavedIsStorable DEF OtherTabSaves, TypeOK, screen
<1>9. CASE ServerPublishes
  <2>1. version' \in Versions
    <3>1. version \in Versions
      BY DEF TypeOK
    <3>2. version < MaxVersion /\ version' = version + 1
      BY <1>9 DEF ServerPublishes
    <3>. QED  BY <3>1, <3>2, Bounds DEF Versions
  <2>. QED  BY <1>9, <2>1 DEF ServerPublishes, TypeOK, fields, screen
<1>10. CASE UNCHANGED vars
  BY <1>10 DEF TypeOK, vars, fields, screen
<1>. QED
  BY <1>1, <1>2, <1>3, <1>4, <1>5, <1>6, <1>7, <1>8, <1>9, <1>10 DEF Next, Answered

(* The console's variables keep their types.                               *)
THEOREM TypeCorrect == Spec => []TypeOK
<1>. QED  BY InitTyped, StepTyped, PTL DEF Spec

-----------------------------------------------------------------------------
(* The screen                                                              *)

(* While the last refresh is alone, it is all there is in flight, and its  *)
(* answers are not older than its beginning.                               *)
OnlyTheLast ==
  /\ latest.request = RequestOf(connection)
  /\ latest.since <= version
  /\ \A refresh \in flight :
       /\ refresh.number = begun
       /\ refresh.request = latest.request
       /\ \A resource \in Resources : refresh.parts[resource] >= latest.since
  /\ \A one, two \in flight : one = two
  /\ flight # {} => loading /\ error = ""

(* How the last one ended is how the screen looks.                         *)
Shown ==
  flight = {} =>
    /\ ~loading
    /\ latest.outcome = "ok" =>
         /\ Online /\ snapshot.request = latest.request
         /\ \A resource \in Resources : snapshot.parts[resource] >= latest.since
    /\ latest.outcome # "ok" => ~Online /\ snapshot = NoSnapshot /\ error = latest.outcome

ScreenInv ==
  /\ ~loading => Online \/ error # ""
  /\ same => draft = connection
  /\ alone => OnlyTheLast /\ Shown

LEMMA VersionIsNat ==
  ASSUME TypeOK
  PROVE  version \in Nat
<1>. version \in Versions
  BY DEF TypeOK
<1>. QED  BY Bounds DEF Versions

LEMMA VersionReflexive ==
  ASSUME TypeOK
  PROVE  version <= version
BY VersionIsNat

LEMMA FirstRefreshParts ==
  ASSUME TypeOK, NEW number, NEW settings, NEW resource \in Resources
  PROVE  FirstRefresh(number, settings).parts[resource] >= version
<1>1. version \in Versions
  BY DEF TypeOK
<1>2. Waiting >= version
  BY <1>1, Bounds DEF Versions, Waiting
<1>. QED  BY <1>2 DEF FirstRefresh

(* A refresh that is begun when none is under way is alone.                *)
LEMMA BegunAlone ==
  ASSUME TypeOK, TypeOK', NEW settings,
         flight' = {FirstRefresh(begun + 1, settings)}, begun' = begun + 1,
         latest' = Begun(settings), connection' = settings, version' = version,
         loading' = TRUE, error' = ""
  PROVE  OnlyTheLast' /\ Shown'
<1>1. latest'.request = RequestOf(connection') /\ latest'.since = version
  BY DEF Begun
<1>2. \A resource \in Resources : FirstRefresh(begun + 1, settings).parts[resource] >= version
  BY FirstRefreshParts
<1>3. /\ FirstRefresh(begun + 1, settings).number = begun'
      /\ FirstRefresh(begun + 1, settings).request = latest'.request
  BY DEF FirstRefresh, Begun
<1>4. flight' # {} /\ \A refresh \in flight' : refresh = FirstRefresh(begun + 1, settings)
  OBVIOUS
<1>5. latest'.since <= version'
  <2>1. version <= version
    BY Zenon, VersionReflexive
  <2>. QED  BY Zenon, <1>1, <2>1
<1>6. \A refresh \in flight' :
        /\ refresh.number = begun'
        /\ refresh.request = latest'.request
        /\ \A resource \in Resources : refresh.parts[resource] >= latest'.since
  BY <1>1, <1>2, <1>3, <1>4
<1>7. \A one, two \in flight' : one = two
  BY <1>4
<1>8. OnlyTheLast'
  BY <1>1, <1>5, <1>6, <1>7 DEF OnlyTheLast
<1>. QED  BY <1>4, <1>8 DEF Shown

LEMMA BeginShown ==
  ASSUME TypeOK, TypeOK', NEW settings, Begin(settings), connection' = settings,
         version' = version
  PROVE  loading' /\ (alone' => OnlyTheLast' /\ Shown')
<1>1. loading' = TRUE /\ error' = "" /\ begun' = begun + 1 /\ latest' = Begun(settings)
  BY DEF Begin
<1>2. alone' => flight' = {FirstRefresh(begun + 1, settings)}
  BY DEF Begin
<1>. QED  BY <1>1, <1>2, BegunAlone

LEMMA InitScreen == Init => ScreenInv
<1> SUFFICES ASSUME Init PROVE ScreenInv
  OBVIOUS
<1>1. TypeOK
  BY InitTyped
<1>2. flight = {FirstRefresh(1, connection)} /\ latest = Begun(connection) /\ begun = 1
      /\ loading = TRUE /\ error = "" /\ draft = connection
  BY DEF Init, Loaded
<1>3. latest.request = RequestOf(connection) /\ latest.since = version
  BY <1>2 DEF Begun
<1>4. latest.since <= version
  <2>1. version <= version
    BY <1>1, VersionIsNat
  <2>. QED  BY Zenon, <1>3, <2>1
<1>5. \A refresh \in flight : refresh = FirstRefresh(1, connection)
  BY <1>2
<1>6. \A resource \in Resources : FirstRefresh(1, connection).parts[resource] >= version
  BY <1>1, FirstRefreshParts
<1>7. \A refresh \in flight :
        /\ refresh.number = begun
        /\ refresh.request = latest.request
        /\ \A resource \in Resources : refresh.parts[resource] >= latest.since
  <2>1. FirstRefresh(1, connection).number = 1 /\ FirstRefresh(1, connection).request = RequestOf(connection)
    BY DEF FirstRefresh
  <2>. QED  BY <1>2, <1>3, <1>5, <1>6, <2>1
<1>8. OnlyTheLast
  BY <1>2, <1>3, <1>4, <1>5, <1>7 DEF OnlyTheLast
<1>. QED  BY <1>2, <1>8 DEF ScreenInv, Shown

LEMMA SucceedShown ==
  ASSUME TypeOK, TypeOK', ScreenInv, NEW refresh \in flight, NEW resource \in Resources,
         Succeed(refresh, resource)
  PROVE  ScreenInv'
<1>1. /\ snapshot' = [request |-> refresh.request, parts |-> [refresh.parts EXCEPT ![resource] = version]]
      /\ error' = error /\ loading' = FALSE /\ flight' = flight \ {refresh}
      /\ latest' = IF refresh.number = begun THEN [latest EXCEPT !.outcome = "ok"] ELSE latest
      /\ UNCHANGED <<stored, connection, draft, same, foreign, version, begun, alone>>
  BY DEF Succeed, Settles, fields
<1>2. refresh \in Refresh /\ version \in Versions
  BY DEF TypeOK
<1>3. snapshot' # NoSnapshot
  <2>1. snapshot'.request \in RequestType
    BY <1>1, <1>2 DEF Refresh
  <2>2. NoSnapshot.request \notin RequestType
    BY AbsenceAssumption DEF NoSnapshot, RequestType
  <2>. QED  BY <2>1, <2>2
<1>4. ASSUME alone PROVE OnlyTheLast' /\ Shown'
  <2>1. OnlyTheLast
    BY <1>4 DEF ScreenInv
  <2>2. flight' = {} /\ refresh.number = begun /\ refresh.request = latest.request /\ error = ""
    BY <1>1, <2>1 DEF OnlyTheLast
  <2>3. latest' = [latest EXCEPT !.outcome = "ok"]
    BY <1>1, <2>2
  <2>4. latest'.request = latest.request /\ latest'.since = latest.since /\ latest'.outcome = "ok"
    BY <2>3 DEF TypeOK
  <2>5. \A other \in Resources : snapshot'.parts[other] >= latest.since
    BY <1>1, <1>2, <2>1 DEF OnlyTheLast, Refresh
  <2>6. OnlyTheLast'
    BY <1>1, <2>1, <2>2, <2>4 DEF OnlyTheLast
  <2>7. Shown'
    BY <1>1, <1>3, <2>2, <2>4, <2>5 DEF Shown, Online
  <2>. QED  BY <2>6, <2>7
<1>. QED  BY <1>1, <1>3, <1>4 DEF ScreenInv, Online

LEMMA FailShown ==
  ASSUME TypeOK, TypeOK', ScreenInv, NEW refresh \in flight, NEW kind \in {"unauthorized", "failed"},
         Fail(refresh, kind)
  PROVE  ScreenInv'
<1>1. /\ snapshot' = NoSnapshot /\ error' = kind /\ loading' = FALSE /\ flight' = flight \ {refresh}
      /\ latest' = IF refresh.number = begun THEN [latest EXCEPT !.outcome = kind] ELSE latest
      /\ UNCHANGED <<stored, connection, draft, same, foreign, version, begun, alone>>
  BY DEF Fail, Settles, fields
<1>2. ASSUME alone PROVE OnlyTheLast' /\ Shown'
  <2>1. OnlyTheLast
    BY <1>2 DEF ScreenInv
  <2>2. flight' = {} /\ refresh.number = begun
    BY <1>1, <2>1 DEF OnlyTheLast
  <2>3. latest'.request = latest.request /\ latest'.since = latest.since /\ latest'.outcome = kind
    BY <1>1, <2>2 DEF TypeOK
  <2>4. OnlyTheLast'
    BY <1>1, <2>1, <2>2, <2>3 DEF OnlyTheLast
  <2>5. Shown'
    BY <1>1, <2>2, <2>3 DEF Shown, Online
  <2>. QED  BY <2>4, <2>5
<1>. QED  BY <1>1, <1>2 DEF ScreenInv

LEMMA AnswerShown ==
  ASSUME TypeOK, TypeOK', ScreenInv, NEW refresh \in flight, NEW resource \in Resources,
         Answer(refresh, resource)
  PROVE  ScreenInv'
<1> DEFINE answered == [refresh EXCEPT !.parts[resource] = version]
<1>1. /\ flight' = (flight \ {refresh}) \cup {answered}
      /\ UNCHANGED <<stored, connection, draft, same, foreign, snapshot, loading, error>>
      /\ UNCHANGED <<version, begun, latest, alone>>
  BY DEF Answer, fields, screen
<1>2. refresh \in Refresh
  BY DEF TypeOK
<1>3. /\ answered.number = refresh.number /\ answered.request = refresh.request
      /\ \A other \in Resources :
            answered.parts[other] = IF other = resource THEN version ELSE refresh.parts[other]
  BY <1>2 DEF Refresh
<1>4. ASSUME alone PROVE OnlyTheLast' /\ Shown'
  <2>1. OnlyTheLast
    BY <1>4 DEF ScreenInv
  <2>2. flight' = {answered} /\ loading /\ error = ""
    BY <1>1, <2>1 DEF OnlyTheLast
  <2>. HIDE DEF answered
  <2>3. OnlyTheLast'
    BY <1>1, <1>3, <2>1, <2>2 DEF OnlyTheLast
  <2>. QED  BY <2>2, <2>3 DEF Shown
<1>. QED  BY <1>1, <1>4 DEF ScreenInv, Online

LEMMA StepScreen == TypeOK /\ TypeOK' /\ ScreenInv /\ [Next]_vars => ScreenInv'
<1> SUFFICES ASSUME TypeOK, TypeOK', ScreenInv, [Next]_vars PROVE ScreenInv'
  OBVIOUS
<1>1. ASSUME NEW refresh \in flight, Answered(refresh) PROVE ScreenInv'
  BY <1>1, AnswerShown, SucceedShown, FailShown DEF Answered
<1>2. CASE RefreshClicked
  BY <1>2, BeginShown DEF RefreshClicked, ScreenInv, fields
<1>3. ASSUME NEW field, NEW text, Edit(field, text) PROVE ScreenInv'
  BY <1>3 DEF Edit, ScreenInv, OnlyTheLast, Shown, Online, screen
<1>4. CASE ApplyConnection
  <2>1. CASE same
    <3>1. draft' = connection' /\ connection' = connection /\ UNCHANGED <<screen, flight, begun, latest, alone, version>>
      BY <1>4, <2>1 DEF ApplyConnection, ScreenInv
    <3>. QED  BY <3>1 DEF ScreenInv, OnlyTheLast, Shown, Online, screen
  <2>2. CASE ~same
    BY <1>4, <2>2, BeginShown DEF ApplyConnection, ScreenInv
  <2>. QED  BY <2>1, <2>2
<1>5. CASE Reload
  <2>1. OnlyTheLast' /\ Shown'
    BY <1>5, BegunAlone DEF Reload
  <2>. QED  BY <1>5, <2>1 DEF Reload, ScreenInv, Loaded
<1>6. ASSUME NEW settings, OtherTabSaves(settings) PROVE ScreenInv'
  BY <1>6 DEF OtherTabSaves, ScreenInv, OnlyTheLast, Shown, Online, screen
<1>7. CASE ServerPublishes
  <2>1. /\ UNCHANGED <<stored, connection, draft, same, foreign, snapshot, loading, error>>
        /\ UNCHANGED <<flight, begun, latest, alone>> /\ version' = version + 1
    BY <1>7 DEF ServerPublishes, fields, screen
  <2>2. version \in Versions /\ latest.since \in Versions
    BY DEF TypeOK
  <2>3. latest.since <= version => latest.since <= version'
    BY <2>1, <2>2, Bounds DEF Versions
  <2>. QED  BY <2>1, <2>3 DEF ScreenInv, OnlyTheLast, Shown, Online
<1>8. CASE UNCHANGED vars
  BY <1>8 DEF vars, ScreenInv, OnlyTheLast, Shown, Online, fields, screen
<1>. QED
  BY <1>1, <1>2, <1>3, <1>4, <1>5, <1>6, <1>7, <1>8 DEF Next

(* app.tsx, refresh: with no crossing refreshes the tab shows how the last *)
(* one ended, and the empty card is never seen.                            *)
THEOREM ScreenIsRight == Spec => []ScreenTells
<1>1. TypeOK /\ ScreenInv => ScreenTells
  BY DEF ScreenInv, OnlyTheLast, Shown, ScreenTells
<1>2. Init => TypeOK /\ ScreenInv
  BY InitTyped, InitScreen
<1>3. TypeOK /\ ScreenInv /\ [Next]_vars => (TypeOK /\ ScreenInv)'
  BY StepTyped, StepScreen
<1>. QED  BY <1>1, <1>2, <1>3, PTL DEF Spec

-----------------------------------------------------------------------------
(* The settings                                                            *)

(* What a tab uses is what it last loaded or saved.                        *)
SettingsInv ==
  ~foreign => connection = LoadConnectionSettings(stored) \/ stored = connection

LEMMA StepSettings == TypeOK /\ SettingsInv /\ [Next]_vars => SettingsInv'
<1> SUFFICES ASSUME TypeOK, SettingsInv, [Next]_vars PROVE SettingsInv'
  OBVIOUS
<1>1. ASSUME NEW refresh \in flight, Answered(refresh) PROVE SettingsInv'
  <2>1. UNCHANGED fields
    BY <1>1 DEF Answered, Answer, Succeed, Fail, Settles
  <2>. QED  BY <2>1 DEF SettingsInv, fields
<1>2. CASE RefreshClicked \/ ServerPublishes \/ UNCHANGED vars
  BY <1>2 DEF RefreshClicked, ServerPublishes, SettingsInv, fields, vars
<1>3. ASSUME NEW field, NEW text, Edit(field, text) PROVE SettingsInv'
  BY <1>3 DEF Edit, SettingsInv
<1>4. CASE ApplyConnection \/ Reload
  BY <1>4 DEF ApplyConnection, Reload, Loaded, SettingsInv
<1>5. ASSUME NEW settings, OtherTabSaves(settings) PROVE SettingsInv'
  BY <1>5 DEF OtherTabSaves, SettingsInv
<1>. QED  BY <1>1, <1>2, <1>3, <1>4, <1>5 DEF Next

(* lib/api.ts: loadConnectionSettings, saveConnectionSettings and          *)
(* requestJson agree on blank fields, so a reload changes no request.      *)
THEOREM ReloadIsNeutral == Spec => []ReloadChangesNothing
<1>1. Init => SettingsInv
  BY DEF Init, Loaded, SettingsInv
<1>2. TypeOK /\ SettingsInv => ReloadChangesNothing
  BY SavedIsLoaded DEF SettingsInv, ReloadChangesNothing, TypeOK
<1>. QED  BY <1>1, <1>2, InitTyped, StepTyped, StepSettings, PTL DEF Spec

-----------------------------------------------------------------------------
(* The ring of log entries (module LogBuffer)                              *)

(* Slots are counted modulo the capacity, and never beyond twice of it.    *)
LEMMA Below ==
  ASSUME NEW n \in Nat, n < Capacity
  PROVE  n % Capacity = n
BY CapacityAssumption

LEMMA Beyond ==
  ASSUME NEW n \in Nat, n >= Capacity, n < 2 * Capacity
  PROVE  n % Capacity = n - Capacity
BY CapacityAssumption

(* After the slot "at" comes its successor; as many steps on as there are  *)
(* slots lead back to it, and fewer do not.                                *)
LEMMA Turn ==
  ASSUME NEW at \in Slots, NEW i \in 1..Capacity
  PROVE  /\ (((at + 1) % Capacity) + i - 1) % Capacity = (at + i) % Capacity
         /\ (at + i) % Capacity \in Slots
         /\ (at + i) % Capacity = at <=> i = Capacity
<1>. /\ at \in Nat /\ i \in Nat /\ Capacity \in Nat /\ at < Capacity
     /\ 1 <= i /\ i <= Capacity
  BY CapacityAssumption DEF Slots
<1>1. CASE at + 1 < Capacity
  <2>1. (at + 1) % Capacity = at + 1
    BY <1>1, Below
  <2>2. CASE at + i < Capacity
    BY <2>1, <2>2, Below DEF Slots
  <2>3. CASE at + i >= Capacity
    <3>1. (at + i) % Capacity = at + i - Capacity
      BY <2>3, Beyond
    <3>. QED  BY <2>1, <2>3, <3>1 DEF Slots
  <2>. QED  BY <2>2, <2>3
<1>2. CASE at + 1 = Capacity
  <2>1. (at + 1) % Capacity = 0
    BY <1>2, Beyond
  <2>2. (at + i) % Capacity = i - 1
    BY <1>2, Beyond
  <2>3. (i - 1) % Capacity = i - 1
    BY Below
  <2>. QED  BY <1>2, <2>1, <2>2, <2>3 DEF Slots
<1>. QED  BY <1>1, <1>2

-----------------------------------------------------------------------------
(* Until the ring is full it grows from slot 0; what is in use was written.*)
RingInv ==
  /\ RingTypeOK
  /\ size < Capacity => next = size /\ ~truncated
  /\ \A slot \in Slots : slot < size => entries[slot] \in Entries

LEMMA RingStart == RingInit => RingInv
<1> SUFFICES ASSUME RingInit PROVE RingInv
  OBVIOUS
<1>1. Capacity \in Nat /\ Capacity > 0
  BY CapacityAssumption
<1>2. next = 0 /\ size = 0 /\ truncated = FALSE /\ entries = [slot \in Slots |-> NoEntry]
  BY DEF RingInit
<1>3. 0 \in Slots /\ 0 \in 0..Capacity
  BY <1>1 DEF Slots
<1>4. entries \in [Slots -> Entries \cup {NoEntry}]
  BY <1>2
<1>5. RingTypeOK
  BY <1>2, <1>3, <1>4 DEF RingTypeOK
<1>6. \A slot \in Slots : ~(slot < 0)
  BY <1>1 DEF Slots
<1>. QED  BY <1>2, <1>5, <1>6 DEF RingInv

LEMMA NextSlot ==
  ASSUME RingTypeOK
  PROVE  (next + 1) % Capacity = IF next + 1 = Capacity THEN 0 ELSE next + 1
<1>. next \in Nat /\ next < Capacity /\ Capacity \in Nat
  BY CapacityAssumption DEF RingTypeOK, Slots
<1>1. CASE next + 1 = Capacity
  BY <1>1, Beyond
<1>2. CASE next + 1 # Capacity
  BY <1>2, Below
<1>. QED  BY <1>1, <1>2

LEMMA RingStep ==
  ASSUME RingInv, NEW entry \in Entries, AppendEntry(entry)
  PROVE  RingInv'
<1>1. /\ next \in Slots /\ size \in 0..Capacity /\ truncated \in BOOLEAN
      /\ entries \in [Slots -> Entries \cup {NoEntry}] /\ Capacity \in Nat \ {0}
  BY CapacityAssumption DEF RingInv, RingTypeOK
<1>2. next' = IF next + 1 = Capacity THEN 0 ELSE next + 1
  BY NextSlot DEF AppendEntry, RingInv
<1>3. entries' = [entries EXCEPT ![next] = entry]
  BY DEF AppendEntry
<1>4. size' = (IF size < Capacity THEN size + 1 ELSE size)
      /\ truncated' = (IF size < Capacity THEN truncated ELSE TRUE)
  BY DEF AppendEntry
<1>5. RingTypeOK'
  <2>1. next' \in Slots
    BY <1>1, <1>2 DEF Slots
  <2>2. size' \in 0..Capacity
    BY <1>1, <1>4
  <2>3. truncated' \in BOOLEAN
    BY <1>1, <1>4
  <2>4. entries' \in [Slots -> Entries \cup {NoEntry}]
    BY <1>1, <1>3
  <2>. QED  BY <2>1, <2>2, <2>3, <2>4 DEF RingTypeOK, Slots
<1>6. size' < Capacity => next' = size' /\ ~truncated'
  BY <1>1, <1>2, <1>4 DEF RingInv
<1>7. \A slot \in Slots : slot < size' => entries'[slot] \in Entries
  BY <1>1, <1>3, <1>4 DEF RingInv, Slots
<1>. QED  BY <1>5, <1>6, <1>7 DEF RingInv

(* The ring's variables keep their types, and unused slots are not read.   *)
THEOREM RingCorrect == RingSpec => []RingInv
<1>1. RingInv /\ [RingNext]_ring => RingInv'
  <2> SUFFICES ASSUME RingInv, [RingNext]_ring PROVE RingInv'
    OBVIOUS
  <2>1. CASE RingNext
    BY <2>1, RingStep DEF RingNext
  <2>2. CASE UNCHANGED ring
    BY <2>2 DEF ring, RingInv, RingTypeOK
  <2>. QED  BY <2>1, <2>2
<1>. QED  BY <1>1, RingStart, PTL DEF RingSpec

-----------------------------------------------------------------------------
(* The items, without the remainder where it does not matter.              *)
LEMMA ItemsTyped ==
  ASSUME RingInv
  PROVE  Items \in Seq(Entries) /\ Len(Items) = size
<1>. /\ Capacity \in Nat \ {0} /\ size \in 0..Capacity /\ next \in Slots
  BY CapacityAssumption DEF RingInv, RingTypeOK
<1>1. ASSUME NEW i \in 1..size PROVE Items[i] \in Entries
  <2>1. CASE size = Capacity
    <3>1. (next + i - 1) % Capacity \in Slots
      <4>1. CASE next + i - 1 < Capacity
        BY <2>1, <4>1, Below DEF Slots
      <4>2. CASE next + i - 1 >= Capacity
        BY <2>1, <4>2, Beyond DEF Slots
      <4>. QED  BY <4>1, <4>2 DEF Slots
    <3>. QED  BY <2>1, <3>1 DEF Items, Start, RingInv, Slots
  <2>2. CASE size # Capacity
    <3>1. (0 + i - 1) % Capacity = i - 1
      BY <2>2, Below
    <3>2. i - 1 \in Slots /\ i - 1 < size
      BY <2>2 DEF Slots
    <3>. QED  BY <2>2, <3>1, <3>2 DEF Items, Start, RingInv
  <2>. QED  BY <2>1, <2>2
<1>. QED  BY <1>1 DEF Items

LEMMA AppendIs ==
  ASSUME NEW S, NEW s \in Seq(S), NEW e \in S
  PROVE  Append(s, e) = [i \in 1..(Len(s) + 1) |-> IF i = Len(s) + 1 THEN e ELSE s[i]]
<1>. DEFINE longer == [i \in 1..(Len(s) + 1) |-> IF i = Len(s) + 1 THEN e ELSE s[i]]
<1>1. Append(s, e) \in Seq(S) /\ Len(Append(s, e)) = Len(s) + 1
      /\ Append(s, e)[Len(s) + 1] = e
      /\ \A i \in 1..Len(s) : Append(s, e)[i] = s[i]
  BY AppendProperties
<1>2. longer \in Seq(S) /\ Len(longer) = Len(s) + 1
  <2>1. Len(s) + 1 \in Nat /\ \A i \in 1..(Len(s) + 1) : longer[i] \in S
    BY ElementOfSeq, LenProperties
  <2>. QED  BY <2>1
<1>3. \A i \in 1..(Len(s) + 1) : Append(s, e)[i] = longer[i]
  BY <1>1
<1>. QED  BY <1>1, <1>2, <1>3, SeqEqual

LEMMA GrowingStep ==
  ASSUME RingInv, RingInv', NEW entry \in Entries, AppendEntry(entry), size < Capacity
  PROVE  Items' = Append(Items, entry)
<1>1. /\ next = size /\ size \in Nat /\ Capacity \in Nat \ {0}
      /\ entries \in [Slots -> Entries \cup {NoEntry}]
  BY CapacityAssumption DEF RingInv, RingTypeOK
<1>2. size' = size + 1 /\ entries' = [entries EXCEPT ![next] = entry]
      /\ next' = (next + 1) % Capacity
  BY DEF AppendEntry
<1>3. Start = 0 /\ Start' = 0
  <2>1. (next + 1) % Capacity = IF next + 1 = Capacity THEN 0 ELSE next + 1
    BY NextSlot DEF RingInv
  <2>. QED  BY <1>1, <1>2, <2>1 DEF Start
<1>4. \A i \in 1..(size + 1) : (0 + i - 1) % Capacity = i - 1 /\ i - 1 \in Slots
  BY <1>1, Below DEF Slots
<1>5. Items = [i \in 1..size |-> entries[i - 1]]
  BY <1>1, <1>3, <1>4 DEF Items
<1>6. Items' = [i \in 1..(size + 1) |-> IF i = size + 1 THEN entry ELSE entries[i - 1]]
  BY <1>1, <1>2, <1>3, <1>4 DEF Items
<1>7. Items \in Seq(Entries) /\ Len(Items) = size
  BY ItemsTyped
<1>. QED  BY <1>1, <1>5, <1>6, <1>7

LEMMA TurningStep ==
  ASSUME RingInv, RingInv', NEW entry \in Entries, AppendEntry(entry), ~(size < Capacity)
  PROVE  Items' = Append(Tail(Items), entry)
<1>1. /\ next \in Slots /\ size = Capacity /\ Capacity \in Nat \ {0}
      /\ entries \in [Slots -> Entries \cup {NoEntry}]
  BY CapacityAssumption DEF RingInv, RingTypeOK
<1>2. size' = Capacity /\ entries' = [entries EXCEPT ![next] = entry]
      /\ next' = (next + 1) % Capacity
  BY <1>1 DEF AppendEntry
<1>3. Start = next /\ Start' = next'
  BY <1>1, <1>2 DEF Start
<1>4. ASSUME NEW i \in 1..Capacity
      PROVE  Items'[i] = IF i = Capacity THEN entry ELSE Items[i + 1]
  <2>1. Items'[i] = entries'[(next' + i - 1) % Capacity]
    BY <1>2, <1>3 DEF Items
  <2>2. /\ (next' + i - 1) % Capacity = (next + i) % Capacity
        /\ (next + i) % Capacity \in Slots
        /\ (next + i) % Capacity = next <=> i = Capacity
    BY <1>1, <1>2, Turn
  <2>3. CASE i = Capacity
    BY <1>1, <1>2, <2>1, <2>2, <2>3
  <2>4. CASE i # Capacity
    <3>1. i + 1 \in 1..size /\ next + (i + 1) - 1 = next + i
      BY <1>1, <2>4 DEF Slots
    <3>2. Items[i + 1] = entries[(next + i) % Capacity]
      BY <1>3, <3>1 DEF Items
    <3>. QED  BY <1>1, <1>2, <2>1, <2>2, <2>4, <3>2
  <2>. QED  BY <2>3, <2>4
<1>5. Items \in Seq(Entries) /\ Len(Items) = Capacity
  BY <1>1, ItemsTyped
<1>6. Items' = [i \in 1..Capacity |-> IF i = Capacity THEN entry ELSE Items[i + 1]]
  <2>1. Items' = [i \in 1..Capacity |-> Items'[i]]
    BY <1>2 DEF Items
  <2>. QED  BY <1>4, <2>1
<1>7. /\ Tail(Items) \in Seq(Entries) /\ Len(Tail(Items)) = Capacity - 1
      /\ \A i \in 1..(Capacity - 1) : Tail(Items)[i] = Items[i + 1]
  BY <1>1, <1>5
<1>8. Append(Tail(Items), entry)
        = [i \in 1..Capacity |-> IF i = Capacity THEN entry ELSE Tail(Items)[i]]
  <2>1. Capacity - 1 + 1 = Capacity
    BY <1>1
  <2>2. Len(Tail(Items)) + 1 = Capacity
    BY <1>7, <2>1
  <2>3. Append(Tail(Items), entry)
          = [i \in 1..(Len(Tail(Items)) + 1) |->
               IF i = Len(Tail(Items)) + 1 THEN entry ELSE Tail(Items)[i]]
    <3>1. \A s \in Seq(Entries) : Append(s, entry)
            = [i \in 1..(Len(s) + 1) |-> IF i = Len(s) + 1 THEN entry ELSE s[i]]
      BY AppendIs
    <3>. QED  BY <1>7, <3>1, Zenon
  <2>. QED  BY <2>2, <2>3, Zenon
<1>9. ASSUME NEW i \in 1..Capacity
      PROVE  (IF i = Capacity THEN entry ELSE Items[i + 1])
               = (IF i = Capacity THEN entry ELSE Tail(Items)[i])
  BY <1>1, <1>7
<1>. QED  BY <1>6, <1>8, <1>9

(* The ring with its wrapping index implements the history: Snapshot is    *)
(* the latest entries in order, whatever was overwritten.                  *)
THEOREM ImplementsHistory == RingSpec => HistorySpec
<1>1. RingInit => History!Init
  BY CapacityAssumption DEF RingInit, History!Init, Items
<1>2. RingInv /\ RingInv' /\ [RingNext]_ring => [History!Next]_<<Items, truncated>>
  <2> SUFFICES ASSUME RingInv, RingInv', [RingNext]_ring
               PROVE  [History!Next]_<<Items, truncated>>
    OBVIOUS
  <2>1. ASSUME NEW entry \in Entries, AppendEntry(entry) PROVE History!Write(entry)
    <3>1. Len(Items) = size
      BY ItemsTyped
    <3>2. CASE size < Capacity
      BY <2>1, <3>1, <3>2, GrowingStep DEF AppendEntry, History!Write
    <3>3. CASE ~(size < Capacity)
      BY <2>1, <3>1, <3>3, TurningStep DEF AppendEntry, History!Write
    <3>. QED  BY <3>2, <3>3
  <2>2. CASE UNCHANGED ring
    BY <2>2 DEF ring, Items, Start
  <2>. QED  BY <2>1, <2>2 DEF RingNext, History!Next
<1>. QED  BY <1>1, <1>2, RingCorrect, PTL DEF RingSpec, HistorySpec, History!Spec

-----------------------------------------------------------------------------
(* Rows of a table (module ConsolePages)                                   *)

(* How the rows go through the positions S of a list.                      *)
Traces(place, rows, list, S) ==
  /\ place \in [DOMAIN rows -> S]
  /\ \A i \in DOMAIN rows : rows[i] = list[place[i]]
  /\ \A i, j \in DOMAIN rows : i < j => place[i] < place[j]
  /\ \A x \in S : \E i \in DOMAIN rows : place[i] = x

(* A sublist goes through its positions from left to right.                *)
LEMMA SublistPlaces ==
  ASSUME NEW T, NEW list \in Seq(T), NEW S \in SUBSET DOMAIN list
  PROVE  /\ Sublist(list, S) \in Seq(T) /\ Len(Sublist(list, S)) = Cardinality(S)
         /\ \E place : Traces(place, Sublist(list, S), list, S)
<1>1. S \in SUBSET Nat /\ IsFiniteSet(S) /\ Cardinality(S) \in Nat
  BY PositionsFinite
<1>2. /\ Rising(S) \in [1..Cardinality(S) -> S]
      /\ \A x \in S : \E k \in 1..Cardinality(S) : Rising(S)[k] = x
      /\ \A i, j \in 1..Cardinality(S) : i < j => Rising(S)[i] < Rising(S)[j]
  BY <1>1, RisingFacts DEF Bijection, Injection, Surjection
<1>3. /\ DOMAIN Sublist(list, S) = 1..Cardinality(S)
      /\ Len(Sublist(list, S)) = Cardinality(S)
      /\ \A k \in 1..Cardinality(S) : Sublist(list, S)[k] = list[Rising(S)[k]]
  BY <1>1, SublistFacts
<1>4. \A i \in S : list[i] \in T
  BY ElementOfSeq
<1>5. Sublist(list, S) \in Seq(T)
  BY <1>4, SublistTyped
<1>6. DOMAIN Sublist(list, S) = 1..Cardinality(S)
  BY <1>3
<1>7. Traces(Rising(S), Sublist(list, S), list, S)
  BY <1>2, <1>3, <1>6 DEF Traces
<1>. QED  BY <1>3, <1>5, <1>7

(* A table without a search shows the whole list.                          *)
LEMMA WholeKept ==
  ASSUME NEW T, NEW list \in Seq(T)
  PROVE  ToSet(Sublist(list, DOMAIN list)) = ToSet(list)
<1>1. DOMAIN list \in SUBSET Nat /\ IsFiniteSet(DOMAIN list)
  BY PositionsFinite
<1>2. ToSet(Sublist(list, DOMAIN list)) = {list[i] : i \in DOMAIN list}
  BY <1>1, SublistFacts
<1>. QED  BY <1>2 DEF ToSet

NodeItems == Seq(NodeItem)
Unrepeated(list) == \A i, j \in DOMAIN list : list[i].key = list[j].key => i = j

LEMMA ItemTyped ==
  ASSUME NEW row \in NodeItem
  PROVE  /\ row.key \in Keys /\ row.score \in 0..MaxScore /\ row.score \in Nat
         /\ Order(row) \in Int
         /\ row.score <= MaxScore
<1>1. row.key \in Keys /\ row.score \in 0..MaxScore
  BY DEF NodeItem
<1>2. row.score \in Nat /\ row.score <= MaxScore
  BY <1>1 DEF MaxScore
<1>. QED  BY <1>1, <1>2 DEF Order

LEMMA OrderIsByScore ==
  ASSUME NEW row \in NodeItem, NEW other \in NodeItem
  PROVE  Order(row) >= Order(other) <=> row.score >= other.score
BY ItemTyped DEF Order, HasScore

(* Sorting goes through the list by the score, each row once.              *)
LEMMA SortedFacts ==
  ASSUME NEW list \in NodeItems
  PROVE  /\ Sorted(list) \in NodeItems /\ Len(Sorted(list)) = Len(list)
         /\ ToSet(Sorted(list)) = ToSet(list)
         /\ \A i, j \in DOMAIN list : i < j => Sorted(list)[i].score >= Sorted(list)[j].score
         /\ Unrepeated(list) => Unrepeated(Sorted(list))
<1>. DEFINE n == Len(list)
            place == Arranged(DOMAIN list, Better(list))
<1>1. n \in Nat /\ DOMAIN list = 1..n /\ \A i \in 1..n : list[i] \in NodeItem
  BY ElementOfSeq DEF NodeItems
<1>2. IsFiniteSet(1..n) /\ Cardinality(1..n) = n
  BY <1>1, UpTo
<1>3. \A i \in 1..n : list[i].score \in Nat /\ Order(list[i]) \in Int
                      /\ list[i].key \in Keys
  BY <1>1, ItemTyped
<1>4. \A x, y \in 1..n : <<x, y>> \in Better(list) <=>
        \/ Order(list[x]) > Order(list[y])
        \/ Order(list[x]) = Order(list[y]) /\ x <= y
  BY <1>1 DEF Better
<1>5. Linear(1..n, Better(list))
  BY <1>1, <1>3, <1>4 DEF Linear
<1>6. /\ place \in Bijection(1..n, 1..n)
      /\ \A i, j \in 1..n : i < j => <<place[i], place[j]>> \in Better(list)
  <2>. HIDE DEF place
  <2>1. place = Arranged(1..n, Better(list))
    BY <1>1 DEF place
  <2>. HIDE DEF n
  <2>. QED  BY <1>2, <1>5, <2>1, ArrangedFacts
<1>7. /\ place \in [1..n -> 1..n]
      /\ \A i, j \in 1..n : place[i] = place[j] => i = j
      /\ \A x \in 1..n : \E k \in 1..n : place[k] = x
  BY <1>6 DEF Bijection, Injection, Surjection, IsInjective
<1>8. Sorted(list) = [k \in 1..n |-> list[place[k]]]
  BY <1>7 DEF Sorted
<1>. HIDE DEF place
<1>9. Sorted(list) \in NodeItems /\ Len(Sorted(list)) = n
  <2>1. Sorted(list) \in [1..n -> NodeItem]
    BY <1>1, <1>7, <1>8
  <2>. QED  BY <1>1, <2>1 DEF NodeItems
<1>10. ToSet(Sorted(list)) = ToSet(list)
  <2>1. ToSet(Sorted(list)) = {Sorted(list)[k] : k \in 1..n}
    BY <1>8 DEF ToSet
  <2>2. ToSet(list) = {list[i] : i \in 1..n}
    BY <1>1 DEF ToSet
  <2>3. ASSUME NEW k \in 1..n PROVE Sorted(list)[k] \in ToSet(list)
    <3>1. place[k] \in 1..n /\ Sorted(list)[k] = list[place[k]]
      BY <1>7, <1>8
    <3>. QED  BY <2>2, <3>1
  <2>4. ASSUME NEW i \in 1..n PROVE list[i] \in ToSet(Sorted(list))
    <3>1. PICK k \in 1..n : place[k] = i
      BY <1>7
    <3>2. Sorted(list)[k] = list[i]
      BY <1>8, <3>1
    <3>. QED  BY <2>1, <3>2
  <2>. QED  BY <2>1, <2>2, <2>3, <2>4
<1>11. ASSUME NEW i \in 1..n, NEW j \in 1..n, i < j
       PROVE  Sorted(list)[i].score >= Sorted(list)[j].score
  <2>1. Order(list[place[i]]) >= Order(list[place[j]])
    <3>1. place[i] \in 1..n /\ place[j] \in 1..n /\ <<place[i], place[j]>> \in Better(list)
      BY <1>6, <1>7, <1>11
    <3>. QED  BY <1>3, <1>4, <3>1
  <2>2. list[place[i]] \in NodeItem /\ list[place[j]] \in NodeItem
    BY <1>1, <1>7
  <2>. QED  BY <1>8, <2>1, <2>2, OrderIsByScore
<1>12. Unrepeated(list) => Unrepeated(Sorted(list))
  <2> SUFFICES ASSUME Unrepeated(list), NEW i \in 1..n, NEW j \in 1..n,
                      Sorted(list)[i].key = Sorted(list)[j].key
               PROVE  i = j
    BY <1>8 DEF Unrepeated
  <2>1. /\ place[i] \in 1..n /\ place[j] \in 1..n
        /\ list[place[i]].key = list[place[j]].key
    BY <1>7, <1>8
  <2>2. place[i] = place[j]
    BY <1>1, <2>1 DEF Unrepeated
  <2>. QED  BY <1>7, <2>2
<1>. QED  BY <1>1, <1>9, <1>10, <1>11, <1>12

(* Without repetition a row is found at its place in the sorted list.      *)
LEMMA RankIsPlace ==
  ASSUME NEW list \in NodeItems, Unrepeated(list), NEW k \in DOMAIN list
  PROVE  Rank(list, Sorted(list)[k]) = k
<1>1. Unrepeated(Sorted(list)) /\ DOMAIN Sorted(list) = DOMAIN list /\ k \in Nat
  <2>1. Sorted(list) \in Seq(NodeItem) /\ list \in Seq(NodeItem) /\ Len(Sorted(list)) = Len(list)
    BY SortedFacts DEF NodeItems
  <2>. QED  BY <2>1, SortedFacts
<1>. DEFINE found == {i \in DOMAIN Sorted(list) : Sorted(list)[i].key = Sorted(list)[k].key}
<1>2. found = {k}
  BY <1>1 DEF Unrepeated
<1>3. Min(found) = k
  BY <1>1, <1>2 DEF Min
<1>. QED  BY <1>2, <1>3 DEF Rank, FoundAt

(* Its place lies between the rows that are better and those that are      *)
(* not worse.                                                              *)
LEMMA PlaceIsStanding ==
  ASSUME NEW list \in NodeItems, Unrepeated(list), NEW k \in DOMAIN list
  PROVE  LET score == Sorted(list)[k].score
         IN  /\ k > Cardinality({row \in ToSet(list) : row.score > score})
             /\ k <= Cardinality({row \in ToSet(list) : row.score >= score})
<1>. DEFINE n == Len(list)
            s == Sorted(list)
            score == s[k].score
            better == {i \in 1..n : s[i].score > score}
            atLeast == {i \in 1..n : s[i].score >= score}
<1>1. /\ s \in Seq(NodeItem) /\ DOMAIN s = 1..n /\ DOMAIN list = 1..n /\ n \in Nat
      /\ k \in 1..n /\ ToSet(s) = ToSet(list)
      /\ \A i, j \in 1..n : i < j => s[i].score >= s[j].score
      /\ \A i, j \in 1..n : s[i].key = s[j].key => i = j
  <2>1. list \in Seq(NodeItem) /\ s \in Seq(NodeItem) /\ Len(s) = n
    BY SortedFacts DEF NodeItems
  <2>2. DOMAIN s = 1..n /\ DOMAIN list = 1..n /\ n \in Nat
    BY <2>1
  <2>. QED  BY <2>1, <2>2, SortedFacts DEF Unrepeated
<1>. HIDE DEF s
<1>2. \A i \in 1..n : s[i].score \in Nat
  <2>1. \A i \in 1..n : s[i] \in NodeItem
    BY <1>1, ElementOfSeq
  <2>. QED  BY <2>1, ItemTyped
<1>3. ToSet(list) = {s[i] : i \in 1..n}
  BY <1>1 DEF ToSet
<1>4. ASSUME NEW S \in SUBSET (1..n), NEW V,
             \A i \in S : s[i] \in V, \A v \in V : \E i \in S : s[i] = v
      PROVE  Cardinality(V) = Cardinality(S)
  <2>1. S \in SUBSET DOMAIN s /\ \A i, j \in S : s[i] = s[j] => i = j
    BY <1>1
  <2>. QED  BY <1>1, <1>4, <2>1, ValuesCounted
<1>5. Cardinality({row \in ToSet(list) : row.score > score}) = Cardinality(better)
  <2>. DEFINE V == {row \in ToSet(list) : row.score > score}
  <2>1. \A i \in better : s[i] \in V
    BY <1>3
  <2>2. \A v \in V : \E i \in better : s[i] = v
    BY <1>3
  <2>. HIDE DEF V, better
  <2>3. better \in SUBSET (1..n)
    BY DEF better
  <2>4. Cardinality(V) = Cardinality(better)
    BY <1>4, <2>1, <2>2, <2>3
  <2>. QED  BY <2>4 DEF V
<1>6. Cardinality({row \in ToSet(list) : row.score >= score}) = Cardinality(atLeast)
  <2>. DEFINE V == {row \in ToSet(list) : row.score >= score}
  <2>1. \A i \in atLeast : s[i] \in V
    BY <1>3
  <2>2. \A v \in V : \E i \in atLeast : s[i] = v
    BY <1>3
  <2>. HIDE DEF V, atLeast
  <2>3. atLeast \in SUBSET (1..n)
    BY DEF atLeast
  <2>4. Cardinality(V) = Cardinality(atLeast)
    BY <1>4, <2>1, <2>2, <2>3
  <2>. QED  BY <2>4 DEF V
<1>7. Cardinality(better) < k
  <2>1. better \in SUBSET (1..(k - 1))
    BY <1>1, <1>2
  <2>2. IsFiniteSet(1..(k - 1)) /\ Cardinality(1..(k - 1)) = k - 1
    <3>1. k - 1 \in Nat
      BY <1>1
    <3>. QED  BY <3>1, UpTo
  <2>3. Cardinality(better) <= k - 1 /\ Cardinality(better) \in Nat
    BY <2>1, <2>2, FS_Subset, FS_CardinalityType
  <2>4. k \in Nat
    BY <1>1
  <2>. QED  BY <2>3, <2>4
<1>8. k <= Cardinality(atLeast)
  <2>1. (1..k) \in SUBSET atLeast
    BY <1>1, <1>2
  <2>2. IsFiniteSet(atLeast) /\ Cardinality(1..k) = k
    <3>1. k \in Nat
      BY <1>1
    <3>2. IsFiniteSet(1..n)
      BY <1>1, UpTo
    <3>. QED  BY <3>1, <3>2, UpTo, FS_Subset
  <2>3. Cardinality(1..k) <= Cardinality(atLeast)
    BY <2>1, <2>2, FS_Subset
  <2>. QED  BY <2>2, <2>3
<1>. QED
  <2>1. /\ k > Cardinality({row \in ToSet(list) : row.score > score})
        /\ k <= Cardinality({row \in ToSet(list) : row.score >= score})
    BY <1>5, <1>6, <1>7, <1>8
  <2>. QED  BY <2>1 DEF s

-----------------------------------------------------------------------------
(* What a refresh publishes                                                *)

LEMMA SmallNumbers == 0 \in 0..MaxScore /\ MaxScore \in 0..MaxScore
BY DEF MaxScore

PublishedLists(p) ==
  /\ p.resolved \in NodeItems /\ p.resolved # <<>>
  /\ p.candidates \in NodeItems /\ p.candidates # <<>> /\ Unrepeated(p.candidates)
  /\ p.dropped = Len(p.resolved) - Len(p.candidates) /\ p.dropped \in Nat
  /\ p.sources \in SourcesResponse /\ p.sources # <<>>
  /\ DOMAIN p.statuses \subseteq Keys
  /\ p.statuses \in [DOMAIN p.statuses -> 0..MaxScore]
  /\ \A i \in DOMAIN p.candidates :
       /\ p.candidates[i].key \in DOMAIN p.statuses
       /\ p.candidates[i].score = p.statuses[p.candidates[i].key]
  /\ p.handedOver \in Seq(Keys) /\ p.penalized \subseteq Keys

(* Every candidate is listed with the score of its status, and no list     *)
(* that the API hands out as it is can be empty.                           *)
LEMMA PublishedTyped ==
  ASSUME NEW p \in Published
  PROVE  PublishedLists(p)
<1>1. PICK refresh \in Refreshes : Publishable(refresh) /\ p = Publish(refresh)
  BY DEF Published
<1>. DEFINE nodes == refresh.nodes
            Input == [key : Keys, passes : BOOLEAN]
            S == {i \in DOMAIN nodes : nodes[i].passes}
            kept == Sublist(nodes, S)
            known == DOMAIN refresh.statuses
            score == [key \in known \cup {kept[i].key : i \in DOMAIN kept} |->
                        IF key \in known THEN refresh.statuses[key] ELSE MaxScore]
<1>2. /\ nodes \in Seq(Input)
      /\ \A i, j \in DOMAIN nodes : nodes[i].key = nodes[j].key => i = j
      /\ refresh.sources \in Seq(DOMAIN SourceHas)
      /\ nodes # <<>> => refresh.sources # <<>>
      /\ DOMAIN refresh.statuses \subseteq Keys
      /\ refresh.statuses \in [DOMAIN refresh.statuses -> 0..MaxScore]
      /\ refresh.handedOver \in Seq(Keys)
      /\ refresh.penalized \subseteq Keys
  BY RefreshesAssumption
<1>3. S # {} /\ S \in SUBSET DOMAIN nodes /\ nodes # <<>>
  BY <1>1, <1>2 DEF Publishable
<1>4. /\ DOMAIN nodes = 1..Len(nodes) /\ Len(nodes) \in Nat
      /\ \A i \in DOMAIN nodes : nodes[i] \in Input
  <2>. HIDE DEF Input, nodes
  <2>. QED  BY <1>2, ElementOfSeq
<1>5. Cardinality(S) \in Nat /\ Cardinality(S) <= Len(nodes)
  <2>1. IsFiniteSet(1..Len(nodes)) /\ Cardinality(1..Len(nodes)) = Len(nodes)
    BY <1>4, UpTo
  <2>. HIDE DEF S
  <2>. QED  BY <1>3, <1>4, <2>1, FS_Subset, FS_CardinalityType
<1>6. /\ kept \in Seq(Input) /\ Len(kept) = Cardinality(S)
      /\ \E place : Traces(place, kept, nodes, S)
  <2>. HIDE DEF S, Input, nodes
  <2>1. nodes \in Seq(Input) /\ S \in SUBSET DOMAIN nodes
    BY <1>2, <1>3
  <2>. QED  BY <2>1, SublistPlaces
<1>. HIDE DEF kept
<1>7. PICK place :
        /\ place \in [DOMAIN kept -> S]
        /\ \A i \in DOMAIN kept : kept[i] = nodes[place[i]]
        /\ \A i, j \in DOMAIN kept : i < j => place[i] < place[j]
        /\ \A x \in S : \E i \in DOMAIN kept : place[i] = x
  BY <1>6 DEF Traces
<1>8. /\ DOMAIN kept = 1..Len(kept) /\ Len(kept) \in Nat
      /\ \A i \in DOMAIN kept : kept[i] \in Input
      /\ kept # <<>>
  <2>1. \A i \in DOMAIN kept : kept[i] \in Input
    <3>. HIDE DEF Input
    <3>. QED  BY <1>6, ElementOfSeq
  <2>2. DOMAIN kept # {}
    BY <1>3, <1>7
  <2>. QED  BY <1>6, <2>1, <2>2
<1>9. \A i, j \in DOMAIN kept : kept[i].key = kept[j].key => i = j
  <2> TAKE i \in DOMAIN kept, j \in DOMAIN kept
  <2> HAVE kept[i].key = kept[j].key
  <2>1. place[i] \in DOMAIN nodes /\ place[j] \in DOMAIN nodes
    BY <1>7
  <2>2. place[i] = place[j]
    BY <1>2, <1>7, <2>1
  <2>3. i \in Nat /\ j \in Nat /\ place[i] \in Nat
    BY <1>4, <1>8, <2>1
  <2>4. ~(i < j) /\ ~(j < i)
    BY <1>7, <2>2, <2>3
  <2>. QED  BY <2>3, <2>4
<1>10. /\ DOMAIN score = DOMAIN refresh.statuses \cup {kept[i].key : i \in DOMAIN kept}
       /\ \A key \in DOMAIN score : score[key] \in 0..MaxScore
       /\ score = [key \in DOMAIN score |-> score[key]]
       /\ DOMAIN score \subseteq Keys
       /\ \A i \in DOMAIN kept : kept[i].key \in DOMAIN score
  <2>1. {kept[i].key : i \in DOMAIN kept} \subseteq Keys
    BY <1>8
  <2>2. \A key \in DOMAIN score : score[key] \in 0..MaxScore
    BY <1>2, SmallNumbers
  <2>. QED  BY <1>2, <2>1, <2>2
<1>. HIDE DEF score
<1>11. /\ p.resolved = [i \in DOMAIN nodes |-> Row(nodes[i].key, 0)]
       /\ p.candidates = [i \in DOMAIN kept |-> Row(kept[i].key, score[kept[i].key])]
       /\ p.dropped = Len(nodes) - Len(kept)
       /\ p.sources = refresh.sources
       /\ p.statuses = score
       /\ p.handedOver = refresh.handedOver
       /\ p.penalized = refresh.penalized
  BY <1>1 DEF Publish, score, kept
<1>12. p.resolved \in NodeItems /\ Len(p.resolved) = Len(nodes)
  <2>1. \A i \in DOMAIN nodes : Row(nodes[i].key, 0) \in NodeItem
    BY <1>4, SmallNumbers DEF Row, NodeItem
  <2>2. p.resolved \in [1..Len(nodes) -> NodeItem]
    BY <1>4, <1>11, <2>1
  <2>. QED  BY <1>4, <2>2 DEF NodeItems
<1>13. p.candidates \in NodeItems /\ Len(p.candidates) = Len(kept) /\ DOMAIN p.candidates = DOMAIN kept
  <2>1. \A i \in DOMAIN kept : Row(kept[i].key, score[kept[i].key]) \in NodeItem
    BY <1>8, <1>10 DEF Row, NodeItem
  <2>2. p.candidates \in [1..Len(kept) -> NodeItem]
    BY <1>8, <1>11, <2>1
  <2>. QED  BY <1>8, <2>2 DEF NodeItems
<1>14. p.resolved # <<>> /\ p.candidates # <<>>
  <2>1. Len(nodes) # 0 /\ Len(kept) # 0
    BY <1>2, <1>3, <1>6, <1>8
  <2>. QED  BY <1>12, <1>13, <2>1
<1>15. p.dropped = Len(p.resolved) - Len(p.candidates) /\ p.dropped \in Nat
  <2>1. /\ Len(nodes) \in Nat /\ Len(kept) \in Nat
        /\ Len(kept) <= Len(nodes)
    BY <1>4, <1>5, <1>6
  <2>2. p.dropped = Len(nodes) - Len(kept)
    BY <1>11
  <2>3. Len(p.resolved) = Len(nodes) /\ Len(p.candidates) = Len(kept)
    BY <1>12, <1>13
  <2>. QED  BY <2>1, <2>2, <2>3
<1>16. \A i \in DOMAIN p.candidates :
         /\ p.candidates[i].key = kept[i].key
         /\ p.candidates[i].score = score[kept[i].key]
  BY <1>11, <1>13 DEF Row
<1>17. Unrepeated(p.candidates)
  <2>1. ASSUME NEW i \in DOMAIN kept, NEW j \in DOMAIN kept,
               p.candidates[i].key = p.candidates[j].key
        PROVE  i = j
    <3>1. p.candidates[i].key = kept[i].key /\ p.candidates[j].key = kept[j].key
      BY <1>13, <1>16
    <3>. QED  BY <1>9, <2>1, <3>1
  <2>2. DOMAIN p.candidates = DOMAIN kept
    BY <1>13
  <2>. QED  BY <2>1, <2>2 DEF Unrepeated
<1>18. p.sources \in SourcesResponse /\ p.sources # <<>>
  BY <1>2, <1>3, <1>11 DEF SourcesResponse
<1>19. /\ DOMAIN p.statuses \subseteq Keys
       /\ p.statuses \in [DOMAIN p.statuses -> 0..MaxScore]
  BY <1>10, <1>11
<1>20. \A i \in DOMAIN p.candidates :
         /\ p.candidates[i].key \in DOMAIN p.statuses
         /\ p.candidates[i].score = p.statuses[p.candidates[i].key]
  BY <1>10, <1>11, <1>13, <1>16
<1>21. p.handedOver \in Seq(Keys) /\ p.penalized \subseteq Keys
  BY <1>2, <1>11
<1>. QED
  BY <1>12, <1>13, <1>14, <1>15, <1>17, <1>18, <1>19, <1>20, <1>21 DEF PublishedLists

-----------------------------------------------------------------------------
(* What the console makes of it                                            *)

AnswerOf(answer, from) ==
  /\ answer \in ApiSnapshot
  /\ answer.status = StatusPayload(from["status"])
  /\ answer.sources = from["sources"].sources
  /\ answer.nodes.items = from["nodes"].resolved
  /\ answer.candidates.items = from["candidates"].candidates
  /\ answer.health = NormalizeHealthResponse(HealthPayload(from["health"]))
  /\ answer.logs.count = Len(answer.logs.items)
  /\ answer.logs.truncated => answer.logs.count = answer.logs.capacity

LEMMA CountTyped ==
  ASSUME NEW T, NEW list \in Seq(T), NEW S \in SUBSET DOMAIN list
  PROVE  Cardinality(S) \in Nat
BY PositionsFinite

LEMMA KeysCounted ==
  ASSUME NEW S \in SUBSET Keys
  PROVE  Cardinality(S) \in Nat
BY PagesAssumption, FS_Subset, FS_CardinalityType

LEMMA HealthTyped ==
  ASSUME NEW p \in Published
  PROVE  NormalizeHealthResponse(HealthPayload(p)) \in HealthResponse
<1>. DEFINE rows == p.candidates
            degraded == {i \in DOMAIN rows : rows[i].score > 0 /\ ~Ready(rows[i].score)}
            ready == {i \in DOMAIN rows : Ready(rows[i].score)}
            last == IF JsonList(p.handedOver) = JsonNull THEN <<>> ELSE JsonList(p.handedOver)
<1>1. PublishedLists(p)
  BY PublishedTyped
<1>2. Cardinality(degraded) \in Nat /\ Cardinality(ready) \in Nat
  <2>1. p.candidates \in Seq(NodeItem)
    BY <1>1 DEF PublishedLists, NodeItems
  <2>2. degraded \in SUBSET DOMAIN rows /\ ready \in SUBSET DOMAIN rows
    OBVIOUS
  <2>. HIDE DEF degraded, ready
  <2>. QED  BY <2>1, <2>2, CountTyped
<1>3. /\ Cardinality(DOMAIN p.statuses) \in Nat /\ Cardinality(p.penalized) \in Nat
      /\ p.penalized \in SUBSET Keys
      /\ DOMAIN p.statuses \in SUBSET Keys
      /\ p.statuses \in [DOMAIN p.statuses -> 0..MaxScore]
  BY <1>1, KeysCounted DEF PublishedLists
<1>4. p.statuses \in UNION {[keys -> 0..MaxScore] : keys \in SUBSET Keys}
  BY <1>3
<1>5. last \in Seq(Keys)
  BY <1>1 DEF PublishedLists, JsonList
<1>. HIDE DEF degraded, ready, last
<1>6. HealthPayload(p) =
        [tracked_nodes   |-> Cardinality(DOMAIN p.statuses),
         ready_nodes     |-> Cardinality(ready),
         degraded_nodes  |-> Cardinality(degraded),
         last_candidates |-> JsonList(p.handedOver),
         nodes           |-> p.statuses,
         penalized_nodes |-> Cardinality(p.penalized),
         penalty_pool    |-> p.penalized]
  BY DEF HealthPayload, HealthWith, degraded, ready
<1>7. NormalizeHealthResponse(HealthPayload(p)) =
        [tracked_nodes   |-> Cardinality(DOMAIN p.statuses),
         ready_nodes     |-> Cardinality(ready),
         degraded_nodes  |-> Cardinality(degraded),
         last_candidates |-> last,
         nodes           |-> p.statuses,
         penalized_nodes |-> Cardinality(p.penalized),
         penalty_pool    |-> p.penalized]
  BY <1>6 DEF NormalizeHealthResponse, last
<1>. QED  BY <1>2, <1>3, <1>4, <1>5, <1>7 DEF HealthResponse

LEMMA LogsTyped ==
  ASSUME RingInv
  PROVE  /\ LogsPayload \in LogsResponse
         /\ LogsPayload.count = Len(LogsPayload.items)
         /\ LogsPayload.truncated => LogsPayload.count = LogsPayload.capacity
<1>1. Items \in Seq(Entries) /\ Len(Items) = size
  BY ItemsTyped
<1>2. /\ size \in 0..Capacity /\ truncated \in BOOLEAN /\ Capacity \in Nat
      /\ size < Capacity => ~truncated
  BY CapacityAssumption DEF RingInv, RingTypeOK
<1>. HIDE DEF Items
<1>3. size \in Nat /\ (truncated => size = Capacity)
  BY <1>2
<1>. QED  BY <1>1, <1>2, <1>3 DEF LogsPayload, LogsResponse

LEMMA AnswersTyped ==
  ASSUME RingInv, NEW from \in [Endpoints -> Published]
  PROVE  AnswerOf(FetchSnapshot(from), from)
<1>1. /\ from["status"] \in Published /\ from["sources"] \in Published /\ from["nodes"] \in Published
      /\ from["candidates"] \in Published /\ from["health"] \in Published
  BY DEF Endpoints
<1>2. StatusPayload(from["status"]) \in StatusResponse
  <2>1. PublishedLists(from["status"])
    BY <1>1, PublishedTyped
  <2>. QED  BY <2>1, LenProperties DEF PublishedLists, NodeItems, StatusPayload, StatusResponse
<1>3. /\ JsonList(from["sources"].sources) = from["sources"].sources
      /\ from["sources"].sources \in SourcesResponse
  <2>1. PublishedLists(from["sources"])
    BY <1>1, PublishedTyped
  <2>. QED  BY <2>1 DEF PublishedLists, JsonList
<1>4. /\ NodesPayload(from["nodes"].resolved) \in NodesResponse
      /\ NodesPayload(from["nodes"].resolved).items = from["nodes"].resolved
  <2>1. PublishedLists(from["nodes"])
    BY <1>1, PublishedTyped
  <2>. QED  BY <2>1, LenProperties DEF PublishedLists, NodeItems, JsonList, NodesPayload, NodesResponse
<1>5. /\ NodesPayload(from["candidates"].candidates) \in NodesResponse
      /\ NodesPayload(from["candidates"].candidates).items = from["candidates"].candidates
  <2>1. PublishedLists(from["candidates"])
    BY <1>1, PublishedTyped
  <2>. QED  BY <2>1, LenProperties DEF PublishedLists, NodeItems, JsonList, NodesPayload, NodesResponse
<1>6. NormalizeHealthResponse(HealthPayload(from["health"])) \in HealthResponse
  BY <1>1, HealthTyped
<1>. QED
  BY <1>2, <1>3, <1>4, <1>5, <1>6, LogsTyped DEF FetchSnapshot, AnswerOf, ApiSnapshot

-----------------------------------------------------------------------------
(* A page is mounted only with answers, and what is shown are answers to   *)
(* published snapshots, together with the ring's.                          *)
PagesInv ==
  /\ RingInv
  /\ active \in navKeys /\ card \in {"loading", "error", "none"}
  /\ activeTier \in CandidateTier \cup {NoTier} /\ keyword \in Keywords \cup {""}
  /\ Mounted => apiSnapshot # JsonNull
  /\ apiSnapshot # JsonNull =>
       answeredBy \in [Endpoints -> Published] /\ AnswerOf(apiSnapshot, answeredBy)

LEMMA PagesStart == PagesInit => PagesInv
BY RingStart DEF PagesInit, PagesInv, Mounted, navKeys

LEMMA RingKept == RingInv /\ UNCHANGED ring => RingInv'
BY DEF ring, RingInv, RingTypeOK

LEMMA PagesStep == PagesInv /\ [PagesNext]_pages => PagesInv'
<1> SUFFICES ASSUME PagesInv, [PagesNext]_pages PROVE PagesInv'
  OBVIOUS
<1>. USE DEF PagesInv, Mounted
<1>. DEFINE shown == apiSnapshot # JsonNull =>
              answeredBy \in [Endpoints -> Published] /\ AnswerOf(apiSnapshot, answeredBy)
<1>1. ASSUME NEW page \in navKeys, Navigate(page) PROVE PagesInv'
  BY <1>1, RingKept DEF Navigate, Unmounted
<1>2. ASSUME NEW tier \in CandidateTier, ToggleTier(tier) PROVE PagesInv'
  BY <1>2, RingKept DEF ToggleTier
<1>3. CASE ClearTier
  BY <1>3, RingKept DEF ClearTier
<1>4. ASSUME NEW word \in Keywords \cup {""}, Search(word) PROVE PagesInv'
  BY <1>4, RingKept DEF Search
<1>5. CASE RefreshStarts
  BY <1>5, RingKept DEF RefreshStarts, Unmounted
<1>6. ASSUME NEW before \in Published, NEW after \in Published, NEW early \in Early,
             SnapshotArrives(before, after, early)
      PROVE  PagesInv'
  <2>1. answeredBy' \in [Endpoints -> Published] /\ apiSnapshot' = FetchSnapshot(answeredBy')
    BY <1>6 DEF SnapshotArrives
  <2>2. AnswerOf(apiSnapshot', answeredBy')
    BY <2>1, AnswersTyped
  <2>3. apiSnapshot' # JsonNull
    BY <2>2, NullAssumption DEF AnswerOf
  <2>4. /\ UNCHANGED <<active, activeTier, keyword, ring>>
        /\ card' = IF card = "loading" THEN "none" ELSE card
    BY <1>6 DEF SnapshotArrives
  <2>5. RingInv'
    BY <2>4, RingKept
  <2>. QED  BY <2>1, <2>2, <2>3, <2>4, <2>5
<1>7. CASE RefreshFails
  BY <1>7, RingKept DEF RefreshFails, Unmounted
<1>8. CASE LogWritten
  <2>1. RingInv'
    BY <1>8, RingStep DEF LogWritten, RingNext
  <2>. QED  BY <1>8, <2>1 DEF LogWritten, ui
<1>9. CASE UNCHANGED pages
  BY <1>9, RingKept DEF pages, ui
<1>. QED
  BY <1>1, <1>2, <1>3, <1>4, <1>5, <1>6, <1>7, <1>8, <1>9 DEF PagesNext

THEOREM PagesCorrect == PagesSpec => []PagesInv
BY PagesStart, PagesStep, PTL DEF PagesSpec

(* lib/api.ts, requestJson: its casts are true, for any lists a refresh    *)
(* may hand over.                                                          *)
THEOREM AnswersAreCastRight == PagesSpec => []CastsAreTrue
<1>1. PagesInv => CastsAreTrue
  BY DEF PagesInv, CastsAreTrue, AnswerOf
<1>. QED  BY <1>1, PagesCorrect, PTL

(* Whatever a user does in the console, the ring below it is a history.    *)
THEOREM PagesKeepHistory == PagesSpec => HistorySpec
<1>1. PagesInit => RingInit
  BY DEF PagesInit
<1>2. [PagesNext]_pages => [RingNext]_ring
  BY DEF PagesNext, pages, Navigate, ToggleTier, ClearTier, Search, RefreshStarts,
         SnapshotArrives, RefreshFails, LogWritten
<1>3. PagesSpec => RingSpec
  BY <1>1, <1>2, PTL DEF PagesSpec, RingSpec
<1>. QED  BY <1>3, ImplementsHistory, PTL

-----------------------------------------------------------------------------
(* What a page is made of                                                  *)

LEMMA WholeTyped ==
  ASSUME PagesInv, Mounted
  PROVE  /\ active = "sources" => Whole \in Seq(DOMAIN SourceHas) /\ Whole = apiSnapshot.sources
         /\ active = "nodes" => Whole \in NodeItems
         /\ active = "candidates" => Whole \in NodeItems /\ Unrepeated(Whole)
<1>1. answeredBy \in [Endpoints -> Published] /\ AnswerOf(apiSnapshot, answeredBy)
  BY DEF PagesInv
<1>2. /\ apiSnapshot.sources \in Seq(DOMAIN SourceHas)
      /\ apiSnapshot.nodes.items \in NodeItems
      /\ apiSnapshot.candidates.items \in NodeItems
  BY <1>1 DEF AnswerOf, ApiSnapshot, SourcesResponse, NodesResponse, NodeItems
<1>3. Unrepeated(apiSnapshot.candidates.items)
  <2>1. answeredBy["candidates"] \in Published
    BY <1>1 DEF Endpoints
  <2>. QED  BY <1>1, <2>1, PublishedTyped DEF AnswerOf, PublishedLists
<1>. QED  BY <1>2, <1>3 DEF Whole

(* app.tsx, pages and data-table.tsx: without a search, and without a tier *)
(* whose name stands above the table, the table is complete.               *)
THEOREM NothingIsHidden == PagesSpec => []NothingHiddenSilently
<1>1. PagesInv => NothingHiddenSilently
  <2> SUFFICES ASSUME PagesInv, Mounted, active \in Tables, keyword = "", ~TitleAction
               PROVE  ToSet(Rows) = ToSet(Whole)
    BY DEF NothingHiddenSilently
  <2>1. CASE active = "sources"
    <3>1. Rows = Sublist(Whole, DOMAIN Whole)
      BY <2>1, WholeTyped DEF Rows, SourcesPage, Filtered
    <3>. QED  BY <2>1, <3>1, WholeTyped, WholeKept
  <2>2. CASE active = "nodes"
    <3>1. Rows = Sublist(Whole, DOMAIN Whole)
      BY <2>2 DEF Rows, NodesPage, FilteredItems, SortedItems, Filtered
    <3>2. Whole \in Seq(NodeItem)
      BY <2>2, WholeTyped DEF NodeItems
    <3>. QED  BY <3>1, <3>2, WholeKept
  <2>3. CASE active = "candidates"
    <3>1. Rows = Sublist(Sorted(Whole), DOMAIN Sorted(Whole))
      BY <2>3 DEF Rows, NodesPage, FilteredItems, SortedItems, Filtered, TitleAction
    <3>2. Whole \in NodeItems
      BY <2>3, WholeTyped
    <3>3. Sorted(Whole) \in Seq(NodeItem) /\ ToSet(Sorted(Whole)) = ToSet(Whole)
      BY <3>2, SortedFacts DEF NodeItems
    <3>. QED  BY <3>1, <3>3, WholeKept
  <2>. QED  BY <2>1, <2>2, <2>3 DEF Tables
<1>. QED  BY <1>1, PagesCorrect, PTL

-----------------------------------------------------------------------------
(* The table of candidates                                                 *)

Covers(f, B, C) == (\A x \in B : f[x] \in C) /\ (\A c \in C : \E x \in B : f[x] = c)

LEMMA TracesCompose ==
  ASSUME NEW list, NEW middle, NEW rows, NEW A, NEW B \in SUBSET DOMAIN middle, NEW C,
         NEW f, NEW g, Traces(f, middle, list, A), Traces(g, rows, middle, B),
         Covers(f, B, C)
  PROVE  \E place : Traces(place, rows, list, C)
<1>. DEFINE place == [i \in DOMAIN rows |-> f[g[i]]]
<1>1. /\ g \in [DOMAIN rows -> B]
      /\ \A i \in DOMAIN rows : rows[i] = middle[g[i]]
      /\ \A i, j \in DOMAIN rows : i < j => g[i] < g[j]
      /\ \A x \in B : \E i \in DOMAIN rows : g[i] = x
  BY DEF Traces
<1>2. /\ \A i \in DOMAIN middle : middle[i] = list[f[i]]
      /\ \A i, j \in DOMAIN middle : i < j => f[i] < f[j]
  BY DEF Traces
<1>3. place \in [DOMAIN rows -> C]
  BY <1>1 DEF Covers
<1>4. \A i \in DOMAIN rows : g[i] \in DOMAIN middle /\ rows[i] = list[place[i]]
  BY <1>1, <1>2
<1>5. \A i, j \in DOMAIN rows : i < j => place[i] < place[j]
  BY <1>1, <1>2, <1>4
<1>6. \A c \in C : \E i \in DOMAIN rows : place[i] = c
  <2> TAKE c \in C
  <2>1. PICK x \in B : f[x] = c
    BY DEF Covers
  <2>2. PICK i \in DOMAIN rows : g[i] = x
    BY <1>1
  <2>. QED  BY <2>1, <2>2
<1>. HIDE DEF place
<1>7. Traces(place, rows, list, C)
  BY <1>3, <1>4, <1>5, <1>6 DEF Traces
<1>. QED  BY <1>7

(* Both filters keep the order, and they keep what belongs to both.        *)
Belongs(row) ==
  /\ activeTier = NoTier \/ InTier(row, activeTier)
  /\ Filtered(SearchableText(row))

LEMMA CandidatesTrace ==
  ASSUME NEW list \in NodeItems, activeTier \in CandidateTier \cup {NoTier},
         active = "candidates", Whole = list
  PROVE  /\ Rows \in Seq(NodeItem)
         /\ \E place : Traces(place, Rows, Sorted(list),
                              {k \in DOMAIN list : Belongs(Sorted(list)[k])})
<1>. DEFINE s == Sorted(list)
            C == {k \in DOMAIN list : Belongs(s[k])}
<1>1. s \in Seq(NodeItem) /\ DOMAIN s = DOMAIN list
  <2>1. list \in Seq(NodeItem) /\ s \in Seq(NodeItem) /\ Len(s) = Len(list)
    BY SortedFacts DEF NodeItems
  <2>. QED  BY <2>1
<1>2. CASE activeTier = NoTier
  <2>1. Rows = Sublist(s, C)
    BY <1>1, <1>2 DEF Rows, NodesPage, FilteredItems, SortedItems, Belongs
  <2>. HIDE DEF s, C
  <2>2. C \in SUBSET DOMAIN s
    BY <1>1 DEF C
  <2>3. Sublist(s, C) \in Seq(NodeItem) /\ \E place : Traces(place, Sublist(s, C), s, C)
    BY <1>1, <2>2, SublistPlaces
  <2>. QED  BY <2>1, <2>3 DEF s, C
<1>3. CASE activeTier # NoTier
  <2>. DEFINE A == {i \in DOMAIN s : InTier(s[i], activeTier)}
              middle == Sublist(s, A)
              B == {i \in DOMAIN middle : Filtered(SearchableText(middle[i]))}
  <2>1. Rows = Sublist(middle, B)
    BY <1>3 DEF Rows, NodesPage, FilteredItems, SortedItems, TierItems
  <2>. HIDE DEF s
  <2>2. middle \in Seq(NodeItem) /\ \E f : Traces(f, middle, s, A)
    <3>1. A \in SUBSET DOMAIN s
      OBVIOUS
    <3>. HIDE DEF A
    <3>. QED  BY <1>1, <3>1, SublistPlaces
  <2>. HIDE DEF middle
  <2>3. PICK f : Traces(f, middle, s, A)
    BY <2>2
  <2>4. B \in SUBSET DOMAIN middle
    OBVIOUS
  <2>5. Rows \in Seq(NodeItem) /\ \E g : Traces(g, Rows, middle, B)
    <3>. HIDE DEF B
    <3>. QED  BY <2>1, <2>2, <2>4, SublistPlaces
  <2>6. PICK g : Traces(g, Rows, middle, B)
    BY <2>5
  <2>7. /\ f \in [DOMAIN middle -> A]
        /\ \A i \in DOMAIN middle : middle[i] = s[f[i]]
        /\ \A x \in A : \E i \in DOMAIN middle : f[i] = x
    BY <2>3 DEF Traces
  <2>8. \A x \in B : f[x] \in C
    BY <1>1, <2>7 DEF Belongs
  <2>9. ASSUME NEW c \in C PROVE \E x \in B : f[x] = c
    <3>1. c \in A /\ Filtered(SearchableText(s[c]))
      BY <1>1, <1>3 DEF Belongs
    <3>2. PICK i \in DOMAIN middle : f[i] = c
      BY <2>7, <3>1
    <3>. QED  BY <2>7, <3>1, <3>2
  <2>. HIDE DEF A, B, C
  <2>10. \E place : Traces(place, Rows, s, C)
    <3>1. Covers(f, B, C)
      BY <2>8, <2>9 DEF Covers
    <3>. QED  BY <2>3, <2>4, <2>6, <3>1, TracesCompose
  <2>. QED  BY <2>5, <2>10 DEF s, C
<1>. QED  BY <1>2, <1>3

(* The tiers of the filter are those of the badges.                        *)
LEMMA TierIsQuality ==
  ASSUME NEW row \in NodeItem, NEW tier \in CandidateTier
  PROVE  InTier(row, tier) <=> QualityTier(row) = tier
<1>1. row.score \in Nat
  BY ItemTyped
<1>2. CASE tier = "primary"
  BY <1>1, <1>2 DEF InTier, QualityTier, HasScore, NoTier
<1>3. CASE tier = "stable"
  BY <1>1, <1>3 DEF InTier, QualityTier, HasScore, NoTier
<1>4. CASE tier = "observe"
  BY <1>1, <1>4 DEF InTier, QualityTier, HasScore, NoTier
<1>5. CASE tier = "fallback"
  BY <1>1, <1>5 DEF InTier, QualityTier, HasScore, NoTier
<1>. QED  BY <1>2, <1>3, <1>4, <1>5 DEF CandidateTier

(* pages/nodes-page.tsx, the candidates: whatever is filtered, the rows    *)
(* are in order, each at its place in the whole list, and complete.        *)
THEOREM RowsAreTrue == PagesSpec => []RowsTellTruth
<1>1. PagesInv => RowsTellTruth
  <2> SUFFICES ASSUME PagesInv, Mounted, active = "candidates" PROVE RowsTellTruth
    BY DEF RowsTellTruth
  <2>. DEFINE list == Whole
              s == Sorted(list)
              C == {k \in DOMAIN list : Belongs(s[k])}
              rows == Rows
              rank == [i \in DOMAIN rows |-> Rank(list, rows[i])]
  <2>1. /\ list \in NodeItems /\ Unrepeated(list)
        /\ activeTier \in CandidateTier \cup {NoTier}
    BY WholeTyped DEF PagesInv
  <2>. HIDE DEF list
  <2>2. PICK place : Traces(place, rows, s, C)
    BY <2>1, CandidatesTrace DEF list
  <2>. HIDE DEF rows
  <2>3. /\ place \in [DOMAIN rows -> C]
        /\ \A i \in DOMAIN rows : rows[i] = s[place[i]]
        /\ \A i, j \in DOMAIN rows : i < j => place[i] < place[j]
        /\ \A x \in C : \E i \in DOMAIN rows : place[i] = x
    BY <2>2 DEF Traces
  <2>4. /\ s \in Seq(NodeItem) /\ DOMAIN s = DOMAIN list /\ DOMAIN list \in SUBSET Nat
        /\ ToSet(s) = ToSet(list)
        /\ \A i, j \in DOMAIN list : i < j => s[i].score >= s[j].score
    <3>1. list \in Seq(NodeItem) /\ s \in Seq(NodeItem) /\ Len(s) = Len(list)
      BY <2>1, SortedFacts DEF NodeItems
    <3>2. DOMAIN s = DOMAIN list /\ DOMAIN list \in SUBSET Nat
      BY <3>1
    <3>. QED  BY <2>1, <3>1, <3>2, SortedFacts
  <2>5. \A k \in DOMAIN list : s[k] \in NodeItem
    BY <2>4, ElementOfSeq
  <2>6. ASSUME NEW i \in DOMAIN rows
        PROVE  place[i] \in DOMAIN list /\ Belongs(s[place[i]]) /\ rank[i] = place[i]
    <3>1. place[i] \in DOMAIN list /\ Belongs(s[place[i]])
      BY <2>3
    <3>. HIDE DEF s
    <3>2. rank[i] = Rank(list, s[place[i]])
      BY <2>3
    <3>3. Rank(list, s[place[i]]) = place[i]
      BY <2>1, <3>1, RankIsPlace DEF s
    <3>. QED  BY <3>1, <3>2, <3>3
  <2>. HIDE DEF s
  <2>7. \A i, j \in DOMAIN rows :
          i < j => rows[i].score >= rows[j].score /\ rank[i] < rank[j]
    <3> TAKE i \in DOMAIN rows, j \in DOMAIN rows
    <3> HAVE i < j
    <3>1. place[i] < place[j] /\ place[i] \in DOMAIN list /\ place[j] \in DOMAIN list
      BY <2>3, <2>6
    <3>2. rank[i] = place[i] /\ rank[j] = place[j]
      BY <2>6
    <3>3. s[place[i]].score >= s[place[j]].score
      BY <2>4, <3>1
    <3>. QED  BY <2>3, <3>1, <3>2, <3>3
  <2>8. ASSUME NEW i \in DOMAIN rows
        PROVE  /\ activeTier # NoTier => QualityTier(rows[i]) = activeTier
               /\ rank[i] > Cardinality({row \in ToSet(list) : row.score > rows[i].score})
               /\ rank[i] <= Cardinality({row \in ToSet(list) : row.score >= rows[i].score})
    <3>1. rows[i] = s[place[i]] /\ rows[i] \in NodeItem /\ rank[i] = place[i]
      BY <2>3, <2>5, <2>6
    <3>2. activeTier # NoTier => QualityTier(rows[i]) = activeTier
      BY <2>1, <2>6, <3>1, TierIsQuality DEF Belongs
    <3>3. LET score == s[place[i]].score
          IN  /\ place[i] > Cardinality({row \in ToSet(list) : row.score > score})
              /\ place[i] <= Cardinality({row \in ToSet(list) : row.score >= score})
      BY <2>1, <2>6, PlaceIsStanding DEF s
    <3>. HIDE DEF rank
    <3>. QED  BY <3>1, <3>2, <3>3
  <2>9. ASSUME NEW row \in ToSet(list) \ ToSet(rows)
        PROVE  \/ activeTier # NoTier /\ QualityTier(row) # activeTier
               \/ keyword # "" /\ keyword \notin SearchableText(row)
    <3>1. PICK k \in DOMAIN list : s[k] = row
      BY <2>4 DEF ToSet
    <3>2. k \notin C
      <4>1. ASSUME NEW i \in DOMAIN rows PROVE rows[i] # row
        BY DEF ToSet
      <4>. QED  BY <2>3, <3>1, <4>1
    <3>3. ~Belongs(row)
      BY <3>1, <3>2
    <3>4. row \in NodeItem
      BY <2>5, <3>1
    <3>. QED  BY <2>1, <3>3, <3>4, TierIsQuality DEF Belongs, Filtered
  <2>. HIDE DEF rank
  <2>. QED  BY <2>7, <2>8, <2>9 DEF RowsTellTruth, list, rows, rank
<1>. QED  BY <1>1, PagesCorrect, PTL

-----------------------------------------------------------------------------
(* The figures                                                             *)

LEMMA StateIsReady ==
  ASSUME NEW row \in NodeItem
  PROVE  /\ Ready(row.score) <=> QualityState(row) = "ready"
         /\ row.score > 0 /\ ~Ready(row.score) <=> QualityState(row) = "degraded"
<1>1. row.score \in Nat
  BY ItemTyped
<1>. QED  BY <1>1 DEF Ready, ReadyScore, QualityState, HasScore, NoTier

(* The tiers of the console are the buckets of the server.                 *)
LEMMA TierIsBucket ==
  ASSUME NEW row \in NodeItem, NEW t \in 1..4
  PROVE  InTier(row, <<"fallback", "observe", "stable", "primary">>[t])
           <=> HasScore(row) /\ ScoreBucket(row.score) = t - 1
<1>1. row.score \in Nat
  BY ItemTyped
<1>2. CASE t = 1
  BY <1>1, <1>2 DEF InTier, ScoreBucket
<1>3. CASE t = 2
  BY <1>1, <1>3 DEF InTier, ScoreBucket
<1>4. CASE t = 3
  BY <1>1, <1>4 DEF InTier, ScoreBucket
<1>5. CASE t = 4
  BY <1>1, <1>5 DEF InTier, ScoreBucket
<1>. QED  BY <1>2, <1>3, <1>4, <1>5

(* runtime.go and the pages count by the same borders; when all answers    *)
(* are of one snapshot, so do the cards.                                   *)
THEOREM FiguresAgree == PagesSpec => []CountsAgree
<1>1. PagesInv => CountsAgree
  <2> SUFFICES ASSUME PagesInv, apiSnapshot # JsonNull PROVE CountsAgree
    BY DEF CountsAgree
  <2>1. answeredBy \in [Endpoints -> Published] /\ AnswerOf(apiSnapshot, answeredBy)
    BY DEF PagesInv
  <2>2. /\ LogsPage.count = Len(LogsPage.list)
        /\ LogsPage.truncated => LogsPage.count = LogsPage.capacity
    BY <2>1 DEF AnswerOf, LogsPage
  <2>3. ASSUME \A r, s \in Endpoints : answeredBy[r] = answeredBy[s]
        PROVE  LET rows == apiSnapshot.candidates.items
                   tiers == <<"fallback", "observe", "stable", "primary">>
                   In(state) == Cardinality({i \in DOMAIN rows : QualityState(rows[i]) = state})
               IN  /\ HealthPage.ready = In("ready") /\ HealthPage.degraded = In("degraded")
                   /\ \A row \in ToSet(rows) :
                        QualityState(row) = "ready" <=> HealthPage.tones[row.key] = "good"
                   /\ \A t \in DOMAIN tiers : Len(TierItems(tiers[t], rows)) =
                        Cardinality({i \in DOMAIN rows :
                                       HasScore(rows[i]) /\ ScoreBucket(rows[i].score) = t - 1})
                   /\ HealthPage.tracked = Cardinality(DOMAIN HealthPage.tones)
                   /\ StatusPage.tracked = HealthPage.tracked
                   /\ StatusPage.penalized = HealthPage.penalized
                   /\ HealthPage.penalized = Cardinality(HealthPage.pool)
                   /\ StatusPage.candidates = Len(rows)
                   /\ StatusPage.candidates + StatusPage.dropped = StatusPage.resolved
                   /\ StatusPage.resolved = Len(apiSnapshot.nodes.items)
    <3>. DEFINE p == answeredBy["candidates"]
                rows == apiSnapshot.candidates.items
    <3>1. /\ p \in Published
          /\ answeredBy["status"] = p /\ answeredBy["nodes"] = p /\ answeredBy["health"] = p
      BY <2>1, <2>3 DEF Endpoints
    <3>2. PublishedLists(p)
      BY <3>1, PublishedTyped
    <3>3. /\ p.candidates = rows
          /\ apiSnapshot.nodes.items = p.resolved
          /\ apiSnapshot.status = StatusPayload(p)
          /\ apiSnapshot.health = NormalizeHealthResponse(HealthPayload(p))
      BY <2>1, <3>1 DEF AnswerOf
    <3>. HIDE DEF p, rows
    <3>4. /\ rows \in Seq(NodeItem) /\ Len(rows) \in Nat
          /\ p.resolved \in Seq(NodeItem) /\ Len(p.resolved) \in Nat
          /\ \A i \in DOMAIN rows : rows[i] \in NodeItem
      BY <3>2, <3>3, ElementOfSeq DEF PublishedLists, NodeItems
    <3>5. LET h == apiSnapshot.health
          IN  /\ h.tracked_nodes = Cardinality(DOMAIN p.statuses)
              /\ h.ready_nodes = Cardinality({i \in DOMAIN rows : Ready(rows[i].score)})
              /\ h.degraded_nodes =
                   Cardinality({i \in DOMAIN rows : rows[i].score > 0 /\ ~Ready(rows[i].score)})
              /\ h.nodes = p.statuses
              /\ h.penalized_nodes = Cardinality(p.penalized)
              /\ h.penalty_pool = p.penalized
      BY <3>3 DEF HealthPayload, HealthWith, NormalizeHealthResponse
    <3>6. /\ {i \in DOMAIN rows : Ready(rows[i].score)}
               = {i \in DOMAIN rows : QualityState(rows[i]) = "ready"}
          /\ {i \in DOMAIN rows : rows[i].score > 0 /\ ~Ready(rows[i].score)}
               = {i \in DOMAIN rows : QualityState(rows[i]) = "degraded"}
      BY <3>4, StateIsReady
    <3>7. /\ HealthPage.ready = Cardinality({i \in DOMAIN rows : QualityState(rows[i]) = "ready"})
          /\ HealthPage.degraded
               = Cardinality({i \in DOMAIN rows : QualityState(rows[i]) = "degraded"})
      BY <3>5, <3>6 DEF HealthPage
    <3>8. ASSUME NEW row \in ToSet(rows)
          PROVE  QualityState(row) = "ready" <=> HealthPage.tones[row.key] = "good"
      <4>1. PICK i \in DOMAIN rows : row = rows[i]
        BY DEF ToSet
      <4>2. /\ row.key \in DOMAIN p.statuses /\ row.score = p.statuses[row.key]
            /\ row \in NodeItem
        BY <3>2, <3>3, <3>4, <4>1 DEF PublishedLists
      <4>3. HealthPage.tones[row.key] = IF row.score >= 80 THEN "good" ELSE "warn"
        BY <3>5, <4>2 DEF HealthPage
      <4>. QED  BY <4>2, <4>3, StateIsReady DEF Ready, ReadyScore
    <3>9. ASSUME NEW t \in 1..4
          PROVE  Len(TierItems(<<"fallback", "observe", "stable", "primary">>[t], rows)) =
                   Cardinality({i \in DOMAIN rows :
                                  HasScore(rows[i]) /\ ScoreBucket(rows[i].score) = t - 1})
      <4>. DEFINE tier == <<"fallback", "observe", "stable", "primary">>[t]
                  S == {i \in DOMAIN rows : InTier(rows[i], tier)}
      <4>1. S = {i \in DOMAIN rows :
                   HasScore(rows[i]) /\ ScoreBucket(rows[i].score) = t - 1}
        BY <3>4, TierIsBucket
      <4>2. Len(Sublist(rows, S)) = Cardinality(S)
        <5>1. S \in SUBSET DOMAIN rows
          OBVIOUS
        <5>. HIDE DEF S
        <5>. QED  BY <3>4, <5>1, SublistPlaces
      <4>. QED  BY <4>1, <4>2 DEF TierItems
    <3>10. /\ HealthPage.tracked = Cardinality(DOMAIN HealthPage.tones)
           /\ StatusPage.tracked = HealthPage.tracked
           /\ StatusPage.penalized = HealthPage.penalized
           /\ HealthPage.penalized = Cardinality(HealthPage.pool)
      BY <3>5 DEF HealthPage, StatusPage
    <3>11. /\ StatusPage.candidates = Len(rows)
           /\ StatusPage.candidates + StatusPage.dropped = StatusPage.resolved
           /\ StatusPage.resolved = Len(p.resolved)
      <4>1. p.dropped = Len(p.resolved) - Len(rows)
        BY <3>2, <3>3 DEF PublishedLists
      <4>. QED  BY <3>3, <3>4, <4>1 DEF StatusPage, StatusPayload
    <3>12. DOMAIN <<"fallback", "observe", "stable", "primary">> = 1..4
      OBVIOUS
    <3>13. \A row \in ToSet(rows) :
             QualityState(row) = "ready" <=> HealthPage.tones[row.key] = "good"
      BY <3>8
    <3>14. \A t \in 1..4 : Len(TierItems(<<"fallback", "observe", "stable", "primary">>[t], rows)) =
             Cardinality({i \in DOMAIN rows :
                            HasScore(rows[i]) /\ ScoreBucket(rows[i].score) = t - 1})
      BY <3>9
    <3>15. StatusPage.resolved = Len(apiSnapshot.nodes.items)
      BY <3>3, <3>11
    <3>. QED  BY <3>7, <3>10, <3>11, <3>12, <3>13, <3>14, <3>15 DEF rows
  <2>. QED  BY <2>2, <2>3 DEF CountsAgree
<1>. QED  BY <1>1, PagesCorrect, PTL

=============================================================================
