----------------------------- MODULE ConsolePages -----------------------------
(***************************************************************************)
(* frontend/src/pages and components/data-table.tsx over the answers of    *)
(* internal/app/runtime.go: what the management API makes of a published   *)
(* snapshot, what the console makes of the answers, and what its pages     *)
(* show of them while the user moves about, filters and searches.          *)
(*                                                                         *)
(* Any number of refreshes may be under way (module Console), so answers   *)
(* may arrive at any time, on a page too.  Texts are left out but for what *)
(* a search finds in them; a keyword is trimmed and in lower case.         *)
(***************************************************************************)
EXTENDS HealthScore, LogBuffer, Lists

CONSTANTS
  Keys,       \* nodes
  Refreshes,  \* what the pipeline and the checker may hand to a refresh
  Early,      \* bound: which answers may be older than the others
  Keywords,   \* what is typed in a search field
  NameHas,    \* [Keys -> SUBSET Keywords]: found in name, protocol, country...
  ScoreHas,   \* [0..MaxScore -> SUBSET Keywords]: found in the digits of a score
  SourceHas,  \* [names of sources -> SUBSET Keywords]
  JsonNull

Endpoints == {"status", "sources", "nodes", "candidates", "health"}

ASSUME PagesAssumption ==
  /\ IsFiniteSet(Keys)
  /\ Early \subseteq SUBSET Endpoints
  /\ NameHas \in [Keys -> SUBSET Keywords]
  /\ ScoreHas \in [0..MaxScore -> SUBSET Keywords]
  /\ "" \notin Keywords

(* Nodes come deduplicated, and from sources.                              *)
ASSUME RefreshesAssumption ==
  \A refresh \in Refreshes :
    /\ refresh.nodes \in Seq([key : Keys, passes : BOOLEAN])
    /\ \A i, j \in DOMAIN refresh.nodes : refresh.nodes[i].key = refresh.nodes[j].key => i = j
    /\ refresh.sources \in Seq(DOMAIN SourceHas)
    /\ refresh.nodes # <<>> => refresh.sources # <<>>
    /\ DOMAIN refresh.statuses \subseteq Keys
    /\ refresh.statuses \in [DOMAIN refresh.statuses -> 0..MaxScore]
    /\ refresh.handedOver \in Seq(Keys)
    /\ refresh.penalized \subseteq Keys

VARIABLES
  active,     \* the page chosen
  card,       \* "loading" or "error" instead of the page, or "none"
  activeTier, \* state of NodesPage
  keyword,    \* state of the DataTable
  apiSnapshot,
  answeredBy  \* history: the published apiSnapshot each answer was made from

ui == <<active, card, activeTier, keyword>>
pages == <<ui, apiSnapshot, answeredBy, ring>>

navKeys == {"status", "sources", "nodes", "candidates", "health", "logs"}
CandidateTier == {"primary", "stable", "observe", "fallback"}
NoTier == "none"

-----------------------------------------------------------------------------
(* The server: a refresh publishes its lists                               *)

MutantPublishable(refresh) == TRUE

(* RefreshOnce fails without a candidate; the API starts after the first   *)
(* refresh, and a failed one leaves the published snapshot alone.          *)
Publishable(refresh) == \E i \in DOMAIN refresh.nodes : refresh.nodes[i].passes

(* Only candidates carry a score.                                          *)
Row(key, score) == [key |-> key, score |-> score]

Publish(refresh) ==
  LET kept == Sublist(refresh.nodes, {i \in DOMAIN refresh.nodes : refresh.nodes[i].passes})
      known == DOMAIN refresh.statuses
      score == [key \in known \cup {kept[i].key : i \in DOMAIN kept} |->
                  IF key \in known THEN refresh.statuses[key] ELSE MaxScore]
  IN  [resolved   |-> [i \in DOMAIN refresh.nodes |-> Row(refresh.nodes[i].key, 0)],
       candidates |-> [i \in DOMAIN kept |-> Row(kept[i].key, score[kept[i].key])],
       dropped    |-> Len(refresh.nodes) - Len(kept),
       sources    |-> refresh.sources,
       statuses   |-> score,
       handedOver |-> refresh.handedOver,
       penalized  |-> refresh.penalized]

Published == {Publish(refresh) : refresh \in {r \in Refreshes : Publishable(r)}}

(* Snapshot copies its lists onto nil: an empty one becomes null in JSON.  *)
JsonList(list) == IF list = <<>> THEN JsonNull ELSE list

StatusPayload(published) ==
  [resolved_node_count  |-> Len(published.resolved),
   candidate_node_count |-> Len(published.candidates),
   dropped_node_count   |-> published.dropped]

NodesPayload(list) == [items |-> JsonList(list), count |-> Len(list)]

(* The summary counts and the details below it.  Of the penalty pool only  *)
(* the keys: the times are shown as they are.                              *)
HealthWith(degraded, published) ==
  LET rows == published.candidates
  IN  [tracked_nodes   |-> Cardinality(DOMAIN published.statuses),
       ready_nodes     |-> Cardinality({i \in DOMAIN rows : Ready(rows[i].score)}),
       degraded_nodes  |-> Cardinality(degraded),
       last_candidates |-> JsonList(published.handedOver),
       nodes           |-> published.statuses,
       penalized_nodes |-> Cardinality(published.penalized),
       penalty_pool    |-> published.penalized]

MutantHealthPayload(published) ==
  HealthWith({i \in DOMAIN published.candidates : ~Ready(published.candidates[i].score)}, published)

HealthPayload(published) ==
  LET rows == published.candidates
  IN  HealthWith({i \in DOMAIN rows : rows[i].score > 0 /\ ~Ready(rows[i].score)}, published)

LogsPayload ==
  [items |-> Items, count |-> size, capacity |-> Capacity, truncated |-> truncated]

-----------------------------------------------------------------------------
(* The console: what it takes the answers for                              *)

NodeItem == [key : Keys, score : 0..MaxScore]

NodesResponse == [items : Seq(NodeItem), count : Nat]

StatusResponse ==
  [resolved_node_count : Nat, candidate_node_count : Nat, dropped_node_count : Nat]

SourcesResponse == Seq(DOMAIN SourceHas)

HealthResponse ==
  [tracked_nodes : Nat, ready_nodes : Nat, degraded_nodes : Nat, last_candidates : Seq(Keys),
   nodes : UNION {[keys -> 0..MaxScore] : keys \in SUBSET Keys},
   penalized_nodes : Nat, penalty_pool : SUBSET Keys]

LogsResponse ==
  [items : Seq(Entries), count : Nat, capacity : Nat, truncated : BOOLEAN]

ApiSnapshot ==
  [status : StatusResponse, sources : SourcesResponse, nodes : NodesResponse,
   candidates : NodesResponse, health : HealthResponse, logs : LogsResponse]

ASSUME NullAssumption == JsonNull \notin ApiSnapshot

-----------------------------------------------------------------------------
(* From the answers to the pages                                           *)

NormalizeHealthResponse(health) ==
  [health EXCEPT !.last_candidates = IF @ = JsonNull THEN <<>> ELSE @]

FetchSnapshot(from) ==
  [status     |-> StatusPayload(from["status"]),
   sources    |-> JsonList(from["sources"].sources),
   nodes      |-> NodesPayload(from["nodes"].resolved),
   candidates |-> NodesPayload(from["candidates"].candidates),
   health     |-> NormalizeHealthResponse(HealthPayload(from["health"])),
   logs       |-> LogsPayload]

(* omitempty: a score of 0 is no score.                                    *)
HasScore(row) == row.score # 0

Order(row) == IF HasScore(row) THEN row.score ELSE -1

(* Which of the rows at p[1] and p[2] comes first; Array.sort is stable.   *)
Better(list) ==
  {p \in (DOMAIN list) \X (DOMAIN list) :
     \/ Order(list[p[1]]) > Order(list[p[2]])
     \/ Order(list[p[1]]) = Order(list[p[2]]) /\ p[1] <= p[2]}

Sorted(list) ==
  LET place == Arranged(DOMAIN list, Better(list))
  IN  [k \in DOMAIN place |-> list[place[k]]]

SortedItems(variant, list) == IF variant = "candidates" THEN Sorted(list) ELSE list

InTier(row, tier) ==
  HasScore(row) /\ CASE tier = "primary"  -> row.score >= 90
                     [] tier = "stable"   -> row.score >= 70 /\ row.score < 90
                     [] tier = "observe"  -> row.score >= 40 /\ row.score < 70
                     [] tier = "fallback" -> row.score < 40

TierItems(tier, list) == Sublist(list, {i \in DOMAIN list : InTier(list[i], tier)})

MutantFilteredItems(variant, list) ==
  IF activeTier # NoTier THEN TierItems(activeTier, SortedItems(variant, list))
  ELSE SortedItems(variant, list)

FilteredItems(variant, list) ==
  IF variant = "candidates" /\ activeTier # NoTier
    THEN TierItems(activeTier, SortedItems(variant, list))
    ELSE SortedItems(variant, list)

(* findIndex: the columns of the candidates.                               *)
FoundAt(list, row) ==
  LET found == {i \in DOMAIN list : list[i].key = row.key}
  IN  IF found = {} THEN 0 ELSE Min(found)

MutantRank(list, row) == FoundAt(list, row)

Rank(list, row) == FoundAt(Sorted(list), row)

QualityTier(row) ==
  IF ~HasScore(row) THEN NoTier
  ELSE IF row.score >= 90 THEN "primary"
  ELSE IF row.score >= 70 THEN "stable"
  ELSE IF row.score >= 40 THEN "observe" ELSE "fallback"

QualityState(row) ==
  IF ~HasScore(row) THEN NoTier ELSE IF row.score >= 80 THEN "ready" ELSE "degraded"

(* The cards and the first four sources.                                   *)
StatusPage ==
  [candidates |-> apiSnapshot.status.candidate_node_count,
   resolved   |-> apiSnapshot.status.resolved_node_count,
   dropped    |-> apiSnapshot.status.dropped_node_count,
   tracked    |-> apiSnapshot.health.tracked_nodes,
   penalized  |-> apiSnapshot.health.penalized_nodes,
   latest     |-> SubSeq(apiSnapshot.sources, 1, Min({4, Len(apiSnapshot.sources)}))]

(* The cards, the two lists of keys, and the badges of the tracked nodes   *)
(* (the page stops after eight of them).                                   *)
HealthPage ==
  LET health == apiSnapshot.health
  IN  [tracked  |-> health.tracked_nodes,
       ready    |-> health.ready_nodes,
       degraded |-> health.degraded_nodes,
       penalized |-> health.penalized_nodes,
       last     |-> health.last_candidates,
       pool     |-> health.penalty_pool,
       tones    |-> [key \in DOMAIN health.nodes |->
                       IF health.nodes[key] >= 80 THEN "good" ELSE "warn"]]

(* The cards, the list and the level above it.                             *)
LogsPage ==
  LET logs == apiSnapshot.logs
  IN  [count |-> logs.count, capacity |-> logs.capacity, truncated |-> logs.truncated,
       list  |-> logs.items,
       level |-> IF logs.items = <<>> THEN NoEntry ELSE Last(logs.items)]

SearchableText(row) == NameHas[row.key] \cup (IF HasScore(row) THEN ScoreHas[row.score] ELSE {})

(* What a table keeps of its items, by what a search finds in them.        *)
Filtered(found) == keyword = "" \/ keyword \in found

Mounted == card = "none"
Tables == {"sources", "nodes", "candidates"}

(* All that a page could show, what its table is given, and what it shows. *)
Whole ==
  CASE active = "sources"    -> apiSnapshot.sources
    [] active = "nodes"      -> apiSnapshot.nodes.items
    [] active = "candidates" -> apiSnapshot.candidates.items

SourcesPage ==
  LET list == apiSnapshot.sources
  IN  Sublist(list, {i \in DOMAIN list : Filtered(SourceHas[list[i]])})

NodesPage(variant) ==
  LET list == FilteredItems(variant, Whole)
  IN  Sublist(list, {i \in DOMAIN list : Filtered(SearchableText(list[i]))})

Rows == IF active = "sources" THEN SourcesPage ELSE NodesPage(active)

(* The filter's name above the table, with the button that clears it.      *)
TitleAction == active = "candidates" /\ activeTier # NoTier

-----------------------------------------------------------------------------
PagesInit ==
  /\ RingInit
  /\ active = "status" /\ card = "loading"
  /\ activeTier = NoTier /\ keyword = ""
  /\ apiSnapshot = JsonNull /\ answeredBy = JsonNull

(* Nodes and Candidates are one component at one place: React keeps its    *)
(* state from one to the other.                                            *)
Component(page) == IF page \in {"nodes", "candidates"} THEN "NodesPage" ELSE page

Unmounted == activeTier' = NoTier /\ keyword' = ""

Navigate(page) ==
  /\ page # active
  /\ active' = page
  /\ IF Component(page) = Component(active) THEN UNCHANGED <<activeTier, keyword>> ELSE Unmounted
  /\ UNCHANGED <<card, apiSnapshot, answeredBy, ring>>

ToggleTier(tier) ==
  /\ Mounted /\ active = "candidates"
  /\ activeTier' = IF activeTier = tier THEN NoTier ELSE tier
  /\ UNCHANGED <<active, card, keyword, apiSnapshot, answeredBy, ring>>

(* The button and the Escape key, which is listened for when it is shown.  *)
ClearTier ==
  /\ Mounted /\ TitleAction
  /\ activeTier' = NoTier
  /\ UNCHANGED <<active, card, keyword, apiSnapshot, answeredBy, ring>>

Search(word) ==
  /\ Mounted /\ active \in Tables /\ word # keyword
  /\ keyword' = word
  /\ UNCHANGED <<active, card, activeTier, apiSnapshot, answeredBy, ring>>

(* Refreshes: the card takes the place of the page.  Answers of a refresh  *)
(* come from the snapshots published while it waits; an error stays until  *)
(* the next one starts.                                                    *)
RefreshStarts ==
  /\ card # "loading"
  /\ card' = "loading" /\ Unmounted
  /\ UNCHANGED <<active, apiSnapshot, answeredBy, ring>>

SnapshotArrives(before, after, early) ==
  /\ answeredBy' = [r \in Endpoints |-> IF r \in early THEN before ELSE after]
  /\ apiSnapshot' = FetchSnapshot(answeredBy')
  /\ card' = IF card = "loading" THEN "none" ELSE card
  /\ UNCHANGED <<active, activeTier, keyword, ring>>

RefreshFails ==
  /\ card' = "error" /\ Unmounted
  /\ apiSnapshot' = JsonNull /\ answeredBy' = JsonNull
  /\ UNCHANGED <<active, ring>>

LogWritten ==
  /\ RingNext
  /\ UNCHANGED <<ui, apiSnapshot, answeredBy>>

PagesNext ==
  \/ \E page \in navKeys : Navigate(page)
  \/ \E tier \in CandidateTier : ToggleTier(tier)
  \/ ClearTier
  \/ \E word \in Keywords \cup {""} : Search(word)
  \/ RefreshStarts
  \/ \E before, after \in Published : \E early \in Early : SnapshotArrives(before, after, early)
  \/ RefreshFails
  \/ LogWritten

PagesSpec == PagesInit /\ [][PagesNext]_pages
-----------------------------------------------------------------------------
(* Properties                                                              *)

(* requestJson casts what it reads without a look.  The cast is true: no   *)
(* list a page walks is null (or the whole console would be gone), for a   *)
(* refresh that would publish an empty one fails.                          *)
CastsAreTrue ==
  /\ Mounted => apiSnapshot # JsonNull
  /\ apiSnapshot # JsonNull => apiSnapshot \in ApiSnapshot

(* The table of candidates: best first, each at its place in the whole     *)
(* list whatever is filtered, of the tier that is asked for; and a row is  *)
(* missing only if its own columns say that it does not belong here.       *)
RowsTellTruth ==
  Mounted /\ active = "candidates" =>
    LET all == ToSet(Whole)
        rows == Rows
        place == [i \in DOMAIN rows |-> Rank(Whole, rows[i])]
    IN  /\ \A i, j \in DOMAIN rows :
             i < j => rows[i].score >= rows[j].score /\ place[i] < place[j]
        /\ \A i \in DOMAIN rows :
             /\ activeTier # NoTier => QualityTier(rows[i]) = activeTier
             /\ place[i] > Cardinality({row \in all : row.score > rows[i].score})
             /\ place[i] <= Cardinality({row \in all : row.score >= rows[i].score})
        /\ \A row \in all \ ToSet(rows) :
             \/ activeTier # NoTier /\ QualityTier(row) # activeTier
             \/ keyword # "" /\ keyword \notin SearchableText(row)

(* Filters outlive the page they were set on.  On every page a row is      *)
(* hidden only while the reason is on the screen, and can be cleared there.*)
NothingHiddenSilently ==
  Mounted /\ active \in Tables /\ keyword = "" /\ ~TitleAction => ToSet(Rows) = ToSet(Whole)

(* The same figures are made in two languages and on several pages.  When  *)
(* all answers come from one published snapshot they agree: the cards of   *)
(* the health page with its badges and with those of the candidates, the   *)
(* tiers with the buckets the core is weighted by, the totals with the     *)
(* lists.  The log page is one answer and always agrees with itself.       *)
CountsAgree ==
  /\ apiSnapshot # JsonNull /\ (\A r, s \in Endpoints : answeredBy[r] = answeredBy[s]) =>
       LET rows == apiSnapshot.candidates.items
           tiers == <<"fallback", "observe", "stable", "primary">>
           In(state) == Cardinality({i \in DOMAIN rows : QualityState(rows[i]) = state})
       IN  /\ HealthPage.ready = In("ready") /\ HealthPage.degraded = In("degraded")
           /\ \A row \in ToSet(rows) :
                QualityState(row) = "ready" <=> HealthPage.tones[row.key] = "good"
           /\ \A t \in DOMAIN tiers : Len(TierItems(tiers[t], rows)) =
                Cardinality({i \in DOMAIN rows :
                               HasScore(rows[i]) /\ ScoreBucket(rows[i].score) = t - 1})
           /\ HealthPage.tracked = Cardinality(DOMAIN HealthPage.tones)
           /\ StatusPage.tracked = HealthPage.tracked
           /\ StatusPage.penalized = HealthPage.penalized
           /\ HealthPage.penalized = Cardinality(HealthPage.pool)
           /\ StatusPage.candidates = Len(rows)
           /\ StatusPage.candidates + StatusPage.dropped = StatusPage.resolved
           /\ StatusPage.resolved = Len(apiSnapshot.nodes.items)
  /\ apiSnapshot # JsonNull =>
       /\ LogsPage.count = Len(LogsPage.list)
       /\ LogsPage.truncated => LogsPage.count = LogsPage.capacity
=============================================================================
