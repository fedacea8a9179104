SPECIFICATION PagesSpec
CONSTANTS
  Keys = {"a", "b"}
  Refreshes <- MCRefreshes
  Early <- MCEarly
  Keywords <- MCKeywords
  NameHas <- MCNameHas
  ScoreHas <- MCScoreHas
  SourceHas <- MCSourceHas
  JsonNull = JsonNull
  Entries = {info, warn}
  Capacity = 2
  NoEntry = NoEntry
INVARIANTS CastsAreTrue RowsTellTruth NothingHiddenSilently CountsAgree
PROPERTIES HistorySpec
