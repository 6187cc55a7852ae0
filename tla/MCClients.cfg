SPECIFICATION MCSpec
CONSTANTS
  Caller = {c1, c2, c3}
  Repeatable = {c1, c2}
  Nobody = Nobody
  MaxTokens = 2
  Languages = {"go", "python", "async python", "ruby", "csharp", "java", "rust", "typescript", "swift", "elixir"}
  MaxAttempts = 3
  Clients = {"go", "python", "async python", "ruby", "rust", "typescript", "csharp", "java", "php", "elixir", "swift"}
  Unset = Unset
  PageCap = 4
  MaxPage = 3
  PageSize = 2
  MaxTotal = 5
  MaxCalls = 5
INVARIANTS EndMeansAll TraversalBounded ReplayIsFresh BudgetKept HooksTold NeverFallsThrough
PROPERTIES ImplementsProvider EveryCallEnds
CHECK_DEADLOCK FALSE
