\* A request ring of 2 with 4 requests and a completion queue of 2 with 3
\* completions: both overflow, budgets stay below the backlog, and inits
\* fail half way at any time.
CONSTANTS
  Items <- EepromItems
  NoItem = NoItem
  SizeMod = 2
  RequestCapacities = {0, 2}
  CompletionCapacities = {0, 2}
  RequestBudgets = {0, 1, 2}
  CompletionBudgets = {1, 2}
  MaxRequests = 4
  MaxCompletions = 3
SPECIFICATION Spec
INVARIANTS TypeOK AcceptedRequestsOfferedOnce CompletionAccounting
PROPERTIES EveryRequestOffered EveryCompletionHandled
