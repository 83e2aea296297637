\* Two levels of sub-agents, in parallel and in a chain: budgets, rules, asks, a cancellation,
\* and the timeout of any agent.
CONSTANTS
    Call <- AllCalls
    Replies <- MCReplies
    Policy <- MCPolicy
    Manifests <- MCManifests
    Width = 2
    MaxDepth = 2
SPECIFICATION FairSpec
INVARIANTS BudgetHolds CallsAccounted Confined
PROPERTIES EventsNest InterruptedEnds
CHECK_DEADLOCK FALSE
