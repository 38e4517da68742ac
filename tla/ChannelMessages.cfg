SPECIFICATION Spec
CONSTANTS
  Channels = {"a", "b"}
  Senders = {"sibling"}
  Page = 1
  Starts <- Histories
  Budgets <- Stories
  MaxSends = 2
INVARIANTS PendingIsWatched ConfirmedIsMine NothingIsMissed
PROPERTIES PendingEnds
CHECK_DEADLOCK FALSE
