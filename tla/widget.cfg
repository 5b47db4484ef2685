SPECIFICATION FairSpec
CONSTANTS
  Tabs = {t1}
  MaxPosts = 2
  MaxReplies = 1
  ReplayLimit = 10
  Durable = TRUE
INVARIANTS
  NothingTwice
  ReplyReachesVisitor
  OnlyTicketsAreRemembered
PROPERTIES
  ComposerReturns
CHECK_DEADLOCK FALSE
