SPECIFICATION Spec
CONSTANTS
  Tabs = {t1}
  MaxPosts = 2
  MaxReplies = 1
  ReplayLimit = 2
  Durable = TRUE
INVARIANTS
  ReplyReachesVisitor
CHECK_DEADLOCK FALSE
