SPECIFICATION FairSpec
CONSTANTS
  r1 = r1
  r2 = r2
  r3 = r3
  ann = ann
  Requests = {r1, r2, r3}
  User <- MCUser
  Ops <- MCOps
  Assistant = assistant
  AISlots = 2
INVARIANTS ViewConverges PreviewIsLast IdleWhenQuiet ReceiptNotStale
PROPERTIES AskIsAnswered
CHECK_DEADLOCK FALSE
