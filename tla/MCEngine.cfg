SPECIFICATION MCSpec
CONSTANTS
  p1 = p1
  p2 = p2
  p3 = p3
  p4 = p4
  p5 = p5
  Extensions = {p1, p2, p3, p4, p5}
  Lowerable = {p1, p2, p4, p5}
  Obligations = {"o1", "o2"}
  Needs <- MCNeeds
  DeclassReceipts <- MCDeclassReceipts
  Decisions = {"Allow", "Challenge", "Sandbox", "Suspend", "Quarantine"}
  max_concurrent_sagas = 1
  MaxAttempts = 3
  MaxStaged = 2
INVARIANTS IdsBelongToOnePackage ReceiptServesOneExecution ContainmentIsAccounted
PROPERTIES ContainmentSticks
CHECK_DEADLOCK FALSE
