CONSTANTS
  g = g
  q = q
  i = i
  u = u
  NoSender = NoSender
  Senders <- AllSenders
  Kind <- AllKinds
  Lengths = {1, 2}
  InitialSize = 3
  Sizes = {2, 3}
  MaxCommands = 2
  MaxDisturbances = 1
SPECIFICATION FairSpec
INVARIANTS Accounting NoOverflow AckAttribution NoLostWakeup
PROPERTY ParkedProceeds
CHECK_DEADLOCK FALSE
