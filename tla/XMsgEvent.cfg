SPECIFICATION FairSpec
CONSTANTS
  m1 = m1
  m2 = m2
  m3 = m3
  s1 = s1
  s2 = s2
  Msgs <- MCMsgs
  NoMsg = NoMsg
  NoSender = NoSender
  Registered <- MCRegistered
  Senders <- MCTwoSenders
  SenderOf <- MCSenderOf
  SizeLen = 2
  HeadLen = 2
  BodyLen <- MCBodyLen
  MaxBreaks = 1
INVARIANTS
  TypeOK
  Aligned
  HandledWhole
  QuietMeansHandled
PROPERTIES
  ImplementsChannel
  SentIsConsumed
CHECK_DEADLOCK FALSE
