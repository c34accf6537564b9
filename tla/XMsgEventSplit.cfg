SPECIFICATION FairSpec
CONSTANTS
  m1 = m1
  m2 = m2
  m3 = m3
  s1 = s1
  s2 = s2
  Msgs <- MCMsgs
  NoMsg = NoMsg
  NoSender = NoSender
  Registered <- MCRegistered
  Senders <- MCOneSender
  SenderOf <- MCSenderOf1
  SizeLen = 2
  HeadLen = 2
  BodyLen <- MCBodyLen
  MaxBreaks = 0
INVARIANTS
  CompleteOrNull
CHECK_DEADLOCK FALSE
