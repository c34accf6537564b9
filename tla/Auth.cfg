SPECIFICATION Spec
CONSTANTS
  c1 = c1
  c2 = c2
  root = root
  user = user
  pw1 = pw1
  pw2 = pw2
  Clients <- MCClients
  Users <- MCUsers
  Passwords <- MCPasswords
  Attempts <- MCAttempts
  Edits <- MCEdits
  Root = root
  NoUser = NoUser
  FirstPassword = pw1
  NoPassword = NoPassword
  NoToken = NoToken
  TimeoutSec = 1
  MaxLate = 1
  MaxTime = 4
  MaxLogins <- MCMaxLogins
  MaxChanges = 1
  MaxFaults = 1
INVARIANTS
  TypeOK
  GrantedIsAccepted
  AnswerIsOfAttempt
PROPERTY
  PassedWasGranted
CHECK_DEADLOCK FALSE
