CONSTANTS
  s1 = s1
  s2 = s2
  Stream = {s1, s2}
  Scenarios <- Exchanges
  InitialWindow = 1
  Windows = {0}
  MaxFrame = 2
  MaxWindow = 8
  MaxGrant = 1
  Announced = 2
  StreamFlow = 2
  ConnFlow = 2
  MinRefresh = 2
  Max1xx = 1
SPECIFICATION FairSpec
INVARIANTS WindowsAgree  EOFMeansComplete NoStreamLeftOpen
 
CHECK_DEADLOCK FALSE
