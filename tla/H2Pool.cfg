CONSTANTS
  r1 = r1
  r2 = r2
  r3 = r3
  Req = {r1, r2}
  ViaHTTP1 = {r1, r2}
  CancelReq = {r2}
  Body <- Bodies
  MaxConns = 2
  Unruly = {1}
  Options <- Settings
  FirstID = 1
  MaxID = 5
  MaxStreams = {1}
  DefaultStreams = 2
  RetryLimit = 1
SPECIFICATION Spec
INVARIANTS  OneShotBodySentOnce ReservationsBacked CancelledByItself NoneAboveGoAway
