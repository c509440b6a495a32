\* The server hangs up while tryPutIdleConn is between isBroken and idleMu.
CONSTANTS
  w1 = w1
  w2 = w2
  w3 = w3
  c1 = c1
  c2 = c2
  k1 = k1
  Want = {w1, w2}
  Conn = {c1, c2}
  Key = {k1}
  KeyOf <- OneHost
  AltKey = {}
  MaxConnsPerHost = 1
  MaxIdleConnsPerHost = 1
  MaxIdleConns = 0
  IdleConnTimeout = FALSE
  DisableKeepAlives = FALSE
  None = None
  Err = Err
SPECIFICATION Spec
SYMMETRY CallsAndConns
INVARIANTS NoDeadConnRegistered
