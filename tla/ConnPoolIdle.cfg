\* Two calls, HTTP/1 or HTTP/2, idle timeouts, and an LRU that must evict.
CONSTANTS
  w1 = w1
  w2 = w2
  w3 = w3
  c1 = c1
  c2 = c2
  k1 = k1
  Want = {w1, w2}
  Conn = {c1, c2}
  Key = {k1}
  KeyOf <- OneHost
  AltKey = {k1}
  MaxConnsPerHost = 2
  MaxIdleConnsPerHost = 2
  MaxIdleConns = 1
  IdleConnTimeout = TRUE
  DisableKeepAlives = FALSE
  None = None
  Err = Err
SPECIFICATION Spec
SYMMETRY CallsAndConns
INVARIANTS SlotsExact ExclusiveHTTP1 IdleListsWellFormed
PROPERTIES InUseNotClosedByPool AbandonedDialsCancelled
