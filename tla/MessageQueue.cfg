\* Three clients, a queue of two, three samples, one validation.
CONSTANTS
  Clients = {c1, c2, c3}
  MaxQueueSize = 2
  MaxPuts = 3
  MaxValidations = 1
  MaxVersion = 0
  Requests = {"put", "get", "update", "clear", "shutdown", "putVal", "getVal"}
SPECIFICATION Spec
INVARIANTS SamplesConserved MostRecentInOrder NoLostWakeup
PROPERTIES NoneOnlyWhenClosed ImplementsFifo
CHECK_DEADLOCK FALSE
