SPECIFICATION LoopAsyncSpec
CONSTANTS
  i1 = i1  i2 = i2  s1 = s1
  Handles = {i1, i2, s1}
  Kind <- PassKinds
  MaxReqs = 0
  Greedy = FALSE
  Asyncs = {h1, h2}
  Senders = {t1, t2}
  NoHandle = NoHandle
CHECK_DEADLOCK FALSE
INVARIANTS NoLostWakeup
PROPERTIES PassExact CallbacksDelivered ImplementsSignal SendDelivered CloseWaitsForSender
