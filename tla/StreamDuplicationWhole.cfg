\* The network may duplicate any datagram: a whole packet is not guaranteed.
CONSTANTS
  t1 = t1
  t2 = t2
  t3 = t3
  Telegram = {t1, t2, t3}
  Identification <- MCIdentification
  TotalLength <- MCTotalLength
  Fragmentation <- MCFragmentation
  MayDuplicate <- AllDatagrams
SPECIFICATION Spec
INVARIANT EveryBufferIsWhole
CHECK_DEADLOCK FALSE
