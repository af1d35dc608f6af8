\* Loss and reordering of three telegrams; datagrams of t1 are duplicated.
CONSTANTS
  t1 = t1
  t2 = t2
  t3 = t3
  Telegram = {t1, t2, t3}
  Identification <- MCIdentification
  TotalLength <- MCTotalLength
  Fragmentation <- MCFragmentation
  MayDuplicate <- DatagramsOfT1
SPECIFICATION FairSpec
INVARIANTS
  TypeOK
  OnlyWholeTelegrams
  NothingWithheld
  MapHoldsTheUndeployed
PROPERTIES
  StreamSpec
  UnlostTelegramsArrive
CHECK_DEADLOCK FALSE
