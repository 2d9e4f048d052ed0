SPECIFICATION MCSpec
CONSTANTS
  SeqMod = 16
  Window = 6
  Session = {a, b}
  Null = Null
  Start <- MCStart
  Timeout = 0
  NewItemsClean = 0
  PktClean = 1
  MaxRing = 2
  MaxNow = 1
  Datagram = {"a", "b", "c"}
  KeyOf <- MCKeyOf
  SizeOf <- MCSizeOf
  Fragment <- MCFragment
  Unit = 2
  None = None
  IpTimeout = 0
  IpNewItemsClean = 0
  IpPktClean = 1
  MaxIpNow = 1
INVARIANTS
  TypesOK InOrder NothingForgotten RingIsAhead LastIsLive
  GivesTheDatagram
PROPERTIES PendingEnds GivenOncePerItem
