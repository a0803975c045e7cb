SPECIFICATION Spec
CONSTANTS
  txA = txA txB = txB txC = txC txD = txD txR = txR txS = txS txCB = txCB peerP = peerP peerQ = peerQ
  base1 = base1 base2 = base2
  addr1 = addr1 addr1b = addr1b addr2 = addr2 addr3 = addr3
  NoPeer = NoPeer NoBlock = NoBlock Absent = Absent
INVARIANTS
  PackagesAreRight
  OrphansAreIndexed
  DownloadsAreRight
PROPERTIES
  PoolFitsChain
  ResolvedAtOnce
  CatchesUp
  AddressesAreKept
CHECK_DEADLOCK FALSE
