SPECIFICATION Spec
CONSTANTS
  MemSize = 11
  MinSize = 1
  Sizes = {1, 2, 3}
  MaxBlocks = 3
  PoolNum = 1
  OtherContext = TRUE
  Parts = {
    "heap", "pbufs", "timers", "frames", "netifs", "netifs6",
    "netifsLoop", "ip4", "ip6", "arp", "dhcp", "ipfrag", "nd6",
    "nd6auto", "nd6redir", "igmp", "mld", "udp", "raw", "bridge", "pppneg"}
INVARIANTS HeapTiles Conserved Delivered Served Consistent
CHECK_DEADLOCK FALSE
