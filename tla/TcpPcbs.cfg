SPECIFICATION Spec
CONSTANTS
  Pcbs = {p1, p2}
  Lpcbs = {l1}
  NULL = NULL
  Prios = {1}
  TCP_PRIO_NORMAL = 2
  BindPorts = {1}
  Backlogs = {0, 2}
  TCP_LISTEN_BACKLOG = TRUE
  U16 = 4
  TCP_LOCAL_PORT_RANGE_START = 2
  TCP_LOCAL_PORT_RANGE_END = 3
SYMMETRY Blocks
CHECK_DEADLOCK FALSE
INVARIANTS PcbLists ListenerOpen BacklogCounts BoundPortsDistinct
