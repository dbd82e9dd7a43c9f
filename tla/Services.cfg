SPECIFICATION Spec
CONSTANTS
  MemSize = 11
  MinSize = 1
  Sizes = {1, 2, 3}
  MaxBlocks = 3
  PoolNum = 1
  OtherContext = TRUE
  Parts = {
    "dns", "httpd", "httpdPost", "httpc", "mqtt", "mqttRx", "smtp",
    "smtpBody", "smtpDone", "tls", "tlsStarve", "proxyTls", "altcp", "snmp",
    "mdns", "tftp", "sntp", "sntpNames"}
INVARIANTS Answered Released Streams
CHECK_DEADLOCK FALSE
