SPECIFICATION Spec
CONSTANTS
  Conns = {c1, c2, c3, c4}
  IPs = {a1}
  NoConn = NoConn
  NoIp = NoIp
  MaxConnections = 2
  MaxPerIp = 3
  MaxTlsFailures = 2
INVARIANT GlobalCap
