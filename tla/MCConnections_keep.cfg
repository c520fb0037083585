SPECIFICATION ConnSpec
CONSTANTS
  a = a
  b = b
  Pid = {1, 2}
  Address = {a, b}
  dns = {a}
  Startup <- MCStartup
  min_connections = 1
  BAN = 2
  Penalty = 1
  MaxKnock = 0
  MaxFaults = 1
PROPERTIES
  HandshakeEnds
  Maintained
