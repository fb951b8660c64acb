\* Serial ports, HTTP handles, SSH sessions and channels, and the browser.
SPECIFICATION Devices
CONSTANTS
  Parts = {"serial", "http", "ssh", "shell", "webdriver"}
  Ports = {"p1", "p2"}
  Bytes = {"O", "K"}
  Pattern <- OK
  Chunks = {1, 2}
  OutSize = 1
  MaxSent = 3
  MaxWrite = 2
  MaxCalls = 4
  MaxHeaders = 2
  MaxBody = 2
  MaxHttp = 6
  Channels = {"c1", "c2"}
  Sftps = {"f1"}
  MaxSsh = 10
  Window = 2
  MaxArrived = 3
  MaxShell = 2
  Sessions = {"s1", "s2"}
  Mishaps = {"lost", "dies"}
  MaxRequests = 5
  MaxBrowser = 5
  MaxChanges = 2
INVARIANTS
  ReadsHonest RequestsExact BodyComplete SessionsSafe StreamsHonest CleanedUp
PROPERTY CallsEnd
\* A test ends when it has made its calls, and may wait for the device.
CHECK_DEADLOCK FALSE
