INIT MCInit
NEXT MCNext
CONSTANTS
  MaxWrites = 3
  MaxLives = 2
  HotRetries = 2
  Backoff0 = 1
  BackoffCap = 3
  Kinds = {"hyprctl", "dbus", "bmc"}
  Sigs = {A, B}
  NoSig = NoSig
  NoAnswer = NoAnswer
  CacheSec = 1
  PoolSlots = 2
  MaxClock = 4
  Sensors = {"cpu", "fan"}
  SlowSensors = {"fan"}
  Paths = {hwmon0, hwmon1}
  RefreshEach = 2
  MaxFds = 2
  MaxSamplesS = 3
  EventCount = 2
  PipeSize = 2
  MaxIntervals = 3
  Domains = {"pkg", "dram"}
  Wrap <- MCWrap
  Known = {"pkg"}
  MaxSpend = 4
  MaxMeter = 3
  Endpoints = {"plain", "adapters", "efficiency", "calibration", "discoveries"}
  Requests = {"r1", "r2"}
  KeptFor = 2
  ReportMaxAge = 1
  MaxServe = 5
  IdClan <- MCIdClan
  Clans <- MCClans
  NoCaps = NoCaps
  Hosts <- MCHosts
  MaxFollow = 2
INVARIANT CedesToOwner
