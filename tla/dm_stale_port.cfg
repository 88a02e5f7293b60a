CONSTANTS
  Serials = {s1, s2}
  Pool <- TwoPorts
  HostPort = 8888
  Host = Host
  NoDevice = NoDevice
  Tasks = {t1, t2}
  NoTask = NoTask
  AdbFaults = {}
  LateEffects = {}
  Flaky = {}
  MaxRestarts = 0
SPECIFICATION MishapSpec
INVARIANT NoMisattribution
