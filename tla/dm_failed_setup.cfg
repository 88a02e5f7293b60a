CONSTANTS
  Serials = {s1, s2}
  Pool <- TwoPorts
  HostPort = 8888
  Host = Host
  NoDevice = NoDevice
  Tasks = {t1}
  NoTask = NoTask
  AdbFaults = {"proxy"}
  LateEffects = {}
  Flaky = {}
  MaxRestarts = 0
SPECIFICATION MishapSpec
INVARIANT FailedPairingIsUnwired
