CONSTANTS
  Serials = {s1, s2}
  Pool <- TwoPorts
  HostPort = 8888
  Host = Host
  NoDevice = NoDevice
  Watcher = Watcher
  Starter = Starter
  Stopper = Stopper
  User = User
  Tasks = {Watcher, Starter, Stopper, User}
  NoTask = NoTask
  AdbFaults = {"reverse"}
  LateEffects = {}
  Flaky = {}
  MaxRestarts = 0
  MaxToggles = 1
  MaxClicks = 0
  MaxUnplugs = 0
SPECIFICATION ReopenedSpec
CHECK_DEADLOCK FALSE
PROPERTY LabelsHeal
