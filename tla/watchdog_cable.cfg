CONSTANTS
  Serials = {s1}
  Pool <- OnePort
  HostPort = 8888
  Host = Host
  NoDevice = NoDevice
  Watcher = Watcher
  Starter = Starter
  Stopper = Stopper
  User = User
  Tasks = {Watcher, Starter, Stopper, User}
  NoTask = NoTask
  AdbFaults = {"wait", "reverse", "proxy", "read", "devices"}
  LateEffects = {"reverse", "proxy"}
  Flaky = {s1}
  MaxRestarts = 0
  MaxToggles = 1
  MaxClicks = 2
  MaxUnplugs = 1
SPECIFICATION WatchdogSpec
PROPERTIES
  RunningHeals
CHECK_DEADLOCK FALSE
