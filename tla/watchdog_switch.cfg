CONSTANTS
  Serials = {s1}
  Pool <- OnePort
  HostPort = 8888
  Host = Host
  NoDevice = NoDevice
  Watcher = Watcher
  Starter = Starter
  Stopper = Stopper
  User = User
  Tasks = {Watcher, Starter, Stopper, User}
  NoTask = NoTask
  AdbFaults = {"read", "proxy", "unproxy"}
  LateEffects = {"proxy"}
  Flaky = {}
  MaxRestarts = 1
  MaxToggles = 2
  MaxClicks = 0
  MaxUnplugs = 0
SPECIFICATION ReopenedSpec
PROPERTIES
  StoppedFrees
CHECK_DEADLOCK FALSE
