CONSTANTS
  Serials = {s1, s2}
  Pool <- OnePort
  HostPort = 8888
  Host = Host
  NoDevice = NoDevice
  Tasks = {t1, t2}
  NoTask = NoTask
  AdbFaults = {"wait", "reverse", "proxy", "unreverse"}
  LateEffects = {"reverse", "proxy"}
  Flaky = {}
  MaxRestarts = 1
  Services = {WiFi, Ethernet}
  Callers = {t1, t2}
  ProxiedService = WiFi
  NoService = NoService
  ToolFaults = {"trust", "route", "read", "set", "restore"}
  CanCrash = TRUE
SYMMETRY Interchangeable
SPECIFICATION WiringSpec
INVARIANTS
  TunnelUnderProxy
  WrongStampHasACause
  
  
  
  
