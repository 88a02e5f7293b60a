CONSTANTS
  Services = {WiFi}
  Callers = {c1, c2}
  NoService = NoService
  ToolFaults = {}
  CanCrash = FALSE
SPECIFICATION HostSpec
INVARIANT BailsBeforeSideEffects
