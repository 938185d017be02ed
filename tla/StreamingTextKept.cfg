CONSTANTS
  Upstreams = {"gemini"}
  Clients = {"gemini"}
  Scripts <- AllScripts
SPECIFICATION Spec
INVARIANT TextKept
