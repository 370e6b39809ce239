SPECIFICATION Spec
CONSTANTS
  c1 = c1
  c2 = c2
  shell = shell
  NoCall = NoCall
  Calls = {c1, c2}
  Tools = {shell}
  Tool <- SameTool
  Rule <- AllowBoth
  Escalating = {}
  Setters = {}
  Cuts = {}
  MaxUpsets = 0
INVARIANTS
  AuditReplays
CHECK_DEADLOCK FALSE
