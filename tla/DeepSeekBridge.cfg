SPECIFICATION FairSpec
CONSTANTS
  c1 = c1
  c2 = c2
  shell = shell
  NoCall = NoCall
  Calls = {c1, c2}
  Tools = {shell}
  Tool <- SameTool
  Rule <- TwoRules
  Escalating = {c2}
  Setters = {1}
  Cuts = {"torn"}
  MaxUpsets = 2
INVARIANTS
  TypeOK
  SwitchSurvives
  CancelledNeverRuns
  GrantIsRecorded
  NeverIsObeyed
  EachChannelIsAsked
  TrailIsChained
  OutputIsAudited
PROPERTIES
  CancelIsHeard
CHECK_DEADLOCK FALSE
