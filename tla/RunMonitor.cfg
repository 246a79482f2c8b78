SPECIFICATION Spec
CONSTANTS
  Runs = {r1, r2}
  NoRun = NoRun
  Outcomes = {"complete"}
  MaxMail = 1
  MaxUpsets = 1
INVARIANTS NamedRunWasClaimed
PROPERTIES SessionFollowsTheService RunsPageCatchesUp ResultsCatchUp
