CONSTANTS
  Generalist = generalist
  Defender = defender
  Supplier = defender
  NoRole = none
  Roles = {generalist, defender}
  MaxEvents = 1
  Seeds <- MCSeeds
  MissionTags <- MCMissionTags
  DemoTags <- MCDemoTags
  Length <- MCLength
  Steps <- MCSteps
  Chats <- MCChats
  Pickaxes <- MCPickaxes
  Homes = {"home", "none"}
  MaxSteps = 2
SPECIFICATION Spec
INVARIANTS HomeOnlyLost ActiveRegistered AgreeWhenQuiet SavedTree
\* The steps are used up.
CHECK_DEADLOCK FALSE
