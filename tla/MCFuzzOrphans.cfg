SPECIFICATION FuzzSpec
CONSTANTS
  MaxCampaigns = 1
  Slots = {0, 1}
  Monitor = TRUE
PROPERTIES
  CannotBuildOrCleanWhileFuzzing
CHECK_DEADLOCK FALSE
