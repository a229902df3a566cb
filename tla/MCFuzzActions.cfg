SPECIFICATION FuzzSpec
CONSTANTS
  MaxCampaigns = 1
  Slots = {0, 1}
  Monitor = TRUE
INVARIANTS
  OneActionAtATime
CHECK_DEADLOCK FALSE
