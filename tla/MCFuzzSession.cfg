SPECIFICATION FuzzSpec
CONSTANTS
  MaxCampaigns = 2
  Slots = {0, 1}
  Monitor = TRUE
INVARIANTS
  OverMeansQuiet
  CampaignsDoNotOverlap
  ExitLeavesNoVM
CHECK_DEADLOCK FALSE
