SPECIFICATION FairFuzzSpec
CONSTANTS
  MaxCampaigns = 1
  Slots = {0, 1, 2}
  Monitor = TRUE
PROPERTIES
  StopEndsCampaign
  CancelEndsVM
CHECK_DEADLOCK FALSE
