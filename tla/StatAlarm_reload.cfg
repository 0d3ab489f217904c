CONSTANTS
  Items <- MCItems
  ValidItems <- MCValidItems
  Configs <- MCConfigs
  MaxTime = 4
  MaxEdits = 2
  EditsApart = TRUE
  OpenFailures = FALSE
  PartialWrites = TRUE
  IsDtcServer = FALSE
SPECIFICATION Spec
PROPERTY EventuallyCurrent
