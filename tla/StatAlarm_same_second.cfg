CONSTANTS
  Items <- MCItems
  ValidItems <- MCValidItems
  Configs <- MCConfigs
  MaxTime = 4
  MaxEdits = 2
  EditsApart = FALSE
  OpenFailures = FALSE
  PartialWrites = FALSE
  IsDtcServer = FALSE
SPECIFICATION Spec
PROPERTY EventuallyCurrent
