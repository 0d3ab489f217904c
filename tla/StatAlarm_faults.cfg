CONSTANTS
  Items <- MCItems
  ValidItems <- MCValidItems
  Configs <- MCConfigs
  MaxTime = 4
  MaxEdits = 2
  EditsApart = FALSE
  OpenFailures = TRUE
  PartialWrites = TRUE
  IsDtcServer = FALSE
SPECIFICATION Spec
INVARIANT TypeOK
PROPERTY QuietReloadExact
