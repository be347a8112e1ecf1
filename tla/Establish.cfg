SPECIFICATION FairSpec
CONSTANTS
  Configs <- AllConfigs
  MaxId = 2
INVARIANTS TypeOK PeersAgree StreamsCanFlow ListedHasSettings IdsFresh
PROPERTIES EstablishedSurvives AttemptEnds NothingLeft
CHECK_DEADLOCK FALSE
