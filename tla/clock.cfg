SPECIFICATION FairSpec
CONSTANTS
  B = 4
  Between = 3
  Requests <- Delays
INVARIANTS TypeOK ReadsOneTime NeverOverdue
PROPERTIES NeverShort DelayEnds
