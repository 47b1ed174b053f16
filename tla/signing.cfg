SPECIFICATION Spec
CONSTANTS
  Jobs <- EveryJob
  Slack = 2
  MaxFaults = 6
INVARIANTS
  TypeOK
  Fits
  UnreadIntact
  StringToSign
  LinkOpens
  LostPieceNoticed
CHECK_DEADLOCK FALSE
