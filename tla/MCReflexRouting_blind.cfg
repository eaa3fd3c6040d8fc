\* An approved reflex routes turns that are then evaluated.
CONSTANTS
  Patterns <- OnePattern
  Risk <- OneRisk
  Certified <- NoneCertified
  AuditSeesStress = FALSE
  KeepRecent = 10
  MaxStored = 10
SPECIFICATION RoutingSpec
INVARIANT AgreementIsBlind
