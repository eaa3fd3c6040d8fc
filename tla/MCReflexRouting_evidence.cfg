\* Two reflexes through reviews, approvals, rollbacks, sessions and housekeeping.
CONSTANTS
  Patterns <- MCPatterns
  Risk <- MCRisk
  Certified <- MCCertified
  AuditSeesStress = TRUE
  KeepRecent = 1
  MaxStored = 3
SPECIFICATION RoutingSpec
INVARIANTS
  RecentDisagreementsShown
  FirstApprovalEvidence
