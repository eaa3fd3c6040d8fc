\* Two candidates, three verdicts of which two are read, one repair, two seconds.
CONSTANTS
  clean = clean
  critical = critical
  older = older
  Candidates <- MCCandidates
  Texts <- MCTexts
  CriticalTexts = {critical}
  Answers <- MCAnswers
  Proposal <- MCProposal
  Shipped <- MCShipped
  Repairs = {clean}
  Dependent = {"reader"}
  Tested = {"reader", "solver"}
  AllowList = {"solver"}
  Window = 2
  MaxVerdicts = 3
  MaxEdits = 1
  MaxPromotions = 2
  LastSecond = 1
SPECIFICATION PipelineSpec
INVARIANTS
  CriticalCodeOvertook
  VersionRecoverable
PROPERTY ShelfNeedsApproval
