SPECIFICATION FairSpec
CONSTANTS
  p1 = p1
  p2 = p2
  f1 = f1
  f2 = f2
  Proc = {p1, p2}
  Feedback = {f1, f2}
  Top = 1
  MinOptions = 2
  MinApproaches = 1
  MaxOptions = 2
  MaxCaps = 1
  MaxDrawn = 1
  MaxTrouble = 1
CONSTRAINT Small
INVARIANTS TypeOK OptionsAddUp FeedbackIsKept ApprovalIsInformed GateFollowsApproval
PROPERTY HintsLeadToApproval
