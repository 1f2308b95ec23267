CONSTANTS
  m = m
  x = x
  y = y
  raw = raw
  Unknown = Unknown
  NoState = NoState
  Term = {m}
  Target = {x, y, raw}
  SourceSpelling = raw
  TermsIn <- TermsOfThree
  ReviewPlan <- ReviewThird
  Window = 2
  Supplied <- SuppliedNothing
  OtherGlossary <- OtherX
  MaxEdits = 1
  HardGlossary = TRUE
  ReviewOn = TRUE
  ResumeFlag = {TRUE, FALSE}
SPECIFICATION Spec
INVARIANTS TypeOK TermConsistency OneGuide ReportCoversReview FinalHonoursGlossary
