CONSTANTS
  m = m
  x = x
  y = y
  raw = raw
  Unknown = Unknown
  NoState = NoState
  Term = {m}
  Target = {x, raw}
  SourceSpelling = raw
  TermsIn <- TermsOfTwo
  ReviewPlan <- NoReview
  Window = 2
  Supplied <- SuppliedNothing
  OtherGlossary <- OtherX
  MaxEdits = 0
  HardGlossary = FALSE
  ReviewOn = FALSE
  ResumeFlag = {TRUE}
SPECIFICATION FairSpec
PROPERTY Completes
