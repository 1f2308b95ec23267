-------------------------- MODULE MCTranslationRun --------------------------
(* Instances of TranslationRun: batches that share one name, within one    *)
(* window or across two; the user may add the name to the glossary.        *)
EXTENDS TranslationRun, TLC

CONSTANTS m, x, y, raw

TermsOfThree == <<{m}, {m}, {m}>>
TermsOfTwo   == <<{m}, {m}>>

ReviewThird == <<3>>
NoReview    == << >>

SuppliedNothing == (m :> Unknown)
OtherX          == {(m :> x)}
=============================================================================
