--------------------------- MODULE MCBatchRecovery ---------------------------
(* Instances of DocumentRun: the three modes with their policies, a Cinema *)
(* run that is resumed in its review, and an Economy run that has only one *)
(* request.                                                                *)
EXTENDS DocumentRun

Fresh == [s \in Stages |-> 0]

Documents(correction, translation, review) ==
  [correction |-> correction, terminology |-> <<1>>, translation |-> translation,
   review |-> review, validation |-> <<1>>]

Turbo ==
  [batches |-> Documents(<< >>, <<4, 1, 1>>, << >>), resumed |-> Fresh,
   maxRequests |-> 9, retries |-> 1, repairs |-> 1, configured |-> 2, reviewers |-> 1,
   strategy |-> "adaptive", multiplier |-> 1, parallel |-> TRUE, correctFirst |-> FALSE,
   review |-> FALSE, align |-> "names", correction |-> "off", preflight |-> "off"]

Economy ==
  [batches |-> Documents(<<1, 4>>, <<2, 3>>, <<1>>), resumed |-> [Fresh EXCEPT !.translation = 1],
   maxRequests |-> 9, retries |-> 1, repairs |-> 2, configured |-> 2, reviewers |-> 1,
   strategy |-> "fixed", multiplier |-> 1, parallel |-> FALSE, correctFirst |-> TRUE,
   review |-> TRUE, align |-> "none", correction |-> "optional", preflight |-> "optional"]

Cinema ==
  [batches |-> Documents(<<1>>, <<2, 1>>, <<1>>), resumed |-> Fresh,
   maxRequests |-> 10, retries |-> 0, repairs |-> 1, configured |-> 2, reviewers |-> 2,
   strategy |-> "scene", multiplier |-> 1, parallel |-> TRUE, correctFirst |-> FALSE,
   review |-> TRUE, align |-> "online", correction |-> "strict", preflight |-> "strict"]

Resumed == [Cinema EXCEPT !.batches = Documents(<<1>>, <<2, 1>>, <<1, 1, 1>>), !.retries = 1,
                           !.resumed = [Fresh EXCEPT !.translation = 2, !.review = 1]]

\* One request is all that an optional stage gets, and nothing is repaired.
Tight == [Economy EXCEPT !.maxRequests = 1, !.repairs = 0]

\* A reply that is no JSON is quoted at length: a single line does not fit
\* beside it.
Quoted == [e \in Error |-> IF e = "malformed" THEN 3 ELSE 1]

AllModes == {Turbo, Economy, Tight, Cinema, Resumed}
=============================================================================
