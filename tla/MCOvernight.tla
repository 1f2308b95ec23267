----------------------------- MODULE MCOvernight -----------------------------
(* Instances of Overnight: three segments of which the first exceeds the   *)
(* token budget together with the second; the user edits a text.           *)
EXTENDS Overnight

CONSTANTS r1, r2

Lines(sizes) == [i \in DOMAIN sizes |-> [id |-> i, tokens |-> sizes[i]]]

TwoVersions == <<Lines(<<20, 10, 9>>), Lines(<<20, 10, 9>>)>>
=============================================================================
