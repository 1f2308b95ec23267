--------------------------- MODULE MCMediaPipeline ---------------------------
(* Instances of MediaPipeline.                                            *)
EXTENDS MediaPipeline

\* Neither option, --no-resume, and --no-cache --no-resume.
Options == {[cache |-> TRUE, resume |-> TRUE], [cache |-> TRUE, resume |-> FALSE],
            [cache |-> FALSE, resume |-> FALSE]}
=============================================================================
