----------------------------- MODULE MCAgentFiles -----------------------------
(* Instances of AgentFiles.                                               *)
EXTENDS AgentFiles

C(do, path, to) == [do |-> do, path |-> path, to |-> to]

\* A patch of two files, a rename over an existing file, a deletion, a
\* command with two outputs, a series that overwrites and has one output for two
\* sources, one that skips, a translation of one file, and a preview.
AllCalls ==
  {[tool |-> "patch", overwrite |-> FALSE,
    changes |-> <<C("add", "a", None), C("update", "b", None)>>],
   [tool |-> "single", overwrite |-> FALSE, changes |-> <<C("delete", "b", None)>>],
   [tool |-> "single", overwrite |-> FALSE, changes |-> <<C("rename", "a", "b")>>],
   [tool |-> "command", overwrite |-> TRUE,
    changes |-> <<C("output", "a", None), C("output", "b", None)>>],
   [tool |-> "series", overwrite |-> TRUE,
    changes |-> <<C("written", "a", None), C("written", "a", None)>>],
   [tool |-> "series", overwrite |-> FALSE,
    changes |-> <<C("written", "a", None), C("written", "b", None)>>],
   [tool |-> "writer", overwrite |-> FALSE, changes |-> <<C("written", "a", None)>>],
   [tool |-> "writer", overwrite |-> FALSE, changes |-> <<C("preview", "b", None)>>]}
=============================================================================
