----------------------------- MODULE ResumeLog -----------------------------
(***************************************************************************)
(* What the checkpoint store promises to a translation run: a single saved *)
(* progress value, replaced as a whole.  A run either starts from nothing  *)
(* or from the whole saved value of its own translation, then extends its  *)
(* progress by one batch at a time, stage after stage, saving each step.   *)
(* Files, shards, manifests and formats do not appear.                     *)
(***************************************************************************)
EXTENDS Integers

CONSTANTS Proc, Fingerprint, Text, MaxBatch, Batches, Nobody

Kind == {"translated", "reviewed", "finalized"}

VARIABLES
  saved,  \* the progress the next run may resume, or Nobody
  view    \* view[p]: the progress of the run in process p, or Nobody

logVars == <<saved, view>>

Empty(f) == [fp |-> f, text |-> [k \in Kind |-> [i \in {} |-> i]]]

Done(v, k) == DOMAIN v.text[k]
Complete(v, k) == Done(v, k) = 1..Batches[v.fp][k]

With(v, k, b, t) ==
  [v EXCEPT !.text[k] = [i \in Done(v, k) \cup {b} |-> IF i = b THEN t ELSE @[i]]]

Begin(p, f) ==
  /\ view[p] = Nobody
  /\ view' = [view EXCEPT ![p] = Empty(f)]
  /\ UNCHANGED saved

Resume(p) ==
  /\ view[p] = Nobody
  /\ saved # Nobody
  /\ view' = [view EXCEPT ![p] = saved]
  /\ UNCHANGED saved

SaveAs(p, v) ==
  /\ view' = [view EXCEPT ![p] = v]
  /\ saved' = v

\* One more batch of stage k, in order, once the stages before are complete.
Extend(p, k, before) ==
  /\ view[p] # Nobody
  /\ \A j \in before : Complete(view[p], j)
  /\ \E b \in 1..Batches[view[p].fp][k], t \in Text :
       /\ Done(view[p], k) = 1..(b - 1)
       /\ SaveAs(p, With(view[p], k, b, t))

Translate(p) == Extend(p, "translated", {})
Review(p)    == Extend(p, "reviewed", {"translated"})

\* The final text may be replaced when a finished run is resumed.
Finish(p) ==
  /\ view[p] # Nobody
  /\ Complete(view[p], "translated") /\ Complete(view[p], "reviewed")
  /\ \E t \in Text : SaveAs(p, With(view[p], "finalized", 1, t))

\* The progress is saved again as it is at the end of a stage.
Save(p) ==
  /\ view[p] # Nobody
  /\ Complete(view[p], "translated")
  /\ SaveAs(p, view[p])

Leave(p) == view' = [view EXCEPT ![p] = Nobody] /\ UNCHANGED saved

Erase == saved' = Nobody /\ UNCHANGED view

LogInit == saved \in {Nobody} \cup [fp : Fingerprint,
                                   text : [Kind -> UNION {[1..n -> Text] : n \in 0..MaxBatch}]]
           /\ view = [p \in Proc |-> Nobody]

LogNext ==
  \/ \E p \in Proc : \/ \E f \in Fingerprint : Begin(p, f)
                     \/ Resume(p) \/ Translate(p) \/ Review(p) \/ Finish(p)
                     \/ Save(p) \/ Leave(p)
  \/ Erase

LogSpec == LogInit /\ [][LogNext]_logVars
=============================================================================
