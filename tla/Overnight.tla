------------------------------ MODULE Overnight ------------------------------
(***************************************************************************)
(* Provider-managed overnight jobs: `submit` plans the requests of a       *)
(* subtitle file, creates a job at the provider and writes its manifest;   *)
(* the provider completes the requests in any order, some of them wrongly  *)
(* or not at all; `status` and `collect` run from the manifest, perhaps at *)
(* the same time, and `collect` writes the output file with the steps of   *)
(* AtomicWrite.  The user may edit the input file at any time, and every   *)
(* command may stop anywhere.                                              *)
(*                                                                         *)
(* A version of the input file is a number, with its document in Docs; its *)
(* signature, the hash, the size and the time of the bytes, is that        *)
(* number.  The text of a segment is the version and the id, and so is its *)
(* translation.  Lines are matched by their ids: those of a request and of *)
(* its answer are sets.  The messages of a request, the settings and the   *)
(* endpoint kept in the manifest, formatting markers and the checks of the *)
(* glossary and of the layout in the final validation are left out.  A     *)
(* manifest is written by write_file_atomically too, here in one step.     *)
(***************************************************************************)
EXTENDS Integers, Sequences, FiniteSets, Functions

CONSTANTS
  Docs,         \* the versions of the input file: segments with id and tokens
  BatchSize,    \* settings.translation.batch_size
  TokenBudget,  \* settings.translation.batch_token_budget
  Readers,      \* processes that run one status or one collect
  MaxJobs,
  None          \* Option::None

Segment == [id : Nat, tokens : Nat]

ASSUME OvernightAssumption ==
  /\ Docs \in Seq(Seq(Segment) \ {<<>>}) /\ Docs # <<>>
  /\ BatchSize \in Nat \ {0} /\ TokenBudget \in Nat /\ MaxJobs \in Nat

\* The ids are the places of the segments; those of a TTML file are its own
\* xml:ids, which the format wants to be distinct.
ASSUME IdsAssumption ==
  \A v \in DOMAIN Docs : \A i, k \in DOMAIN Docs[v] :
    Docs[v][i].id = Docs[v][k].id => i = k

\* A path without a lock file is told from one with a lock.
ASSUME NoLockAssumption == None \notin [by : Readers, old : BOOLEAN, kept : BOOLEAN]

VARIABLES
  input,      \* the version in the input file
  late,       \* an edit came between a collect's check of the input and its reading
  jobs,       \* at the provider
  manifests,  \* manifests[j]: the manifest of job j
  submit,     \* the submitting process
  reader,     \* reader[r]: a status or a collect
  target, lock, writer, aged  \* the output file, of AtomicWrite

Output == INSTANCE AtomicWrite WITH Writers <- Readers

output   == <<target, lock, writer, aged>>
provider == <<jobs, manifests>>
vars     == <<input, late, provider, submit, reader, output>>

Versions == DOMAIN Docs
Text(version, id) == [version |-> version, id |-> id]
Empty == [version |-> 0, id |-> 0]

-----------------------------------------------------------------------------
(* plan_translation *)

NoPlan == [batches |-> <<>>, current |-> {}, tokens |-> 0]

\* The next segment starts a new batch when the current one is full or would
\* exceed the budget.
TakeSegment(plan, segment) ==
  LET closed == /\ plan.current # {}
                /\ \/ Cardinality(plan.current) >= BatchSize
                   \/ TokenBudget > 0 /\ plan.tokens + segment.tokens > TokenBudget
  IN IF closed
     THEN [batches |-> Append(plan.batches, plan.current),
           current |-> {segment.id}, tokens |-> segment.tokens]
     ELSE [batches |-> plan.batches,
           current |-> plan.current \cup {segment.id},
           tokens  |-> plan.tokens + segment.tokens]

\* The ids of each request.
PlanTranslation(doc) ==
  LET plan[i \in 0..Len(doc)] ==
        IF i = 0 THEN NoPlan ELSE TakeSegment(plan[i - 1], doc[i])
      last == plan[Len(doc)]
  IN IF last.current = {} THEN last.batches ELSE Append(last.batches, last.current)

\* The custom_id of a request is made of the hash of the input and its number.
Requests(signature, version) ==
  LET plan == PlanTranslation(Docs[version])
  IN [i \in DOMAIN plan |-> [custom |-> <<signature, i>>, ids |-> plan[i]]]

-----------------------------------------------------------------------------
(* submit_overnight *)

NoSubmit == [pc |-> "idle", signature |-> None, version |-> None]

Init ==
  /\ input = 1 /\ late = FALSE
  /\ jobs = <<>> /\ manifests = [j \in 1..MaxJobs |-> None]
  /\ submit = NoSubmit
  /\ reader = [r \in Readers |-> [pc |-> "idle"]]
  /\ target = None /\ lock = None /\ aged = FALSE
  /\ writer = [r \in Readers |-> Output!NotCalled]

SubmitOnly == UNCHANGED <<input, late, reader, output>>

\* The bytes are read for the signature and the file again for the document.
SignInput ==
  /\ submit.pc = "idle" /\ Len(jobs) < MaxJobs
  /\ submit' = [NoSubmit EXCEPT !.pc = "signed", !.signature = input]
  /\ UNCHANGED provider /\ SubmitOnly

ReadInput ==
  /\ submit.pc = "signed"
  /\ submit' = [submit EXCEPT !.pc = "read", !.version = input]
  /\ UNCHANGED provider /\ SubmitOnly

\* submit_jsonl: the upload, and the job for it.
CreateJob ==
  /\ submit.pc = "read"
  /\ jobs' = Append(jobs, [requests |-> Requests(submit.signature, submit.version),
                           version |-> submit.version, status |-> "in_progress",
                           failed |-> 0, out |-> None])
  /\ submit' = [submit EXCEPT !.pc = "created"]
  /\ UNCHANGED manifests /\ SubmitOnly

WriteManifest ==
  /\ submit.pc = "created"
  /\ manifests' = [manifests EXCEPT ![Len(jobs)] =
                     [signature |-> submit.signature, requests |-> jobs[Len(jobs)].requests,
                      status |-> "in_progress"]]
  /\ submit' = NoSubmit
  /\ UNCHANGED jobs /\ SubmitOnly

\* A request or a write fails, or the process stops: a job without a manifest
\* stays at the provider.
SubmitEnds ==
  /\ submit.pc # "idle"
  /\ submit' = NoSubmit
  /\ UNCHANGED provider /\ SubmitOnly

Submit == SignInput \/ ReadInput \/ CreateJob \/ WriteManifest \/ SubmitEnds

-----------------------------------------------------------------------------
(* The provider and the user *)

Answer(job, request) ==
  [custom |-> request.custom, ok |-> TRUE,
   lines |-> {[id |-> id, text |-> Text(job.version, id)] : id \in request.ids}]

\* The answers to all the requests, in any order.
RightOutputs(job) ==
  LET n == Len(job.requests)
  IN {[i \in 1..n |-> Answer(job, job.requests[order[i]])] : order \in Bijection(1..n, 1..n)}

\* With no failure counted one thing may still be wrong: an answer is missing,
\* repeated, unknown or an error, two answers are exchanged, or a line is
\* missing, empty or twice there, once empty.
Damaged(out) ==
  {Tail(out), Append(out, out[1]),
   [out EXCEPT ![1].custom = <<0, 1>>], [out EXCEPT ![1].ok = FALSE],
   [out EXCEPT ![1].custom = out[Len(out)].custom, ![Len(out)].custom = out[1].custom]}
  \cup UNION {{[out EXCEPT ![1].lines = @ \ {line}],
              [out EXCEPT ![1].lines = (@ \ {line}) \cup {[line EXCEPT !.text = Empty]}],
              [out EXCEPT ![1].lines = @ \cup {[line EXCEPT !.text = Empty]}]} :
               line \in out[1].lines}

Outputs(job) == RightOutputs(job) \cup UNION {Damaged(out) : out \in RightOutputs(job)}

JobEnds(j) ==
  /\ jobs[j].status = "in_progress"
  /\ \/ \E out \in Outputs(jobs[j]) :
          jobs' = [jobs EXCEPT ![j].status = "completed", ![j].out = out]
     \/ \E failed \in {0, 1} :
          jobs' = [jobs EXCEPT ![j].status = "completed", ![j].failed = failed]
     \/ jobs' = [jobs EXCEPT ![j].status = "expired"]
  /\ UNCHANGED <<input, late, manifests, submit, reader, output>>

EditInput ==
  /\ input + 1 \in Versions
  /\ input' = input + 1
  /\ late' = (late \/ \E r \in Readers : reader[r].pc = "read")
  /\ UNCHANGED <<provider, submit, reader, output>>

-----------------------------------------------------------------------------
(* overnight_status and collect_overnight *)

ReaderOnly == UNCHANGED <<input, late, jobs, submit>>
ReaderEnds(r, answer) ==
  reader' = [reader EXCEPT ![r].pc = "ended", ![r].answer = answer]

\* read_manifest
Run(r) ==
  /\ reader[r].pc = "idle"
  /\ \E j \in 1..Len(jobs), command \in {"status", "collect", "collect --overwrite"} :
       /\ manifests[j] # None
       /\ reader' = [reader EXCEPT ![r] =
                       [pc |-> "status", job |-> j, manifest |-> manifests[j],
                        command |-> command, version |-> None, answer |-> None]]
  /\ UNCHANGED <<manifests, output>> /\ ReaderOnly

AskStatus(r) ==
  /\ reader[r].pc = "status"
  /\ LET job == jobs[reader[r].job]
     IN \/ ReaderEnds(r, "failed")
        \/ reader' = [reader EXCEPT ![r].pc = "save", ![r].manifest.status = job.status]
  /\ UNCHANGED <<manifests, output>> /\ ReaderOnly

\* The manifest is written back as it was read, with the new status.
SaveStatus(r) ==
  /\ reader[r].pc = "save"
  /\ manifests' = [manifests EXCEPT ![reader[r].job] = reader[r].manifest]
  /\ IF reader[r].command = "status" THEN ReaderEnds(r, "told")
     ELSE IF reader[r].manifest.status # "completed" THEN ReaderEnds(r, "not completed")
     ELSE IF jobs[reader[r].job].failed > 0 THEN ReaderEnds(r, "requests failed")
     ELSE IF jobs[reader[r].job].out = None THEN ReaderEnds(r, "no output")
     ELSE reader' = [reader EXCEPT ![r].pc = "check"]
  /\ UNCHANGED output /\ ReaderOnly

\* Mutant of Unchanged: the check of the signature is missing.
AnyInput(r) == TRUE

Unchanged(r) == input = reader[r].manifest.signature

CheckInput(r) ==
  /\ reader[r].pc = "check"
  /\ IF ~Unchanged(r) THEN ReaderEnds(r, "input changed")
     ELSE IF target # None /\ reader[r].command = "collect" THEN ReaderEnds(r, "output exists")
     ELSE reader' = [reader EXCEPT ![r].pc = "read"]
  /\ UNCHANGED <<manifests, output>> /\ ReaderOnly

ReadDocument(r) ==
  /\ reader[r].pc = "read"
  /\ reader' = [reader EXCEPT ![r].pc = "apply", ![r].version = input]
  /\ UNCHANGED <<manifests, output>> /\ ReaderOnly

\* validate_translation_batch: each id once; the text is empty where the
\* source has none.
ValidLines(ids, lines) ==
  /\ {line.id : line \in lines} = ids
  /\ \A k, l \in lines : k.id = l.id => k = l

\* parse_output_lines: every answer belongs to one request of the manifest,
\* none is repeated, an error or missing.
ParsedOutput(manifest, raw) ==
  /\ Len(raw) = Len(manifest.requests)
  /\ \A i, k \in DOMAIN raw : raw[i].custom = raw[k].custom => i = k
  /\ \A i \in DOMAIN raw :
       /\ raw[i].ok
       /\ \E q \in DOMAIN manifest.requests :
            /\ manifest.requests[q].custom = raw[i].custom
            /\ ValidLines(manifest.requests[q].ids, raw[i].lines)

AllLines(raw) == UNION {raw[i].lines : i \in DOMAIN raw}

\* finalize_translation_output: the lines are put in the order of the document.
Finalized(version, lines) ==
  [i \in DOMAIN Docs[version] |-> CHOOSE line \in lines : line.id = Docs[version][i].id]

ValidOutput(version, lines) ==
  /\ ValidLines({Docs[version][i].id : i \in DOMAIN Docs[version]}, lines)
  /\ \A line \in lines : line.text # Empty

Translated(version, lines) ==
  LET found == Finalized(version, lines)
  IN [i \in DOMAIN found |-> found[i].text]

\* The output is downloaded, parsed and finalized, and its writing begins.
Apply(r) ==
  /\ reader[r].pc = "apply"
  /\ LET raw     == jobs[reader[r].job].out
         version == reader[r].version
         lines   == AllLines(raw)
     IN \/ ReaderEnds(r, "failed") /\ UNCHANGED writer
        \/ /\ ParsedOutput(reader[r].manifest, raw) /\ ValidOutput(version, lines)
           /\ reader' = [reader EXCEPT ![r].pc = "writing"]
           /\ writer' = [writer EXCEPT ![r] = Output!Called(
                [job |-> reader[r].job, version |-> version,
                 text |-> Translated(version, lines), by |-> r])]
        \/ /\ ~(ParsedOutput(reader[r].manifest, raw) /\ ValidOutput(version, lines))
           /\ ReaderEnds(r, "invalid") /\ UNCHANGED writer
  /\ UNCHANGED <<manifests, target, lock, aged>> /\ ReaderOnly

WriteOutput(r) ==
  /\ reader[r].pc = "writing"
  /\ Output!Write(r)
  /\ UNCHANGED <<reader, manifests>> /\ ReaderOnly

\* Mutant of Collected: the end of the write is not waited for.
CollectedEarly(r) ==
  /\ reader[r].pc = "writing"
  /\ ReaderEnds(r, writer[r].pc)
  /\ UNCHANGED <<manifests, output>> /\ ReaderOnly

Collected(r) ==
  /\ reader[r].pc = "writing" /\ writer[r].pc \in Output!Ends
  /\ ReaderEnds(r, writer[r].pc)
  /\ UNCHANGED <<manifests, output>> /\ ReaderOnly

\* The process stops.
Stop(r) ==
  /\ reader[r].pc \notin {"idle", "ended"}
  /\ ReaderEnds(r, "crashed")
  /\ IF writer[r].pc \in Output!Ends THEN UNCHANGED output ELSE Output!StopWriter(r)
  /\ UNCHANGED manifests /\ ReaderOnly

Step(r) ==
  \/ AskStatus(r) \/ SaveStatus(r) \/ CheckInput(r) \/ ReadDocument(r) \/ Apply(r)
  \/ WriteOutput(r) \/ Collected(r)

Tick == Output!Age /\ UNCHANGED <<input, late, provider, submit, reader>>

Next ==
  \/ Submit \/ EditInput \/ Tick
  \/ \E j \in 1..Len(jobs) : JobEnds(j)
  \/ \E r \in Readers : Run(r) \/ Step(r) \/ Stop(r)

\* A command that has begun goes on: a request to the provider is answered or
\* times out, and time passes.
Fairness == WF_vars(Tick) /\ \A r \in Readers : WF_vars(Step(r))

Spec == Init /\ [][Next]_vars /\ Fairness

-----------------------------------------------------------------------------
(* Properties *)

TypeOK ==
  /\ input \in Versions /\ late \in BOOLEAN /\ aged \in BOOLEAN
  /\ submit.pc \in {"idle", "signed", "read", "created"}
  /\ \A j \in 1..Len(jobs) : jobs[j].status \in {"in_progress", "completed", "expired"}
  /\ \A r \in Readers :
       /\ reader[r].pc \in {"idle", "status", "save", "check", "read", "apply", "writing", "ended"}
       /\ reader[r].pc # "writing" => writer[r].pc \in Output!Ends \cup {"idle"}
  /\ target # None => target.job \in 1..Len(jobs)

\* What collect publishes is the translation of the document that was
\* submitted, each segment with its own answer, in whatever order the provider
\* completed the requests, and it refuses only answers that are not right: the
\* document of a job was read apart from its signature, and the input is read
\* apart from its check.  Only an edit between these two gets through.
ResultsApplied ==
  ~late =>
    /\ target # None =>
         LET version == jobs[target.job].version
         IN /\ target.version = version
            /\ target.text = [i \in DOMAIN Docs[version] |-> Text(version, Docs[version][i].id)]
    /\ \A r \in Readers :
         reader[r].pc = "ended" /\ reader[r].answer = "invalid"
           => jobs[reader[r].job].out \notin RightOutputs(jobs[reader[r].job])

\* Writers of the output exclude each other unless a lock grew old.
WritersExclude == Output!WritersExclude

\* Every status and every collect ends, also when another process stopped with
\* the lock or has just removed it, unless there is a stale lock that cannot be
\* removed: then a collect goes on trying for ever.
StaleLockStays == lock # None /\ lock.kept
CommandsEnd ==
  <>[]~StaleLockStays =>
    \A r \in Readers : (reader[r].pc # "idle") ~> (reader[r].pc = "ended")
=============================================================================
