--------------------------- MODULE Overnight_proofs ---------------------------
(***************************************************************************)
(* Proofs about Overnight for any number of processes, versions of the     *)
(* input, jobs and segments.                                               *)
(***************************************************************************)
EXTENDS Overnight, SequenceTheorems, WellFoundedInduction, TLAPS

-----------------------------------------------------------------------------
(* The output file *)

Locks == [by : Readers, old : BOOLEAN, kept : BOOLEAN]

\* The writers and the lock have the fields the actions read and set.
OutputType ==
  /\ writer = [r \in Readers |-> [pc |-> writer[r].pc, content |-> writer[r].content]]
  /\ lock \in Locks \cup {None}
  /\ aged \in BOOLEAN

\* While no lock has grown old a writer past the creation of its lock finds
\* its own lock at the path, none is about to remove a lock as stale, and a
\* writer that reads the path back finds what it published.
LockHeld ==
  ~aged =>
    /\ lock # None => ~lock.old
    /\ \A r \in Readers :
         /\ writer[r].pc \in Output!Critical => lock # None /\ lock.by = r
         /\ writer[r].pc \notin {"stale", "mismatch"}
         /\ writer[r].pc = "verifying" => target = writer[r].content

OutputInv == OutputType /\ LockHeld

\* The invariant implies the property, one lock having one creator.
LEMMA LockExcludes == OutputInv => WritersExclude
BY DEF OutputInv, LockHeld, WritersExclude, Output!WritersExclude

\* At first no writer has been called and there is no lock.
LEMMA OutputInit == Init => OutputInv
PROOF
  <1> SUFFICES ASSUME Init PROVE OutputInv
    OBVIOUS
  <1>1. \A r \in Readers : writer[r].pc = "idle" /\ writer[r].content = None
    BY DEF Init, Output!NotCalled
  <1>2. writer = [r \in Readers |-> [pc |-> "idle", content |-> None]]
    BY DEF Init, Output!NotCalled
  <1>3. OutputType
    BY <1>1, <1>2 DEF Init, OutputType
  <1>4. LockHeld
    BY <1>1 DEF Init, LockHeld, Output!Critical, Output!Staging
  <1> QED BY <1>3, <1>4 DEF OutputInv

\* A writer that changes its place only.
LEMMA MovesType ==
  ASSUME OutputType, NEW w \in Readers, NEW pc, Output!Moves(w, pc)
  PROVE  /\ writer' = [r \in Readers |-> [pc |-> writer'[r].pc, content |-> writer'[r].content]]
         /\ writer'[w].pc = pc /\ writer'[w].content = writer[w].content
         /\ \A r \in Readers \ {w} : writer'[r] = writer[r]
BY DEF OutputType, Output!Moves

\* A step that leaves the output file alone.
LEMMA OutputStutter == OutputInv /\ UNCHANGED output => OutputInv'
BY DEF OutputInv, OutputType, LockHeld, output, Output!Critical, Output!Staging

\* The steps of one write.
LEMMA WriteStep ==
  ASSUME OutputInv, NEW w \in Readers, Output!Write(w)
  PROVE  OutputInv'
PROOF
  <1> USE DEF OutputInv, Output!Critical, Output!Staging
  <1>1. CASE Output!CreateLock(w)
    <2> DEFINE own == Output!LockOf(w)
    <2>1. own \in Locks /\ own # None /\ own.by = w /\ ~own.old
      <3>1. own \in Locks /\ own.by = w /\ ~own.old
        BY DEF Locks, Output!LockOf
      <3> QED BY <3>1, NoLockAssumption DEF Locks
    <2> HIDE DEF own
    <2>2. UNCHANGED <<target, aged>>
      BY <1>1 DEF Output!CreateLock
    <2>5. lock = None
      BY <1>1 DEF Output!CreateLock
    <2>3. CASE Output!Moves(w, "failed") /\ lock' \in {None, own}
      <3>1. OutputType'
        BY <2>1, <2>2, <2>3, MovesType DEF OutputType
      <3>2. ASSUME ~aged PROVE \A r \in Readers : writer[r].pc \notin Output!Critical
        BY <2>5, <3>2 DEF LockHeld
      <3>3. LockHeld'
        BY <2>1, <2>2, <2>3, <3>2, MovesType DEF LockHeld
      <3> QED BY <3>1, <3>3
    <2>4. CASE Output!Moves(w, "staging") /\ lock' = own
      <3>1. OutputType'
        BY <2>1, <2>2, <2>4, MovesType DEF OutputType
      <3>2. ASSUME ~aged PROVE \A r \in Readers : writer[r].pc \notin Output!Critical
        BY <1>1, <3>2 DEF LockHeld, Output!CreateLock
      <3>3. LockHeld'
        BY <2>1, <2>2, <2>4, <3>2, MovesType DEF LockHeld
      <3> QED BY <3>1, <3>3
    <2> QED BY <1>1, <2>3, <2>4 DEF Output!CreateLock, own
  <1>2. CASE Output!FindStale(w)
    <2>1. OutputType'
      BY <1>2, MovesType DEF OutputType, Output!FindStale
    <2>2. LockHeld'
      BY <1>2 DEF LockHeld, Output!FindStale
    <2> QED BY <2>1, <2>2
  <1>3. CASE Output!RemoveStale(w)
    <2>3. lock' \in Locks \cup {None}
      <3>1. CASE lock # None /\ lock' = [lock EXCEPT !.kept = TRUE]
        BY <3>1 DEF OutputType, Locks
      <3> QED BY <1>3, <3>1 DEF Output!RemoveStale, Output!Removed
    <2>1. OutputType'
      BY <1>3, <2>3, MovesType DEF OutputType, Output!RemoveStale
    <2>2. LockHeld'
      BY <1>3 DEF LockHeld, Output!RemoveStale
    <2> QED BY <2>1, <2>2
  <1>4. CASE Output!GiveUp(w)
    <2>1. OutputType'
      BY <1>4, MovesType DEF OutputType, Output!GiveUp
    <2>2. LockHeld'
      BY <1>4, MovesType DEF LockHeld, Output!GiveUp
    <2> QED BY <2>1, <2>2
  <1>5. CASE Output!Stage(w)
    <2>1. PICK next \in {"publishing", "failing"} : Output!Moves(w, next)
      BY <1>5 DEF Output!Stage
    <2>2. OutputType'
      BY <1>5, <2>1, MovesType DEF OutputType, Output!Stage
    <2>3. LockHeld'
      BY <1>5, <2>1, MovesType DEF LockHeld, Output!Stage
    <2> QED BY <2>2, <2>3
  <1>6. CASE Output!Publish(w)
    <2>1. PICK pc \in {"verifying", "failing"} : Output!Moves(w, pc)
      BY <1>6 DEF Output!Publish
    <2>2. OutputType'
      BY <1>6, <2>1, MovesType DEF OutputType, Output!Publish
    <2>3. ASSUME ~aged, NEW r \in Readers, r # w
          PROVE  writer[r].pc \notin Output!Critical
      BY <1>6, <2>3 DEF LockHeld, Output!Publish
    <2>4. writer'[w].pc = "verifying" => target' = writer'[w].content
      BY <1>6, MovesType DEF Output!Publish
    <2>5. LockHeld'
      BY <1>6, <2>1, <2>3, <2>4, MovesType DEF LockHeld, Output!Publish
    <2> QED BY <2>2, <2>5
  <1>7. CASE Output!Verify(w)
    <2>1. PICK pc \in {"failing", "releasing", "mismatch"} : Output!Moves(w, pc)
      BY <1>7 DEF Output!Verify
    <2>2. OutputType'
      BY <1>7, <2>1, MovesType DEF OutputType, Output!Verify, Output!Drop
    <2>3. ~aged => target = writer[w].content
      BY <1>7 DEF LockHeld, Output!Verify
    <2>4. ~aged => lock' = lock /\ writer'[w].pc \in {"failing", "releasing"}
      BY <1>7, <2>3, MovesType DEF Output!Verify
    <2>5. LockHeld'
      BY <1>7, <2>1, <2>4, MovesType DEF LockHeld, Output!Verify
    <2> QED BY <2>2, <2>5
  <1>8. CASE Output!Release(w)
    <2>1. PICK pc \in {"failed", "written"} : Output!Moves(w, pc)
      BY <1>8 DEF Output!Release
    <2>2. OutputType'
      BY <1>8, <2>1, MovesType DEF OutputType, Output!Release, Output!Drop
    <2>3. ASSUME ~aged, NEW r \in Readers, r # w
          PROVE  writer[r].pc \notin Output!Critical
      BY <1>8, <2>3 DEF LockHeld, Output!Release
    <2>4. LockHeld'
      BY <1>8, <2>1, <2>3, MovesType DEF LockHeld, Output!Release, Output!Drop
    <2> QED BY <2>2, <2>4
  <1> QED BY <1>1, <1>2, <1>3, <1>4, <1>5, <1>6, <1>7, <1>8 DEF Output!Write

\* A lock grows old.
LEMMA AgeStep == OutputInv /\ Output!Age => OutputInv'
BY DEF OutputInv, OutputType, LockHeld, Locks, Output!Age

\* A process stops and leaves its lock.
LEMMA StopStep ==
  ASSUME OutputInv, NEW w \in Readers, Output!StopWriter(w)
  PROVE  OutputInv'
PROOF
  <1>1. Output!Moves(w, "crashed")
    BY DEF Output!StopWriter
  <1>2. OutputType'
    BY <1>1, MovesType DEF OutputInv, OutputType, Output!StopWriter
  <1>3. LockHeld'
    BY <1>1, MovesType DEF OutputInv, LockHeld, Output!StopWriter, Output!Critical, Output!Staging
  <1> QED BY <1>2, <1>3 DEF OutputInv

\* A collect hands its content to the writer, or ends without.
LEMMA ApplyStep ==
  ASSUME OutputInv, NEW r \in Readers, Apply(r)
  PROVE  OutputInv'
PROOF
  <1>1. UNCHANGED <<target, lock, aged>>
    BY DEF Apply
  <1>2. CASE writer' = writer
    BY <1>1, <1>2, OutputStutter DEF output
  <1>3. CASE writer' # writer
    <2>1. PICK content : writer' = [writer EXCEPT ![r] = Output!Called(content)]
      BY <1>3 DEF Apply
    <2>2. /\ writer'[r] = [pc |-> "locking", content |-> content]
          /\ \A q \in Readers \ {r} : writer'[q] = writer[q]
      BY <2>1 DEF OutputInv, OutputType, Output!Called
    <2>3. OutputType'
      BY <1>1, <2>1, <2>2 DEF OutputInv, OutputType
    <2>4. LockHeld'
      BY <1>1, <2>2 DEF OutputInv, LockHeld, Output!Critical, Output!Staging
    <2> QED BY <2>3, <2>4 DEF OutputInv
  <1> QED BY <1>2, <1>3

-----------------------------------------------------------------------------
(* The theorem *)

\* Every step of the specification keeps the invariant.
LEMMA OutputNext == OutputInv /\ [Next]_vars => OutputInv'
PROOF
  <1> SUFFICES ASSUME OutputInv, [Next]_vars PROVE OutputInv'
    OBVIOUS
  <1>1. CASE UNCHANGED vars
    BY <1>1, OutputStutter DEF vars
  <1>2. CASE Submit
    <2>1. UNCHANGED output
      BY <1>2 DEF Submit, SignInput, ReadInput, CreateJob, WriteManifest, SubmitEnds, SubmitOnly
    <2> QED BY <2>1, OutputStutter
  <1>3. CASE EditInput
    BY <1>3, OutputStutter DEF EditInput
  <1>4. CASE Tick
    BY <1>4, AgeStep DEF Tick
  <1>5. ASSUME NEW j \in 1..Len(jobs), JobEnds(j) PROVE OutputInv'
    BY <1>5, OutputStutter DEF JobEnds
  <1>6. ASSUME NEW r \in Readers, Run(r) PROVE OutputInv'
    BY <1>6, OutputStutter DEF Run
  <1>7. ASSUME NEW r \in Readers, Step(r) PROVE OutputInv'
    <2>1. CASE AskStatus(r)
      BY <2>1, OutputStutter DEF AskStatus
    <2>2. CASE SaveStatus(r)
      BY <2>2, OutputStutter DEF SaveStatus
    <2>3. CASE CheckInput(r)
      BY <2>3, OutputStutter DEF CheckInput
    <2>4. CASE ReadDocument(r)
      BY <2>4, OutputStutter DEF ReadDocument
    <2>5. CASE Apply(r)
      BY <2>5, ApplyStep
    <2>6. CASE WriteOutput(r)
      BY <2>6, WriteStep DEF WriteOutput
    <2>7. CASE Collected(r)
      BY <2>7, OutputStutter DEF Collected
    <2> QED BY <1>7, <2>1, <2>2, <2>3, <2>4, <2>5, <2>6, <2>7 DEF Step
  <1>8. ASSUME NEW r \in Readers, Stop(r) PROVE OutputInv'
    <2>1. CASE UNCHANGED output
      BY <2>1, OutputStutter
    <2>2. CASE Output!StopWriter(r)
      BY <2>2, StopStep
    <2> QED BY <1>8, <2>1, <2>2 DEF Stop
  <1> QED BY <1>1, <1>2, <1>3, <1>4, <1>5, <1>6, <1>7, <1>8 DEF Next

\* For any number of processes that write one path, stopping anywhere: while no
\* lock has outlived five minutes, write_file_atomically lets one of them at a
\* time between its lock and its release, and its read-back never fails.
THEOREM OneWriter == Spec => []WritersExclude
PROOF
  <1>1. Init => OutputInv
    BY OutputInit
  <1>2. OutputInv /\ [Next]_vars => OutputInv'
    BY OutputNext
  <1>3. OutputInv => WritersExclude
    BY LockExcludes
  <1> QED BY <1>1, <1>2, <1>3, PTL DEF Spec

-----------------------------------------------------------------------------
(* The requests of a document *)

Request == [custom : Nat \X Nat, ids : SUBSET Nat]
DocIds(version) == {Docs[version][i].id : i \in DOMAIN Docs[version]}

Members(batches) == UNION {batches[p] : p \in DOMAIN batches}

LEMMA InMembers ==
  ASSUME NEW batches, NEW id
  PROVE  id \in Members(batches) <=> \E p \in DOMAIN batches : id \in batches[p]
BY DEF Members

\* The documents are sequences of segments, and their ids are numbers.
LEMMA DocTypes ==
  ASSUME NEW version \in Versions
  PROVE  /\ Docs[version] \in Seq(Segment) /\ Docs[version] # <<>>
         /\ DocIds(version) \in SUBSET Nat /\ version \in Nat \ {0}
PROOF
  <1>1. /\ Docs[version] \in Seq(Segment) /\ Docs[version] # <<>>
        /\ version \in Nat \ {0}
    BY OvernightAssumption DEF Versions
  <1>2. \A i \in DOMAIN Docs[version] : Docs[version][i] \in Segment
    BY <1>1
  <1>3. \A i \in DOMAIN Docs[version] : Docs[version][i].id \in Nat
    BY <1>2 DEF Segment
  <1> QED BY <1>1, <1>3 DEF DocIds

\* A plan of the segments with these ids: each is in one batch, or in the one
\* that is being filled.
PlanOK(plan, ids) ==
  /\ plan.batches \in Seq(SUBSET Nat) /\ plan.current \in SUBSET Nat
  /\ \A p, q \in DOMAIN plan.batches : p # q => plan.batches[p] \cap plan.batches[q] = {}
  /\ \A p \in DOMAIN plan.batches : plan.batches[p] \cap plan.current = {}
  /\ Members(plan.batches) \cup plan.current = ids

\* The batches of a plan with one more.
LEMMA ClosePlan ==
  ASSUME NEW batches \in Seq(SUBSET Nat), NEW last \in SUBSET Nat,
         \A p, q \in DOMAIN batches : p # q => batches[p] \cap batches[q] = {},
         \A p \in DOMAIN batches : batches[p] \cap last = {}
  PROVE  LET all == Append(batches, last) IN
         /\ all \in Seq(SUBSET Nat)
         /\ \A p, q \in DOMAIN all : p # q => all[p] \cap all[q] = {}
         /\ Members(all) = Members(batches) \cup last
PROOF
  <1> DEFINE all == Append(batches, last)
  <1>1. /\ all \in Seq(SUBSET Nat) /\ Len(all) = Len(batches) + 1
        /\ \A p \in 1..Len(batches) : all[p] = batches[p]
        /\ all[Len(batches) + 1] = last
    BY AppendProperties
  <1> HIDE DEF all
  <1>2. /\ DOMAIN batches = 1..Len(batches) /\ DOMAIN all = 1..(Len(batches) + 1)
        /\ Len(batches) \in Nat
    BY <1>1
  <1>3. DOMAIN all = DOMAIN batches \cup {Len(batches) + 1}
    BY <1>2
  <1>4. \A p, q \in DOMAIN all : p # q => all[p] \cap all[q] = {}
    BY <1>1, <1>2, <1>3
  <1>5. Members(all) = Members(batches) \cup last
    <2>1. ASSUME NEW id PROVE id \in Members(all) <=> id \in Members(batches) \/ id \in last
      <3>1. \A p \in DOMAIN batches : p \in DOMAIN all /\ all[p] = batches[p]
        BY <1>1, <1>2, <1>3
      <3>2. Len(batches) + 1 \in DOMAIN all /\ all[Len(batches) + 1] = last
        BY <1>1, <1>3
      <3>3. \A p \in DOMAIN all : p \in DOMAIN batches \/ p = Len(batches) + 1
        BY <1>3
      <3> QED BY <3>1, <3>2, <3>3, InMembers
    <2> QED BY <2>1
  <1> QED BY <1>1, <1>4, <1>5 DEF all

\* The next segment goes into the current batch, or starts one.
LEMMA TakeOK ==
  ASSUME NEW plan, NEW ids, PlanOK(plan, ids),
         NEW segment \in Segment, segment.id \notin ids
  PROVE  PlanOK(TakeSegment(plan, segment), ids \cup {segment.id})
PROOF
  <1> DEFINE next == TakeSegment(plan, segment)
  <1>0. segment.id \in Nat
    BY DEF Segment
  <1>1. CASE next.batches = plan.batches /\ next.current = plan.current \cup {segment.id}
    <2>1. \A p \in DOMAIN plan.batches : segment.id \notin plan.batches[p]
      BY InMembers DEF PlanOK
    <2> HIDE DEF next
    <2>2. \A p \in DOMAIN next.batches : next.batches[p] \cap next.current = {}
      BY <1>1, <2>1 DEF PlanOK
    <2>3. next.batches \in Seq(SUBSET Nat) /\ next.current \in SUBSET Nat
      BY <1>0, <1>1 DEF PlanOK
    <2>4. Members(next.batches) \cup next.current = ids \cup {segment.id}
      BY <1>1 DEF PlanOK
    <2>5. PlanOK(next, ids \cup {segment.id})
      BY <1>1, <2>2, <2>3, <2>4 DEF PlanOK
    <2> QED BY <2>5 DEF next
  <1>2. CASE next.batches = Append(plan.batches, plan.current) /\ next.current = {segment.id}
    <2> HIDE DEF next
    <2>1. /\ plan.batches \in Seq(SUBSET Nat) /\ plan.current \in SUBSET Nat
          /\ \A p, q \in DOMAIN plan.batches :
               p # q => plan.batches[p] \cap plan.batches[q] = {}
          /\ \A p \in DOMAIN plan.batches : plan.batches[p] \cap plan.current = {}
      BY DEF PlanOK
    <2>2. /\ next.batches \in Seq(SUBSET Nat)
          /\ \A p, q \in DOMAIN next.batches :
               p # q => next.batches[p] \cap next.batches[q] = {}
          /\ Members(next.batches) = Members(plan.batches) \cup plan.current
      <3>1. LET all == Append(plan.batches, plan.current) IN
            /\ all \in Seq(SUBSET Nat)
            /\ \A p, q \in DOMAIN all : p # q => all[p] \cap all[q] = {}
            /\ Members(all) = Members(plan.batches) \cup plan.current
        BY <2>1, ClosePlan
      <3> QED BY <1>2, <3>1
    <2>3. Members(next.batches) = ids
      BY <2>2 DEF PlanOK
    <2>4. \A p \in DOMAIN next.batches : next.batches[p] \cap next.current = {}
      <3>1. segment.id \notin Members(next.batches)
        BY <2>3
      <3>2. \A p \in DOMAIN next.batches : segment.id \notin next.batches[p]
        BY <3>1, InMembers
      <3> QED BY <1>2, <3>2
    <2>5. next.current \in SUBSET Nat
      BY <1>0, <1>2
    <2>6. Members(next.batches) \cup next.current = ids \cup {segment.id}
      BY <1>2, <2>3
    <2>7. PlanOK(next, ids \cup {segment.id})
      BY <2>2, <2>4, <2>5, <2>6 DEF PlanOK
    <2> QED BY <2>7 DEF next
  <1> QED BY <1>1, <1>2 DEF TakeSegment

\* The function that takes the segments one after the other exists.
TakesUpTo(doc, n, plan) ==
  plan = [i \in 0..n |-> IF i = 0 THEN NoPlan ELSE TakeSegment(plan[i - 1], doc[i])]

\* A property of the smallest number that lacks it does not fail.
LEMMA SmallestOf ==
  ASSUME NEW S \in SUBSET Nat, S # {}
  PROVE  \E x \in S : \A y \in S : x <= y
PROOF
  <1> DEFINE R == OpToRel(<, Nat)
  <1>1. IsWellFoundedOn(R, Nat)
    BY NatLessThanWellFounded
  <1>2. \A x, y \in Nat : <<x, y>> \in R <=> x < y
    BY DEF OpToRel
  <1> HIDE DEF R
  <1>3. PICK x \in S : \A y \in S : ~ (<<y, x>> \in R)
    BY <1>1, WFMin
  <1>4. ASSUME NEW y \in S PROVE x <= y
    <2>1. x \in Nat /\ y \in Nat
      OBVIOUS
    <2>2. ~ (y < x)
      BY <1>2, <1>3, <2>1
    <2> QED BY <2>1, <2>2
  <1> QED BY <1>3, <1>4

LEMMA PlanExists ==
  ASSUME NEW doc, NEW len \in Nat
  PROVE  \E plan : TakesUpTo(doc, len, plan)
PROOF
  <1> DEFINE Bad == {n \in Nat : ~ \E plan : TakesUpTo(doc, n, plan)}
  <1>1. ASSUME Bad # {} PROVE FALSE
    <2>1. PICK n \in Bad : \A m \in Bad : n <= m
      BY <1>1, SmallestOf
    <2>2. CASE n = 0
      <3>1. TakesUpTo(doc, 0, [i \in 0..0 |-> NoPlan])
        BY DEF TakesUpTo
      <3> QED BY <2>1, <2>2, <3>1
    <2>3. CASE n # 0
      <3>1. n - 1 \in Nat /\ n \in Nat /\ n - 1 \notin Bad
        BY <2>1, <2>3
      <3>2. PICK plan : TakesUpTo(doc, n - 1, plan)
        BY <3>1
      <3> DEFINE next == [i \in 0..n |-> IF i = n THEN TakeSegment(plan[n - 1], doc[n])
                                          ELSE plan[i]]
      <3>3. plan = [i \in 0..(n - 1) |-> IF i = 0 THEN NoPlan
                                          ELSE TakeSegment(plan[i - 1], doc[i])]
        BY <3>2 DEF TakesUpTo
      <3>4. ASSUME NEW i \in 0..n
            PROVE  next[i] = IF i = 0 THEN NoPlan ELSE TakeSegment(next[i - 1], doc[i])
        <4>1. CASE i = n
          <5>1. next[i] = TakeSegment(plan[n - 1], doc[n]) /\ i # 0
            BY <2>3, <4>1
          <5>2. n - 1 \in 0..n /\ n - 1 # n
            BY <3>1
          <5>3. next[n - 1] = plan[n - 1]
            BY <5>2
          <5> QED BY <4>1, <5>1, <5>3
        <4>2. CASE i # n
          <5>1. i \in 0..(n - 1) /\ next[i] = plan[i]
            BY <3>1, <4>2
          <5>2. plan[i] = IF i = 0 THEN NoPlan ELSE TakeSegment(plan[i - 1], doc[i])
            BY <3>3, <5>1
          <5>3. ASSUME i # 0 PROVE next[i - 1] = plan[i - 1]
            <6>1. i - 1 \in 0..n /\ i - 1 # n
              BY <3>1, <5>1, <5>3
            <6> QED BY <6>1
          <5> QED BY <5>1, <5>2, <5>3
        <4> QED BY <4>1, <4>2
      <3>5. next = [i \in 0..n |-> IF i = 0 THEN NoPlan ELSE TakeSegment(next[i - 1], doc[i])]
        <4>1. next = [i \in 0..n |-> next[i]]
          OBVIOUS
        <4> HIDE DEF next
        <4> QED BY <3>4, <4>1
      <3>6. TakesUpTo(doc, n, next)
        BY <3>5 DEF TakesUpTo
      <3> QED BY <2>1, <3>6
    <2> QED BY <2>2, <2>3
  <1> QED BY <1>1

\* The requests of a document ask for each of its segments once.
LEMMA PlanPartitions ==
  ASSUME NEW version \in Versions
  PROVE  LET plan == PlanTranslation(Docs[version]) IN
         /\ plan \in Seq(SUBSET Nat)
         /\ \A p, q \in DOMAIN plan : p # q => plan[p] \cap plan[q] = {}
         /\ Members(plan) = DocIds(version)
PROOF
  <1> DEFINE doc == Docs[version]
             len == Len(doc)
             IdsUpTo(n) == {doc[i].id : i \in 1..n}
             plan == CHOOSE p : TakesUpTo(doc, len, p)
  <1>1. doc \in Seq(Segment) /\ len \in Nat /\ DOMAIN doc = 1..len
    BY OvernightAssumption DEF Versions
  <1>2. \A i, k \in 1..len : doc[i].id = doc[k].id => i = k
    BY <1>1, IdsAssumption DEF Versions
  <1>3. TakesUpTo(doc, len, plan)
    <2>1. \E p : TakesUpTo(doc, len, p)
      BY <1>1, PlanExists
    <2> QED BY <2>1
  <1>4. PlanTranslation(doc) = IF plan[len].current = {} THEN plan[len].batches
                               ELSE Append(plan[len].batches, plan[len].current)
    BY DEF PlanTranslation, TakesUpTo
  <1> HIDE DEF doc, len, plan
  <1>5. \A i \in 0..len : plan[i] = IF i = 0 THEN NoPlan ELSE TakeSegment(plan[i - 1], doc[i])
    BY <1>3 DEF TakesUpTo
  <1>6. \A n \in 0..len : PlanOK(plan[n], IdsUpTo(n))
    <2> DEFINE Bad == {n \in 0..len : ~ PlanOK(plan[n], IdsUpTo(n))}
    <2>1. ASSUME Bad # {} PROVE FALSE
      <3>1. Bad \in SUBSET Nat
        BY <1>1
      <3> HIDE DEF Bad
      <3>2. PICK n \in Bad : \A m \in Bad : n <= m
        BY <2>1, <3>1, SmallestOf
      <3>3. n \in 0..len /\ ~ PlanOK(plan[n], IdsUpTo(n))
        BY <3>2 DEF Bad
      <3>4. CASE n = 0
        <4>1. plan[n] = NoPlan
          BY <1>5, <3>3, <3>4
        <4>2. IdsUpTo(n) = {}
          BY <3>4
        <4>3. <<>> \in Seq(SUBSET Nat) /\ DOMAIN <<>> = {}
          OBVIOUS
        <4>4. Members(<<>>) = {}
          BY <4>3, InMembers
        <4>5. /\ NoPlan.batches = <<>> /\ NoPlan.current = {}
          BY DEF NoPlan
        <4> HIDE DEF IdsUpTo
        <4>6. PlanOK(NoPlan, {})
          BY <4>3, <4>4, <4>5 DEF PlanOK
        <4> QED BY <3>3, <4>1, <4>2, <4>6
      <3>5. CASE n # 0
        <4>1. n - 1 \in 0..len /\ n \in 1..len /\ ~ (n <= n - 1)
          BY <1>1, <3>3, <3>5
        <4>2. PlanOK(plan[n - 1], IdsUpTo(n - 1))
          BY <3>2, <4>1 DEF Bad
        <4>3. doc[n] \in Segment
          BY <1>1, <4>1
        <4>4. doc[n].id \notin IdsUpTo(n - 1)
          BY <1>1, <1>2, <4>1
        <4>5. IdsUpTo(n) = IdsUpTo(n - 1) \cup {doc[n].id}
          <5>1. 1..n = 1..(n - 1) \cup {n}
            BY <1>1, <4>1
          <5> QED BY <5>1
        <4>6. plan[n] = TakeSegment(plan[n - 1], doc[n])
          BY <1>5, <3>3, <3>5
        <4> HIDE DEF IdsUpTo
        <4> QED BY <3>3, <4>2, <4>3, <4>4, <4>5, <4>6, TakeOK
      <3> QED BY <3>4, <3>5
    <2> QED BY <2>1
  <1> DEFINE last == plan[len]
  <1>7. PlanOK(last, DocIds(version))
    <2>1. IdsUpTo(len) = DocIds(version)
      BY <1>1 DEF DocIds, doc
    <2>2. len \in 0..len
      BY <1>1
    <2> HIDE DEF IdsUpTo
    <2>3. PlanOK(plan[len], IdsUpTo(len))
      BY <1>6, <2>2
    <2> QED BY <2>1, <2>3
  <1>8. PlanTranslation(Docs[version])
          = IF last.current = {} THEN last.batches ELSE Append(last.batches, last.current)
    BY <1>4 DEF doc
  <1> HIDE DEF last
  <1>9. CASE last.current = {}
    BY <1>7, <1>8, <1>9 DEF PlanOK
  <1>10. CASE last.current # {}
    <2>1. LET all == Append(last.batches, last.current) IN
          /\ all \in Seq(SUBSET Nat)
          /\ \A p, q \in DOMAIN all : p # q => all[p] \cap all[q] = {}
          /\ Members(all) = Members(last.batches) \cup last.current
      BY <1>7, ClosePlan DEF PlanOK
    <2> QED BY <1>7, <1>8, <1>10, <2>1 DEF PlanOK
  <1> QED BY <1>9, <1>10

-----------------------------------------------------------------------------
(* The answers of the provider *)

Statuses == {"in_progress", "completed", "expired"}
Texts    == [version : Nat, id : Nat]
Line     == [id : Nat, text : Texts]
AnswerOf == [custom : Nat \X Nat, ok : BOOLEAN, lines : SUBSET Line]

Job == [requests : Seq(Request), version : Versions, status : Statuses,
        failed : {0, 1}, out : Seq(AnswerOf) \cup {None}]

\* The requests of a job ask for every segment of its document once.
Covers(requests, version) ==
  /\ \A p, q \in DOMAIN requests : requests[p].custom = requests[q].custom => p = q
  /\ \A p, q \in DOMAIN requests : p # q => requests[p].ids \cap requests[q].ids = {}
  /\ \A id \in DocIds(version) : \E p \in DOMAIN requests : id \in requests[p].ids
  /\ \A p \in DOMAIN requests : requests[p].ids \subseteq DocIds(version)
  /\ requests # <<>>

\* A line of an answer is the translation of the segment it names, or empty.
TrueLine(version, line) == line.text = Text(version, line.id) \/ line.text = Empty
TrueAnswer(version, answer) == \A line \in answer.lines : TrueLine(version, line)
TrueAnswers(version, out) == \A i \in DOMAIN out : TrueAnswer(version, out[i])

JobOK(job) ==
  /\ Covers(job.requests, job.version)
  /\ job.out # None => TrueAnswers(job.version, job.out)

\* What submit uploads.
LEMMA RequestsCover ==
  ASSUME NEW version \in Versions, NEW signature \in Versions
  PROVE  Requests(signature, version) \in Seq(Request)
         /\ Covers(Requests(signature, version), version)
PROOF
  <1> DEFINE plan == PlanTranslation(Docs[version])
             all == Requests(signature, version)
  <1>1. /\ plan \in Seq(SUBSET Nat)
        /\ \A p, q \in DOMAIN plan : p # q => plan[p] \cap plan[q] = {}
        /\ Members(plan) = DocIds(version)
    BY PlanPartitions
  <1>2. all = [i \in DOMAIN plan |-> [custom |-> <<signature, i>>, ids |-> plan[i]]]
    BY DEF Requests
  <1>3. signature \in Nat
    BY OvernightAssumption DEF Versions
  <1>4. /\ Docs[version] \in Seq(Segment) /\ Docs[version] # <<>>
        /\ 1 \in DOMAIN Docs[version]
    BY OvernightAssumption DEF Versions
  <1>5. Docs[version][1].id \in DocIds(version)
    BY <1>4 DEF DocIds
  <1> HIDE DEF plan, all
  <1>6. DOMAIN plan = 1..Len(plan) /\ Len(plan) \in Nat
    BY <1>1
  <1>7. /\ DOMAIN all = DOMAIN plan
        /\ \A i \in DOMAIN plan : all[i].custom = <<signature, i>> /\ all[i].ids = plan[i]
        /\ \A i \in DOMAIN plan : all[i] \in Request
    BY <1>1, <1>2, <1>3, <1>6 DEF Request
  <1>8. all \in Seq(Request)
    <2>1. all = [i \in 1..Len(plan) |-> all[i]]
      BY <1>2, <1>6
    <2> QED BY <1>6, <1>7, <2>1
  <1>9. /\ \A id \in DocIds(version) : \E p \in DOMAIN all : id \in all[p].ids
        /\ \A p \in DOMAIN all : all[p].ids \subseteq DocIds(version)
    BY <1>1, <1>7, InMembers
  <1>10. all # <<>>
    <2>1. \E p \in DOMAIN plan : TRUE
      BY <1>1, <1>5, InMembers
    <2> QED BY <1>7, <2>1
  <1>11. \A p, q \in DOMAIN all : all[p].custom = all[q].custom => p = q
    BY <1>7
  <1>12. \A p, q \in DOMAIN all : p # q => all[p].ids \cap all[q].ids = {}
    BY <1>1, <1>7
  <1> QED BY <1>8, <1>9, <1>10, <1>11, <1>12 DEF Covers, all

\* The answer to a request, line by line.
LEMMA AnswerIsTrue ==
  ASSUME NEW job \in Job, NEW request \in Request
  PROVE  /\ Answer(job, request) \in AnswerOf
         /\ TrueAnswer(job.version, Answer(job, request))
         /\ ValidLines(request.ids, Answer(job, request).lines)
         /\ \A line \in Answer(job, request).lines : line.text # Empty
         /\ Answer(job, request).custom = request.custom /\ Answer(job, request).ok
         /\ Answer(job, request).lines \in SUBSET Line
PROOF
  <1> DEFINE lines == {[id |-> id, text |-> Text(job.version, id)] : id \in request.ids}
  <1>1. /\ job.version \in Nat /\ job.version # 0
        /\ request.ids \in SUBSET Nat /\ request.custom \in Nat \X Nat
    BY OvernightAssumption DEF Job, Request, Versions
  <1>2. \A line \in lines : /\ line.id \in request.ids
                            /\ line.text = Text(job.version, line.id)
    OBVIOUS
  <1>3. \A id \in request.ids : [id |-> id, text |-> Text(job.version, id)] \in lines
    OBVIOUS
  <1>4. lines \in SUBSET Line
    <2>1. \A id \in request.ids : [id |-> id, text |-> Text(job.version, id)] \in Line
      BY <1>1 DEF Line, Texts, Text
    <2> QED BY <2>1
  <1>5. \A line \in lines : line.text # Empty
    BY <1>1, <1>2 DEF Text, Empty
  <1>6. ValidLines(request.ids, lines)
    <2>1. \A k, l \in lines : k.id = l.id => k = l
      OBVIOUS
    <2>2. {line.id : line \in lines} = request.ids
      <3>1. \A id \in request.ids : [id |-> id, text |-> Text(job.version, id)].id = id
        OBVIOUS
      <3> HIDE DEF lines
      <3>2. \A line \in lines : line.id \in request.ids
        BY <1>2
      <3>3. \A id \in request.ids : \E line \in lines : line.id = id
        BY <1>3, <3>1
      <3> QED BY <3>2, <3>3
    <2> QED BY <2>1, <2>2 DEF ValidLines
  <1> HIDE DEF lines
  <1>7. Answer(job, request) = [custom |-> request.custom, ok |-> TRUE, lines |-> lines]
    BY DEF Answer, lines
  <1>8. Answer(job, request) \in AnswerOf
    BY <1>1, <1>4, <1>7 DEF AnswerOf
  <1>9. TrueAnswer(job.version, Answer(job, request))
    BY <1>2, <1>7 DEF TrueAnswer, TrueLine
  <1> QED BY <1>4, <1>5, <1>6, <1>7, <1>8, <1>9

\* The answers of a right output, in whatever order.
LEMMA RightAnswers ==
  ASSUME NEW job \in Job, NEW out \in RightOutputs(job)
  PROVE  /\ out \in Seq(AnswerOf) /\ Len(out) = Len(job.requests)
         /\ \E order \in Bijection(DOMAIN job.requests, DOMAIN job.requests) :
              \A i \in DOMAIN out : /\ order[i] \in DOMAIN job.requests
                                    /\ job.requests[order[i]] \in Request
                                    /\ out[i] = Answer(job, job.requests[order[i]])
PROOF
  <1> DEFINE n == Len(job.requests)
  <1>1. job.requests \in Seq(Request) /\ n \in Nat /\ DOMAIN job.requests = 1..n
    BY DEF Job
  <1>2. PICK order \in Bijection(1..n, 1..n) :
          out = [i \in 1..n |-> Answer(job, job.requests[order[i]])]
    BY DEF RightOutputs
  <1>3. \A i \in 1..n : order[i] \in 1..n /\ job.requests[order[i]] \in Request
    BY <1>1, SMTT(30) DEF Bijection, Injection, Surjection
  <1>4. \A i \in 1..n : Answer(job, job.requests[order[i]]) \in AnswerOf
    BY <1>3, AnswerIsTrue
  <1>5. out \in Seq(AnswerOf) /\ Len(out) = n
    BY <1>1, <1>2, <1>4
  <1>6. DOMAIN out = 1..n
    BY <1>2
  <1>7. \A i \in DOMAIN out : /\ order[i] \in DOMAIN job.requests
                              /\ job.requests[order[i]] \in Request
                              /\ out[i] = Answer(job, job.requests[order[i]])
    BY <1>1, <1>2, <1>3, <1>6
  <1> QED BY <1>1, <1>5, <1>7

\* A right output is accepted: each request is answered once, and the lines of
\* all the answers are those of the document.
LEMMA RightIsAccepted ==
  ASSUME NEW job \in Job, Covers(job.requests, job.version),
         NEW out \in RightOutputs(job), NEW manifest, manifest.requests = job.requests
  PROVE  ParsedOutput(manifest, out) /\ ValidOutput(job.version, AllLines(out))
PROOF
  <1> DEFINE requests == job.requests
  <1>1. PICK order \in Bijection(DOMAIN requests, DOMAIN requests) :
          \A i \in DOMAIN out : /\ order[i] \in DOMAIN requests
                                /\ requests[order[i]] \in Request
                                /\ out[i] = Answer(job, requests[order[i]])
    BY RightAnswers
  <1>2. /\ out \in Seq(AnswerOf) /\ Len(out) = Len(requests) /\ requests \in Seq(Request)
        /\ DOMAIN out = DOMAIN requests
    BY RightAnswers DEF Job
  <1>3. /\ \A i, k \in DOMAIN requests : order[i] = order[k] => i = k
        /\ \A q \in DOMAIN requests : \E i \in DOMAIN requests : order[i] = q
    BY DEF Bijection, Injection, Surjection, IsInjective
  <1>4. \A i \in DOMAIN out :
          /\ out[i].custom = requests[order[i]].custom /\ out[i].ok
          /\ ValidLines(requests[order[i]].ids, out[i].lines)
          /\ \A line \in out[i].lines : line.text # Empty
          /\ out[i].lines \in SUBSET Line
    BY <1>1, AnswerIsTrue
  <1>5. /\ \A p, q \in DOMAIN requests : requests[p].custom = requests[q].custom => p = q
        /\ \A p, q \in DOMAIN requests : p # q => requests[p].ids \cap requests[q].ids = {}
        /\ \A id \in DocIds(job.version) : \E p \in DOMAIN requests : id \in requests[p].ids
        /\ \A p \in DOMAIN requests : requests[p].ids \subseteq DocIds(job.version)
    BY DEF Covers
  <1> HIDE DEF requests
  <1>6. ParsedOutput(manifest, out)
    <2>1. manifest.requests = requests
      BY DEF requests
    <2>2. ASSUME NEW i \in DOMAIN out, NEW k \in DOMAIN out, out[i].custom = out[k].custom
          PROVE  i = k
      <3>1. requests[order[i]].custom = requests[order[k]].custom
        BY <1>4, <2>2
      <3>2. order[i] = order[k]
        BY <1>1, <1>5, <3>1
      <3> QED BY <1>2, <1>3, <3>2
    <2>3. ASSUME NEW i \in DOMAIN out
          PROVE  \E q \in DOMAIN manifest.requests :
                   /\ manifest.requests[q].custom = out[i].custom
                   /\ ValidLines(manifest.requests[q].ids, out[i].lines)
      BY <1>1, <1>4, <2>1
    <2> QED BY <1>2, <1>4, <2>1, <2>2, <2>3 DEF ParsedOutput
  <1> DEFINE lines == AllLines(out)
  <1>7. \A line : line \in lines <=> \E i \in DOMAIN out : line \in out[i].lines
    BY DEF AllLines
  <1> HIDE DEF lines
  <1>8. \A i \in DOMAIN out :
          /\ \A line \in out[i].lines : line.id \in requests[order[i]].ids
          /\ \A id \in requests[order[i]].ids : \E line \in out[i].lines : line.id = id
          /\ \A k, l \in out[i].lines : k.id = l.id => k = l
    <2> SUFFICES ASSUME NEW i \in DOMAIN out
                 PROVE  /\ \A line \in out[i].lines : line.id \in requests[order[i]].ids
                        /\ \A id \in requests[order[i]].ids :
                             \E line \in out[i].lines : line.id = id
                        /\ \A k, l \in out[i].lines : k.id = l.id => k = l
      OBVIOUS
    <2>1. /\ {line.id : line \in out[i].lines} = requests[order[i]].ids
          /\ \A k, l \in out[i].lines : k.id = l.id => k = l
      BY <1>4 DEF ValidLines
    <2> QED BY <2>1
  <1>9. \A line \in lines : line.id \in DocIds(job.version) /\ line.text # Empty
    <2> SUFFICES ASSUME NEW line \in lines
                 PROVE  line.id \in DocIds(job.version) /\ line.text # Empty
      OBVIOUS
    <2>1. PICK i \in DOMAIN out : line \in out[i].lines
      BY <1>7
    <2>2. order[i] \in DOMAIN requests /\ requests[order[i]] \in Request
      BY <1>1
    <2>3. line.id \in requests[order[i]].ids
      BY <1>8, <2>1, <2>2
    <2> QED BY <1>4, <1>5, <2>1, <2>2, <2>3
  <1>10. \A id \in DocIds(job.version) : \E line \in lines : line.id = id
    <2> SUFFICES ASSUME NEW id \in DocIds(job.version) PROVE \E line \in lines : line.id = id
      OBVIOUS
    <2>2. PICK p \in DOMAIN requests : id \in requests[p].ids
      BY <1>5
    <2>3. PICK i \in DOMAIN out : order[i] = p
      BY <1>2, <1>3
    <2> QED BY <1>7, <1>8, <2>2, <2>3
  <1>11. \A k, l \in lines : k.id = l.id => k = l
    <2> SUFFICES ASSUME NEW k \in lines, NEW l \in lines, k.id = l.id PROVE k = l
      OBVIOUS
    <2>1. PICK i \in DOMAIN out : k \in out[i].lines
      BY <1>7
    <2>2. PICK j \in DOMAIN out : l \in out[j].lines
      BY <1>7
    <2>3. k.id \in requests[order[i]].ids /\ k.id \in requests[order[j]].ids
      BY <1>8, <2>1, <2>2
    <2>4. order[i] = order[j]
      BY <1>1, <1>5, <2>3
    <2>5. i = j
      BY <1>2, <1>3, <2>4
    <2> QED BY <1>8, <2>1, <2>2, <2>5
  <1>12. ValidLines(DocIds(job.version), lines)
    <2>1. {line.id : line \in lines} = DocIds(job.version)
      BY <1>9, <1>10
    <2> QED BY <1>11, <2>1 DEF ValidLines
  <1>13. ValidOutput(job.version, lines)
    BY <1>9, <1>12 DEF ValidOutput, DocIds
  <1> QED BY <1>6, <1>13 DEF lines

\* What is published is the translation of the document, whatever the output.
LEMMA AcceptedIsRight ==
  ASSUME NEW version \in Versions, NEW out, TrueAnswers(version, out),
         ValidOutput(version, AllLines(out))
  PROVE  Translated(version, AllLines(out))
           = [i \in DOMAIN Docs[version] |-> Text(version, Docs[version][i].id)]
PROOF
  <1> DEFINE lines == AllLines(out)
             found == Finalized(version, lines)
             doc == Docs[version]
  <1>1. \A line \in lines : line.text = Text(version, line.id) \/ line.text = Empty
    BY DEF AllLines, TrueAnswers, TrueAnswer, TrueLine
  <1> HIDE DEF lines
  <1>2. \A line \in lines : line.text # Empty
    BY DEF ValidOutput, lines
  <1>3. {line.id : line \in lines} = {doc[i].id : i \in DOMAIN doc}
    BY DEF ValidOutput, ValidLines, lines
  <1> HIDE DEF doc
  <1>4. ASSUME NEW i \in DOMAIN doc
        PROVE  found[i].text = Text(version, doc[i].id)
    <2>1. doc[i].id \in {line.id : line \in lines}
      BY <1>3
    <2>2. \E line \in lines : line.id = doc[i].id
      BY <2>1
    <2>3. found[i] = CHOOSE line \in lines : line.id = doc[i].id
      BY DEF Finalized, doc
    <2>4. found[i] \in lines /\ found[i].id = doc[i].id
      BY <2>2, <2>3
    <2> QED BY <1>1, <1>2, <2>4
  <1>5. DOMAIN found = DOMAIN doc
    BY DEF Finalized, doc
  <1>6. Translated(version, lines) = [i \in DOMAIN found |-> found[i].text]
    BY DEF Translated
  <1> HIDE DEF found
  <1> QED BY <1>4, <1>5, <1>6 DEF lines, doc

\* Whatever is wrong with an output, its lines are those of the segments they
\* name, or empty.
LEMMA OutputsAreTrue ==
  ASSUME NEW job \in Job, Covers(job.requests, job.version), NEW out \in Outputs(job)
  PROVE  out \in Seq(AnswerOf) /\ TrueAnswers(job.version, out)
PROOF
  <1> DEFINE v == job.version
             True(answers) == answers \in Seq(AnswerOf) /\ TrueAnswers(v, answers)
  <1>1. ASSUME NEW right \in RightOutputs(job)
        PROVE  True(right) /\ right # <<>>
    <2>1. right \in Seq(AnswerOf) /\ Len(right) = Len(job.requests) /\ job.requests \in Seq(Request)
      BY <1>1, RightAnswers DEF Job
    <2>2. TrueAnswers(v, right)
      BY <1>1, RightAnswers, AnswerIsTrue DEF TrueAnswers
    <2>3. right # <<>>
      BY <2>1, EmptySeq DEF Covers
    <2> QED BY <2>1, <2>2, <2>3
  <1>2. ASSUME NEW right, True(right), right # <<>>, NEW bad \in Damaged(right)
        PROVE  True(bad)
    <2>1. /\ right \in Seq(AnswerOf) /\ right # <<>>
          /\ 1 \in DOMAIN right /\ Len(right) \in DOMAIN right
          /\ \A i \in DOMAIN right : right[i] \in AnswerOf /\ TrueAnswer(v, right[i])
      BY <1>2 DEF TrueAnswers
    <2>2. \A i \in DOMAIN right : /\ right[i].custom \in Nat \X Nat /\ right[i].ok \in BOOLEAN
                                  /\ right[i].lines \in SUBSET Line
                                  /\ \A line \in right[i].lines : TrueLine(v, line)
      BY <2>1 DEF AnswerOf, TrueAnswer
    <2>3. ASSUME NEW answer \in AnswerOf, TrueAnswer(v, answer), NEW i \in DOMAIN right
          PROVE  True([right EXCEPT ![i] = answer])
      <3>1. [right EXCEPT ![i] = answer] \in Seq(AnswerOf)
        BY <2>1, <2>3
      <3>2. TrueAnswers(v, [right EXCEPT ![i] = answer])
        BY <2>1, <2>3 DEF TrueAnswers
      <3> QED BY <3>1, <3>2
    <2>4. ASSUME NEW i \in DOMAIN right, NEW custom \in Nat \X Nat
          PROVE  True([right EXCEPT ![i].custom = custom])
      <3> DEFINE answer == [right[i] EXCEPT !.custom = custom]
      <3>1. answer \in AnswerOf /\ answer.lines = right[i].lines
        BY <2>1, <2>4 DEF AnswerOf
      <3>2. TrueAnswer(v, answer)
        BY <2>1, <2>4, <3>1 DEF TrueAnswer
      <3>3. [right EXCEPT ![i].custom = custom] = [right EXCEPT ![i] = answer]
        OBVIOUS
      <3> HIDE DEF answer
      <3> QED BY <2>3, <3>1, <3>2, <3>3
    <2>5. ASSUME NEW lines \in SUBSET Line, \A line \in lines : TrueLine(v, line)
          PROVE  True([right EXCEPT ![1].lines = lines])
      <3> DEFINE answer == [right[1] EXCEPT !.lines = lines]
      <3>1. answer \in AnswerOf /\ answer.lines = lines
        BY <2>1, <2>5 DEF AnswerOf
      <3>2. TrueAnswer(v, answer)
        BY <2>5, <3>1 DEF TrueAnswer
      <3>3. [right EXCEPT ![1].lines = lines] = [right EXCEPT ![1] = answer]
        OBVIOUS
      <3> HIDE DEF answer
      <3> QED BY <2>1, <2>3, <3>1, <3>2, <3>3
    <2>6. CASE bad = Tail(right)
      <3>1. bad \in Seq(AnswerOf) /\ Len(bad) = Len(right) - 1
        BY <2>1, <2>6
      <3>2. \A i \in DOMAIN bad : i + 1 \in DOMAIN right /\ bad[i] = right[i + 1]
        BY <2>1, <2>6, <3>1
      <3> QED BY <2>1, <3>1, <3>2 DEF TrueAnswers
    <2>7. CASE bad = Append(right, right[1])
      <3>1. /\ bad \in Seq(AnswerOf) /\ Len(bad) = Len(right) + 1
            /\ \A i \in 1..Len(right) : bad[i] = right[i]
            /\ bad[Len(right) + 1] = right[1]
        BY <2>1, <2>7, AppendProperties
      <3>2. \A i \in DOMAIN bad : i \in DOMAIN right \/ i = Len(right) + 1
        BY <2>1, <3>1
      <3>3. \A i \in DOMAIN bad : TrueAnswer(v, bad[i])
        BY <2>1, <3>1, <3>2
      <3> QED BY <3>1, <3>3 DEF TrueAnswers
    <2>8. CASE bad = [right EXCEPT ![1].custom = <<0, 1>>]
      BY <2>1, <2>4, <2>8
    <2>9. CASE bad = [right EXCEPT ![1].ok = FALSE]
      <3> DEFINE answer == [right[1] EXCEPT !.ok = FALSE]
      <3>1. answer \in AnswerOf /\ answer.lines = right[1].lines
        BY <2>1 DEF AnswerOf
      <3>2. TrueAnswer(v, answer)
        BY <2>1, <3>1 DEF TrueAnswer
      <3>3. bad = [right EXCEPT ![1] = answer]
        BY <2>9
      <3> HIDE DEF answer
      <3> QED BY <2>1, <2>3, <3>1, <3>2, <3>3
    <2>10. CASE bad = [right EXCEPT ![1].custom = right[Len(right)].custom,
                                    ![Len(right)].custom = right[1].custom]
      <3> DEFINE last == Len(right)
                 first == [right EXCEPT ![1].custom = right[last].custom]
      <3>1. right[last].custom \in Nat \X Nat /\ right[1].custom \in Nat \X Nat
        BY <2>1, <2>2
      <3>2. True(first)
        BY <2>1, <2>4, <3>1
      <3>3. DOMAIN first = DOMAIN right
        OBVIOUS
      <3>4. bad = [first EXCEPT ![last].custom = right[1].custom]
        BY <2>10
      <3> DEFINE answer == [first[last] EXCEPT !.custom = right[1].custom]
      <3>5. bad = [first EXCEPT ![last] = answer]
        BY <3>4
      <3> HIDE DEF first
      <3>6. first \in Seq(AnswerOf) /\ last \in DOMAIN first /\ TrueAnswers(v, first)
        BY <2>1, <3>2, <3>3
      <3>7. first[last] \in AnswerOf /\ TrueAnswer(v, first[last])
        BY <3>6 DEF TrueAnswers
      <3>8. answer \in AnswerOf /\ answer.lines = first[last].lines
        BY <3>1, <3>7 DEF AnswerOf
      <3>9. TrueAnswer(v, answer)
        BY <3>7, <3>8 DEF TrueAnswer
      <3> HIDE DEF answer
      <3>10. bad \in Seq(AnswerOf)
        BY <3>5, <3>6, <3>8
      <3>11. TrueAnswers(v, bad)
        BY <3>5, <3>6, <3>9 DEF TrueAnswers
      <3> QED BY <3>10, <3>11
    <2>11. ASSUME NEW line \in right[1].lines
           PROVE  /\ right[1].lines \ {line} \in SUBSET Line
                  /\ [line EXCEPT !.text = Empty] \in Line
                  /\ TrueLine(v, [line EXCEPT !.text = Empty])
      <3>1. line \in Line
        BY <2>1, <2>2, <2>11
      <3>2. Empty \in Texts
        BY DEF Empty, Texts
      <3> QED BY <2>1, <2>2, <3>1, <3>2 DEF Line, TrueLine
    <2>12. CASE \E line \in right[1].lines : bad = [right EXCEPT ![1].lines = @ \ {line}]
      <3>1. PICK line \in right[1].lines : bad = [right EXCEPT ![1].lines = right[1].lines \ {line}]
        BY <2>12
      <3>2. /\ right[1].lines \ {line} \in SUBSET Line
            /\ \A l \in right[1].lines \ {line} : TrueLine(v, l)
        BY <2>1, <2>2
      <3> QED BY <2>5, <3>1, <3>2
    <2>13. CASE \E line \in right[1].lines :
                  bad = [right EXCEPT ![1].lines = (@ \ {line}) \cup {[line EXCEPT !.text = Empty]}]
      <3>1. PICK line \in right[1].lines :
              bad = [right EXCEPT ![1].lines
                       = (right[1].lines \ {line}) \cup {[line EXCEPT !.text = Empty]}]
        BY <2>13
      <3> DEFINE lines == (right[1].lines \ {line}) \cup {[line EXCEPT !.text = Empty]}
      <3>2. lines \in SUBSET Line /\ \A l \in lines : TrueLine(v, l)
        BY <2>1, <2>2, <2>11
      <3>3. bad = [right EXCEPT ![1].lines = lines]
        BY <3>1
      <3> HIDE DEF lines
      <3> QED BY <2>5, <3>2, <3>3
    <2>14. CASE \E line \in right[1].lines :
                  bad = [right EXCEPT ![1].lines = @ \cup {[line EXCEPT !.text = Empty]}]
      <3>1. PICK line \in right[1].lines :
              bad = [right EXCEPT ![1].lines
                       = right[1].lines \cup {[line EXCEPT !.text = Empty]}]
        BY <2>14
      <3> DEFINE lines == right[1].lines \cup {[line EXCEPT !.text = Empty]}
      <3>2. lines \in SUBSET Line /\ \A l \in lines : TrueLine(v, l)
        BY <2>1, <2>2, <2>11
      <3>3. bad = [right EXCEPT ![1].lines = lines]
        BY <3>1
      <3> HIDE DEF lines
      <3> QED BY <2>5, <3>2, <3>3
    <2> HIDE DEF True
    <2>15. \/ bad = Tail(right) \/ bad = Append(right, right[1])
           \/ bad = [right EXCEPT ![1].custom = <<0, 1>>]
           \/ bad = [right EXCEPT ![1].ok = FALSE]
           \/ bad = [right EXCEPT ![1].custom = right[Len(right)].custom,
                                  ![Len(right)].custom = right[1].custom]
           \/ \E line \in right[1].lines :
                \/ bad = [right EXCEPT ![1].lines = @ \ {line}]
                \/ bad = [right EXCEPT ![1].lines = (@ \ {line}) \cup {[line EXCEPT !.text = Empty]}]
                \/ bad = [right EXCEPT ![1].lines = @ \cup {[line EXCEPT !.text = Empty]}]
      BY <1>2 DEF Damaged
    <2> QED BY <2>6, <2>7, <2>8, <2>9, <2>10, <2>12, <2>13, <2>14, <2>15
  <1>3. CASE out \in RightOutputs(job)
    BY <1>1, <1>3
  <1>4. CASE \E right \in RightOutputs(job) : out \in Damaged(right)
    BY <1>1, <1>2, <1>4
  <1> QED BY <1>3, <1>4 DEF Outputs

-----------------------------------------------------------------------------
(* The invariant of the results *)

Manifest   == [signature : Versions, requests : Seq(Request), status : Statuses]
Submission == [pc : {"idle", "signed", "read", "created"},
               signature : Versions \cup {None}, version : Versions \cup {None}]
Refusals   == {"failed", "told", "not completed", "requests failed", "no output",
               "input changed", "output exists", "crashed"}
Command    == [pc : {"status", "save", "check", "read", "apply", "writing", "ended"},
               job : Nat, manifest : Manifest,
               command : {"status", "collect", "collect --overwrite"},
               version : Versions \cup {None},
               answer : Refusals \cup {"invalid"} \cup Output!Ends \cup {None}]
Idle       == [pc |-> "idle"]

ResultsType ==
  /\ input \in Versions /\ late \in BOOLEAN
  /\ jobs \in Seq(Job) /\ Len(jobs) <= MaxJobs
  /\ manifests \in [1..MaxJobs -> Manifest \cup {None}]
  /\ submit \in Submission
  /\ reader \in [Readers -> Command \cup {Idle}]

JobsOK == \A j \in 1..Len(jobs) : JobOK(jobs[j]) /\ jobs[j].version <= input

\* The signature is not younger than the document it was sent with.
ManifestFits(manifest, job) ==
  /\ manifest.requests = job.requests /\ manifest.signature <= job.version
  /\ manifest.status # "in_progress" => job.status = manifest.status

ManifestsOK ==
  \A j \in 1..MaxJobs :
    manifests[j] # None => j \in 1..Len(jobs) /\ ManifestFits(manifests[j], jobs[j])

SubmitOK ==
  /\ submit.pc # "idle" => submit.signature \in Versions
  /\ submit.pc \in {"signed", "read"} => submit.signature <= input /\ Len(jobs) < MaxJobs
  /\ submit.pc = "read" => /\ submit.version \in Versions
                           /\ submit.signature <= submit.version /\ submit.version <= input
  /\ submit.pc = "created" => /\ Len(jobs) > 0
                              /\ submit.signature <= jobs[Len(jobs)].version

\* From the check of the input on a collect works for a job that is completed,
\* and unless an edit came between the check and the reading, on its document.
CommandFits(command, job) ==
  /\ ManifestFits(command.manifest, job)
  /\ command.pc \in {"check", "read", "apply"} => job.status = "completed" /\ job.out # None
  /\ command.pc = "read" => (~late => input = job.version)
  /\ command.pc = "apply" => /\ command.version \in Versions
                             /\ ~late => command.version = job.version
  /\ command.pc = "ended" /\ command.answer = "invalid"
       => /\ job.status = "completed"
          /\ ~late => job.out \notin RightOutputs(job)

ReaderOK(r) ==
  /\ reader[r].pc # "idle" => /\ reader[r].job \in 1..Len(jobs)
                              /\ CommandFits(reader[r], jobs[reader[r].job])
  /\ reader[r].pc # "writing" => writer[r].pc \in Output!Ends \cup {"idle"}

\* What is written, or being written, is right unless an edit came late.
RightContent(content, all, edited) ==
  /\ content.job \in 1..Len(all)
  /\ ~edited =>
       /\ content.version = all[content.job].version
       /\ content.text = [i \in DOMAIN Docs[content.version] |->
                            Text(content.version, Docs[content.version][i].id)]

Writing == {"locking", "stale"} \cup Output!Critical

ContentsOK ==
  /\ target # None => RightContent(target, jobs, late)
  /\ \A r \in Readers :
       writer[r].pc \in Writing => RightContent(writer[r].content, jobs, late)

ResultsInv ==
  /\ ResultsType /\ JobsOK /\ ManifestsOK /\ SubmitOK
  /\ \A r \in Readers : ReaderOK(r)
  /\ ContentsOK

\* The jobs a step adds or changes: one that has ended stays.
Grows ==
  /\ late => late'
  /\ input <= input'
  /\ Len(jobs) <= Len(jobs')
  /\ \A j \in 1..Len(jobs) :
       /\ jobs'[j].version = jobs[j].version /\ jobs'[j].requests = jobs[j].requests
       /\ jobs[j].status # "in_progress" => jobs'[j] = jobs[j]

LEMMA ContentGrows ==
  ASSUME NEW content, NEW all, NEW more, NEW edited, NEW then,
         RightContent(content, all, edited), edited => then,
         Len(all) \in Nat, Len(more) \in Nat, Len(all) <= Len(more),
         \A j \in 1..Len(all) : more[j].version = all[j].version
  PROVE  RightContent(content, more, then)
BY DEF RightContent

\* A step of others leaves a command as good as it was.
LEMMA ReaderFrame ==
  ASSUME ResultsType, ResultsType', Grows, NEW r \in Readers, ReaderOK(r),
         reader'[r] = reader[r], writer'[r] = writer[r] \/ reader[r].pc = "writing",
         reader[r].pc = "read" /\ ~late' => input' = input
  PROVE  ReaderOK(r)'
PROOF
  <1>1. reader[r].pc # "writing" => writer'[r].pc \in Output!Ends \cup {"idle"}
    BY DEF ReaderOK
  <1>2. ASSUME reader[r].pc # "idle"
        PROVE  reader[r].job \in 1..Len(jobs') /\ CommandFits(reader[r], jobs[reader[r].job])'
    <2> DEFINE j == reader[r].job
    <2>1. j \in 1..Len(jobs) /\ CommandFits(reader[r], jobs[j])
      BY <1>2 DEF ReaderOK
    <2>2. /\ Len(jobs) \in Nat /\ Len(jobs') \in Nat /\ Len(jobs) <= Len(jobs')
      BY DEF ResultsType, Grows
    <2>3. j \in 1..Len(jobs')
      BY <2>1, <2>2
    <2>4. /\ jobs'[j].version = jobs[j].version /\ jobs'[j].requests = jobs[j].requests
          /\ jobs[j].status # "in_progress" => jobs'[j] = jobs[j]
          /\ late => late'
      BY <2>1 DEF Grows
    <2>5. ManifestFits(reader[r].manifest, jobs[j])'
      BY <2>1, <2>4 DEF CommandFits, ManifestFits
    <2>6. CommandFits(reader[r], jobs[j])'
      BY <2>1, <2>4, <2>5 DEF CommandFits
    <2> QED BY <2>3, <2>6
  <1> QED BY <1>1, <1>2 DEF ReaderOK

\* The whole invariant under a step of the submission, the provider, the user
\* or the time.
LEMMA OthersFrame ==
  ASSUME ResultsInv, ResultsType', Grows,
         UNCHANGED <<reader, target, writer>>,
         \A r \in Readers : reader[r].pc = "read" /\ ~late' => input' = input
  PROVE  (\A r \in Readers : ReaderOK(r)') /\ ContentsOK'
PROOF
  <1>1. \A r \in Readers : ReaderOK(r)'
    BY ReaderFrame DEF ResultsInv
  <1>2. /\ Len(jobs) \in Nat /\ Len(jobs') \in Nat /\ Len(jobs) <= Len(jobs')
        /\ \A j \in 1..Len(jobs) : jobs'[j].version = jobs[j].version
        /\ late => late'
    BY DEF ResultsInv, ResultsType, Grows
  <1>3. ContentsOK'
    BY <1>2, ContentGrows DEF ResultsInv, ContentsOK
  <1> QED BY <1>1, <1>3

LEMMA ResultsStart == Init => ResultsInv
PROOF
  <1> SUFFICES ASSUME Init PROVE ResultsInv
    OBVIOUS
  <1>1. /\ 1 \in Versions /\ MaxJobs \in Nat
        /\ jobs = <<>> /\ <<>> \in Seq(Job) /\ Len(jobs) = 0
    BY OvernightAssumption DEF Init, Versions
  <1>2. ResultsType
    <2>1. NoSubmit \in Submission
      BY DEF NoSubmit, Submission
    <2>2. manifests \in [1..MaxJobs -> Manifest \cup {None}]
      BY DEF Init
    <2>3. reader \in [Readers -> Command \cup {Idle}]
      BY DEF Init, Idle
    <2>4. /\ input = 1 /\ late = FALSE /\ submit = NoSubmit
      BY DEF Init
    <2>5. jobs \in Seq(Job) /\ Len(jobs) <= MaxJobs
      BY <1>1
    <2> QED BY <1>1, <2>1, <2>2, <2>3, <2>4, <2>5 DEF ResultsType
  <1>3. \A r \in Readers : reader[r].pc = "idle" /\ writer[r].pc = "idle"
    BY DEF Init, Output!NotCalled
  <1>4. JobsOK /\ ManifestsOK /\ SubmitOK
    BY <1>1 DEF Init, JobsOK, ManifestsOK, SubmitOK, NoSubmit
  <1>5. (\A r \in Readers : ReaderOK(r)) /\ ContentsOK
    BY <1>3 DEF Init, ReaderOK, ContentsOK, Writing, Output!Critical, Output!Staging
  <1> QED BY <1>2, <1>4, <1>5 DEF ResultsInv

-----------------------------------------------------------------------------
(* The steps of the submission, the provider and the user *)

LEMMA InputNumbers ==
  ASSUME ResultsType PROVE input \in Nat /\ Len(jobs) \in Nat /\ MaxJobs \in Nat
BY OvernightAssumption DEF ResultsType, Versions

LEMMA SignStep == ASSUME ResultsInv, SignInput PROVE ResultsInv'
PROOF
  <1> USE DEF ResultsInv
  <1>1. /\ UNCHANGED <<input, late, jobs, manifests, reader, target, writer>>
        /\ submit' = [pc |-> "signed", signature |-> input, version |-> None]
        /\ Len(jobs) < MaxJobs
    BY DEF SignInput, SubmitOnly, provider, output, NoSubmit
  <1>2. ResultsType'
    BY <1>1 DEF ResultsType, Submission
  <1>3. Grows
    BY <1>1, InputNumbers DEF Grows
  <1>4. JobsOK' /\ ManifestsOK'
    BY <1>1 DEF JobsOK, ManifestsOK
  <1>5. SubmitOK'
    BY <1>1, InputNumbers DEF SubmitOK, ResultsType
  <1> QED BY <1>1, <1>2, <1>3, <1>4, <1>5, OthersFrame

LEMMA ReadStep == ASSUME ResultsInv, ReadInput PROVE ResultsInv'
PROOF
  <1> USE DEF ResultsInv
  <1>1. /\ UNCHANGED <<input, late, jobs, manifests, reader, target, writer>>
        /\ submit' = [submit EXCEPT !.pc = "read", !.version = input]
        /\ submit.pc = "signed"
    BY DEF ReadInput, SubmitOnly, provider, output
  <1>2. /\ submit' \in Submission /\ submit'.pc = "read"
        /\ submit'.signature = submit.signature /\ submit'.version = input
    BY <1>1 DEF ResultsType, Submission
  <1>3. ResultsType'
    BY <1>1, <1>2 DEF ResultsType
  <1>4. Grows
    BY <1>1, InputNumbers DEF Grows
  <1>5. JobsOK' /\ ManifestsOK'
    BY <1>1 DEF JobsOK, ManifestsOK
  <1>6. SubmitOK'
    BY <1>1, <1>2, InputNumbers DEF SubmitOK, ResultsType
  <1> QED BY <1>1, <1>3, <1>4, <1>5, <1>6, OthersFrame

LEMMA CreateStep == ASSUME ResultsInv, CreateJob PROVE ResultsInv'
PROOF
  <1> USE DEF ResultsInv
  <1> DEFINE job == [requests |-> Requests(submit.signature, submit.version),
                     version |-> submit.version, status |-> "in_progress",
                     failed |-> 0, out |-> None]
             n == Len(jobs)
  <1>1. /\ UNCHANGED <<input, late, manifests, reader, target, writer>>
        /\ submit' = [submit EXCEPT !.pc = "created"] /\ submit.pc = "read"
        /\ jobs' = Append(jobs, job)
    BY DEF CreateJob, SubmitOnly, output
  <1>2. /\ submit.signature \in Versions /\ submit.version \in Versions /\ n < MaxJobs
        /\ submit.signature <= submit.version /\ submit.version <= input
    BY <1>1 DEF SubmitOK
  <1>3. /\ Requests(submit.signature, submit.version) \in Seq(Request)
        /\ Covers(Requests(submit.signature, submit.version), submit.version)
    BY <1>2, RequestsCover
  <1>4. job \in Job /\ JobOK(job) /\ job.version = submit.version
    BY <1>2, <1>3 DEF Job, JobOK, Statuses
  <1> HIDE DEF job
  <1>5. jobs \in Seq(Job) /\ n \in Nat
    BY DEF ResultsType
  <1>6. /\ jobs' \in Seq(Job) /\ Len(jobs') = n + 1
        /\ \A j \in 1..n : jobs'[j] = jobs[j]
        /\ jobs'[n + 1] = job
    BY <1>1, <1>4, <1>5, AppendProperties
  <1>7. \A j \in 1..(n + 1) : j \in 1..n \/ j = n + 1
    BY <1>5
  <1>8. /\ submit' \in Submission /\ submit'.pc = "created"
        /\ submit'.signature = submit.signature
    BY <1>1 DEF ResultsType, Submission
  <1>9. ResultsType'
    BY <1>1, <1>2, <1>6, <1>8, InputNumbers DEF ResultsType
  <1>10. Grows
    BY <1>1, <1>5, <1>6, InputNumbers DEF Grows
  <1>11. JobsOK'
    <2> SUFFICES ASSUME NEW j \in 1..(n + 1)
                 PROVE  JobOK(jobs'[j]) /\ jobs'[j].version <= input
      BY <1>1, <1>6 DEF JobsOK, JobOK
    <2>1. CASE j \in 1..n
      BY <1>6, <2>1 DEF JobsOK
    <2>2. CASE j = n + 1
      BY <1>2, <1>4, <1>6, <2>2
    <2> QED BY <1>7, <2>1, <2>2
  <1>12. ManifestsOK'
    <2>1. ASSUME NEW j \in 1..MaxJobs, manifests[j] # None
          PROVE  j \in 1..Len(jobs') /\ ManifestFits(manifests[j], jobs'[j])
      BY <1>5, <1>6, <2>1 DEF ManifestsOK
    <2> QED BY <1>1, <2>1 DEF ManifestsOK, ManifestFits
  <1>13. SubmitOK'
    BY <1>2, <1>4, <1>5, <1>6, <1>8 DEF SubmitOK
  <1> QED BY <1>1, <1>9, <1>10, <1>11, <1>12, <1>13, OthersFrame

LEMMA ManifestStep == ASSUME ResultsInv, WriteManifest PROVE ResultsInv'
PROOF
  <1> USE DEF ResultsInv
  <1> DEFINE n == Len(jobs)
             manifest == [signature |-> submit.signature, requests |-> jobs[n].requests,
                          status |-> "in_progress"]
  <1>1. /\ UNCHANGED <<input, late, jobs, reader, target, writer>>
        /\ manifests' = [manifests EXCEPT ![n] = manifest]
        /\ submit' = NoSubmit /\ submit.pc = "created"
    BY DEF WriteManifest, SubmitOnly, output
  <1>2. submit.signature \in Versions /\ n \in 1..n /\ submit.signature <= jobs[n].version
    BY <1>1, InputNumbers DEF SubmitOK
  <1>3. jobs[n] \in Job /\ n \in 1..MaxJobs
    BY <1>2, InputNumbers DEF ResultsType
  <1>4. manifest \in Manifest
    BY <1>2, <1>3 DEF Manifest, Job, Statuses
  <1>5. ManifestFits(manifest, jobs[n])
    BY <1>2 DEF ManifestFits
  <1> HIDE DEF manifest
  <1>6. ResultsType'
    BY <1>1, <1>4 DEF ResultsType, Submission, NoSubmit
  <1>7. Grows
    BY <1>1, InputNumbers DEF Grows
  <1>8. JobsOK' /\ SubmitOK'
    BY <1>1 DEF JobsOK, SubmitOK, NoSubmit
  <1>9. ManifestsOK'
    <2> SUFFICES ASSUME NEW j \in 1..MaxJobs, manifests'[j] # None
                 PROVE  j \in 1..n /\ ManifestFits(manifests'[j], jobs[j])
      BY <1>1 DEF ManifestsOK, ManifestFits
    <2>1. CASE j = n
      BY <1>1, <1>2, <1>5, <2>1 DEF ResultsType
    <2>2. CASE j # n
      BY <1>1, <2>2 DEF ResultsType, ManifestsOK
    <2> QED BY <2>1, <2>2
  <1> QED BY <1>1, <1>6, <1>7, <1>8, <1>9, OthersFrame

LEMMA SubmitEndStep == ASSUME ResultsInv, SubmitEnds PROVE ResultsInv'
PROOF
  <1> USE DEF ResultsInv
  <1>1. /\ UNCHANGED <<input, late, jobs, manifests, reader, target, writer>>
        /\ submit' = NoSubmit
    BY DEF SubmitEnds, SubmitOnly, provider, output
  <1>2. ResultsType'
    BY <1>1 DEF ResultsType, Submission, NoSubmit
  <1>3. Grows
    BY <1>1, InputNumbers DEF Grows
  <1>4. JobsOK' /\ ManifestsOK' /\ SubmitOK'
    BY <1>1 DEF JobsOK, ManifestsOK, SubmitOK, NoSubmit
  <1> QED BY <1>1, <1>2, <1>3, <1>4, OthersFrame

LEMMA EditStep == ASSUME ResultsInv, EditInput PROVE ResultsInv'
PROOF
  <1> USE DEF ResultsInv
  <1>1. /\ UNCHANGED <<jobs, manifests, submit, reader, target, writer>>
        /\ input' = input + 1 /\ input' \in Versions
        /\ late' = (late \/ \E r \in Readers : reader[r].pc = "read")
    BY DEF EditInput, provider, output
  <1>2. /\ input \in Nat /\ Versions \in SUBSET Nat
    BY OvernightAssumption DEF ResultsType, Versions
  <1>3. ResultsType'
    BY <1>1 DEF ResultsType
  <1>4. Grows
    <2>1. late => late'
      BY <1>1
    <2>2. input <= input' /\ Len(jobs) <= Len(jobs')
      BY <1>1, <1>2, InputNumbers
    <2> QED BY <1>1, <2>1, <2>2 DEF Grows
  <1>5. JobsOK'
    <2>1. ASSUME NEW j \in 1..Len(jobs) PROVE jobs[j].version <= input'
      <3>0. jobs[j] \in Job
        BY DEF ResultsType
      <3>1. jobs[j].version <= input /\ jobs[j].version \in Nat
        BY <1>2, <3>0 DEF JobsOK, Job
      <3> QED BY <1>1, <1>2, <3>1
    <2> QED BY <1>1, <2>1 DEF JobsOK, JobOK
  <1>6. ManifestsOK'
    BY <1>1 DEF ManifestsOK, ManifestFits
  <1>7. SubmitOK'
    <2>1. \A n \in Nat : n <= input => n <= input'
      BY <1>1, <1>2
    <2> QED BY <1>1, <1>2, <2>1 DEF SubmitOK
  <1> QED BY <1>1, <1>3, <1>4, <1>5, <1>6, <1>7, OthersFrame

\* A job ends once, with an output that is true of its document.
LEMMA JobStep == ASSUME ResultsInv, NEW j \in 1..Len(jobs), JobEnds(j) PROVE ResultsInv'
PROOF
  <1> USE DEF ResultsInv
  <1>1. /\ UNCHANGED <<input, late, manifests, submit, reader, target, writer>>
        /\ jobs[j].status = "in_progress"
    BY DEF JobEnds, output
  <1>2. jobs \in Seq(Job) /\ jobs[j] \in Job /\ JobOK(jobs[j]) /\ Len(jobs) \in Nat
    BY DEF ResultsType, JobsOK
  <1>3. PICK job \in Job :
          /\ jobs' = [jobs EXCEPT ![j] = job] /\ JobOK(job)
          /\ job.version = jobs[j].version /\ job.requests = jobs[j].requests
    <2>1. ASSUME NEW out \in Outputs(jobs[j]),
                 jobs' = [jobs EXCEPT ![j].status = "completed", ![j].out = out]
          PROVE  \E job \in Job :
                   /\ jobs' = [jobs EXCEPT ![j] = job] /\ JobOK(job)
                   /\ job.version = jobs[j].version /\ job.requests = jobs[j].requests
      <3> DEFINE job == [jobs[j] EXCEPT !.status = "completed", !.out = out]
      <3>1. out \in Seq(AnswerOf) /\ TrueAnswers(jobs[j].version, out)
        BY <1>2, OutputsAreTrue DEF JobOK
      <3>2. /\ job \in Job /\ job.version = jobs[j].version /\ job.requests = jobs[j].requests
            /\ job.out = out
        BY <1>2, <3>1 DEF Job, Statuses
      <3>3. JobOK(job)
        BY <1>2, <3>1, <3>2 DEF JobOK
      <3>4. jobs' = [jobs EXCEPT ![j] = job]
        BY <2>1
      <3> HIDE DEF job
      <3> QED BY <3>2, <3>3, <3>4
    <2>2. ASSUME NEW failed \in {0, 1},
                 jobs' = [jobs EXCEPT ![j].status = "completed", ![j].failed = failed]
          PROVE  \E job \in Job :
                   /\ jobs' = [jobs EXCEPT ![j] = job] /\ JobOK(job)
                   /\ job.version = jobs[j].version /\ job.requests = jobs[j].requests
      <3> DEFINE job == [jobs[j] EXCEPT !.status = "completed", !.failed = failed]
      <3>1. /\ job \in Job /\ job.version = jobs[j].version /\ job.requests = jobs[j].requests
            /\ job.out = jobs[j].out
        BY <1>2 DEF Job, Statuses
      <3>2. JobOK(job)
        BY <1>2, <3>1 DEF JobOK
      <3>3. jobs' = [jobs EXCEPT ![j] = job]
        BY <2>2
      <3> HIDE DEF job
      <3> QED BY <3>1, <3>2, <3>3
    <2>3. ASSUME jobs' = [jobs EXCEPT ![j].status = "expired"]
          PROVE  \E job \in Job :
                   /\ jobs' = [jobs EXCEPT ![j] = job] /\ JobOK(job)
                   /\ job.version = jobs[j].version /\ job.requests = jobs[j].requests
      <3> DEFINE job == [jobs[j] EXCEPT !.status = "expired"]
      <3>1. /\ job \in Job /\ job.version = jobs[j].version /\ job.requests = jobs[j].requests
            /\ job.out = jobs[j].out
        BY <1>2 DEF Job, Statuses
      <3>2. JobOK(job)
        BY <1>2, <3>1 DEF JobOK
      <3>3. jobs' = [jobs EXCEPT ![j] = job]
        BY <2>3
      <3> HIDE DEF job
      <3> QED BY <3>1, <3>2, <3>3
    <2> QED BY <2>1, <2>2, <2>3 DEF JobEnds
  <1>4. /\ jobs' \in Seq(Job) /\ Len(jobs') = Len(jobs) /\ jobs'[j] = job
        /\ \A k \in 1..Len(jobs) : k # j => jobs'[k] = jobs[k]
    BY <1>2, <1>3
  <1>5. ResultsType'
    BY <1>1, <1>4 DEF ResultsType
  <1>6. Grows
    BY <1>1, <1>2, <1>3, <1>4, InputNumbers DEF Grows
  <1>7. JobsOK'
    <2> SUFFICES ASSUME NEW k \in 1..Len(jobs)
                 PROVE  JobOK(jobs'[k]) /\ jobs'[k].version <= input
      BY <1>1, <1>4 DEF JobsOK, JobOK
    <2>1. JobOK(jobs[k]) /\ jobs[k].version <= input
      BY DEF JobsOK
    <2> QED BY <1>3, <1>4, <2>1
  <1>8. ManifestsOK'
    <2> SUFFICES ASSUME NEW k \in 1..MaxJobs, manifests[k] # None
                 PROVE  k \in 1..Len(jobs) /\ ManifestFits(manifests[k], jobs'[k])
      BY <1>1, <1>4 DEF ManifestsOK, ManifestFits
    <2>1. k \in 1..Len(jobs) /\ ManifestFits(manifests[k], jobs[k])
      BY DEF ManifestsOK
    <2> QED BY <1>1, <1>3, <1>4, <2>1 DEF ManifestFits
  <1>9. SubmitOK'
    <2>1. submit.pc = "created" => jobs'[Len(jobs)].version = jobs[Len(jobs)].version
      <3>1. submit.pc = "created" => Len(jobs) \in 1..Len(jobs)
        BY <1>2 DEF SubmitOK
      <3> QED BY <1>3, <1>4, <3>1
    <2> QED BY <1>1, <1>4, <2>1 DEF SubmitOK
  <1> QED BY <1>1, <1>5, <1>6, <1>7, <1>8, <1>9, OthersFrame

\* A lock grows old: nothing of the results changes.
LEMMA TickStep == ASSUME ResultsInv, Tick PROVE ResultsInv'
PROOF
  <1> USE DEF ResultsInv
  <1>1. UNCHANGED <<input, late, jobs, manifests, submit, reader, target, writer>>
    BY DEF Tick, Output!Age, provider
  <1>2. ResultsType'
    BY <1>1 DEF ResultsType
  <1>3. Grows
    BY <1>1, InputNumbers DEF Grows
  <1>4. JobsOK' /\ ManifestsOK' /\ SubmitOK'
    BY <1>1 DEF JobsOK, ManifestsOK, SubmitOK
  <1> QED BY <1>1, <1>2, <1>3, <1>4, OthersFrame

-----------------------------------------------------------------------------
(* The steps of a command *)

LEMMA CommandStep ==
  ASSUME ResultsInv, NEW r \in Readers, NEW command \in Command,
         UNCHANGED <<input, late, jobs, submit>>,
         reader' = [reader EXCEPT ![r] = command],
         manifests' \in [1..MaxJobs -> Manifest \cup {None}], ManifestsOK', ContentsOK',
         command.job \in 1..Len(jobs), CommandFits(command, jobs[command.job]),
         command.pc # "writing" => writer'[r].pc \in Output!Ends \cup {"idle"},
         \A q \in Readers \ {r} : writer'[q] = writer[q]
  PROVE  ResultsInv'
PROOF
  <1> USE DEF ResultsInv
  <1>1. /\ reader' \in [Readers -> Command \cup {Idle}] /\ reader'[r] = command
        /\ \A q \in Readers \ {r} : reader'[q] = reader[q]
    BY DEF ResultsType
  <1>2. ResultsType'
    BY <1>1 DEF ResultsType
  <1>3. Grows
    BY InputNumbers DEF Grows
  <1>4. JobsOK' /\ SubmitOK'
    BY DEF JobsOK, SubmitOK
  <1>5. ASSUME NEW q \in Readers PROVE ReaderOK(q)'
    <2>1. CASE q = r
      <3>1. CommandFits(command, jobs[command.job])'
        BY DEF CommandFits, ManifestFits
      <3> QED BY <1>1, <2>1, <3>1 DEF ReaderOK
    <2>2. CASE q # r
      BY <1>1, <1>2, <1>3, <2>2, ReaderFrame
    <2> QED BY <2>1, <2>2
  <1> QED BY <1>2, <1>4, <1>5

\* A command that has begun.
LEMMA Begun ==
  ASSUME ResultsInv, NEW r \in Readers, reader[r].pc # "idle"
  PROVE  /\ reader[r] \in Command /\ reader[r].job \in 1..Len(jobs)
         /\ CommandFits(reader[r], jobs[reader[r].job])
         /\ reader[r].pc # "writing" => writer[r].pc \in Output!Ends \cup {"idle"}
         /\ jobs[reader[r].job] \in Job /\ JobOK(jobs[reader[r].job])
         /\ jobs[reader[r].job].version <= input
BY DEF ResultsInv, ResultsType, ReaderOK, Idle, JobsOK

\* A command ends: only the refusal of an output says something.
LEMMA EndStep ==
  ASSUME ResultsInv, NEW r \in Readers, reader[r].pc # "idle",
         UNCHANGED <<input, late, jobs, submit>>,
         NEW answer \in Refusals \cup {"invalid"} \cup Output!Ends, ReaderEnds(r, answer),
         manifests' \in [1..MaxJobs -> Manifest \cup {None}], ManifestsOK', ContentsOK',
         answer = "invalid" =>
           LET job == jobs[reader[r].job] IN
           /\ job.status = "completed"
           /\ ~late => job.out \notin RightOutputs(job),
         writer'[r].pc \in Output!Ends \cup {"idle"},
         \A q \in Readers \ {r} : writer'[q] = writer[q]
  PROVE  ResultsInv'
PROOF
  <1> DEFINE command == [reader[r] EXCEPT !.pc = "ended", !.answer = answer]
  <1>0. /\ reader[r] \in Command /\ reader[r].job \in 1..Len(jobs)
        /\ CommandFits(reader[r], jobs[reader[r].job])
    BY Begun
  <1>1. command \in Command /\ command.pc = "ended" /\ command.answer = answer
        /\ command.job = reader[r].job /\ command.manifest = reader[r].manifest
    BY <1>0 DEF Command
  <1>2. reader' = [reader EXCEPT ![r] = command]
    BY DEF ReaderEnds
  <1> HIDE DEF command
  <1>3. CommandFits(command, jobs[command.job])
    BY <1>0, <1>1 DEF CommandFits
  <1> QED BY <1>0, <1>1, <1>2, <1>3, CommandStep

\* A command ends without a word on the output.
LEMMA RefusalStep ==
  ASSUME ResultsInv, NEW r \in Readers, reader[r].pc # "idle",
         UNCHANGED <<input, late, jobs, submit>>,
         NEW answer \in Refusals \cup Output!Ends, ReaderEnds(r, answer),
         manifests' \in [1..MaxJobs -> Manifest \cup {None}], ManifestsOK', ContentsOK',
         writer'[r].pc \in Output!Ends \cup {"idle"},
         \A q \in Readers \ {r} : writer'[q] = writer[q]
  PROVE  ResultsInv'
PROOF
  <1>1. answer # "invalid"
    BY DEF Refusals, Output!Ends
  <1> QED BY <1>1, EndStep

\* What a step that touches only the commands and the manifests leaves alone.
LEMMA SameContents ==
  ASSUME ResultsInv, UNCHANGED <<late, jobs, target, writer>>
  PROVE  ContentsOK'
BY DEF ResultsInv, ContentsOK

LEMMA SameManifests ==
  ASSUME ResultsInv, UNCHANGED <<jobs, manifests>>
  PROVE  manifests' \in [1..MaxJobs -> Manifest \cup {None}] /\ ManifestsOK'
BY DEF ResultsInv, ResultsType, ManifestsOK, ManifestFits

LEMMA RunStep == ASSUME ResultsInv, NEW r \in Readers, Run(r) PROVE ResultsInv'
PROOF
  <1>0. \A n, m \in Nat : n <= m => \A i \in 1..n : i \in 1..m /\ i \in Nat
    OBVIOUS
  <1>1. PICK j \in 1..Len(jobs), name \in {"status", "collect", "collect --overwrite"} :
          /\ manifests[j] # None
          /\ reader' = [reader EXCEPT ![r] =
                          [pc |-> "status", job |-> j, manifest |-> manifests[j],
                           command |-> name, version |-> None, answer |-> None]]
    BY DEF Run
  <1> DEFINE command == [pc |-> "status", job |-> j, manifest |-> manifests[j],
                         command |-> name, version |-> None, answer |-> None]
  <1>2. UNCHANGED <<input, late, jobs, submit, manifests, target, writer>>
    BY DEF Run, ReaderOnly, output
  <1>3. j \in 1..MaxJobs /\ j \in Nat
    <2>1. ResultsType /\ Len(jobs) <= MaxJobs
      BY DEF ResultsInv, ResultsType
    <2>2. Len(jobs) \in Nat /\ MaxJobs \in Nat
      BY <2>1, InputNumbers
    <2> QED BY <1>0, <2>1, <2>2
  <1>4. manifests[j] \in Manifest /\ ManifestFits(manifests[j], jobs[j])
    BY <1>1, <1>3 DEF ResultsInv, ResultsType, ManifestsOK
  <1>5. command \in Command
    BY <1>3, <1>4 DEF Command
  <1>6. CommandFits(command, jobs[command.job])
    BY <1>4 DEF CommandFits
  <1>7. reader[r].pc = "idle" /\ writer[r].pc \in Output!Ends \cup {"idle"}
    BY DEF Run, ResultsInv, ReaderOK
  <1>8. reader' = [reader EXCEPT ![r] = command] /\ command.job \in 1..Len(jobs)
    BY <1>1
  <1> HIDE DEF command
  <1> QED BY <1>2, <1>5, <1>6, <1>7, <1>8, CommandStep, SameContents, SameManifests

LEMMA AskStep == ASSUME ResultsInv, NEW r \in Readers, AskStatus(r) PROVE ResultsInv'
PROOF
  <1> DEFINE job == jobs[reader[r].job]
  <1>1. /\ UNCHANGED <<input, late, jobs, submit, manifests, target, writer>>
        /\ reader[r].pc = "status"
    BY DEF AskStatus, ReaderOnly, output
  <1>2. CASE ReaderEnds(r, "failed")
    <2>1. "failed" \in Refusals /\ writer[r].pc \in Output!Ends \cup {"idle"}
      BY <1>1, Begun DEF Refusals
    <2> QED BY <1>1, <1>2, <2>1, RefusalStep, SameContents, SameManifests
  <1>3. CASE reader' = [reader EXCEPT ![r].pc = "save", ![r].manifest.status = job.status]
    <2> DEFINE manifest == [reader[r].manifest EXCEPT !.status = job.status]
               command == [reader[r] EXCEPT !.pc = "save", !.manifest = manifest]
    <2>1. reader[r] \in Command /\ job \in Job
      BY <1>1, Begun
    <2>2. /\ manifest \in Manifest /\ manifest.status = job.status
          /\ manifest.requests = reader[r].manifest.requests
          /\ manifest.signature = reader[r].manifest.signature
      BY <2>1 DEF Command, Manifest, Job
    <2>3. reader' = [reader EXCEPT ![r] = command]
      BY <1>3
    <2> HIDE DEF manifest
    <2>4. /\ command \in Command /\ command.pc = "save" /\ command.manifest = manifest
          /\ command.job = reader[r].job
      BY <2>1, <2>2 DEF Command
    <2> HIDE DEF command
    <2>5. CommandFits(command, jobs[command.job])
      BY <1>1, <2>2, <2>4, Begun DEF CommandFits, ManifestFits
    <2> QED BY <1>1, <2>3, <2>4, <2>5, Begun, CommandStep, SameContents, SameManifests
  <1> QED BY <1>2, <1>3 DEF AskStatus

\* The manifest that is saved fits the job; the collect goes on with a job that
\* is completed and has an output.
LEMMA SaveStep == ASSUME ResultsInv, NEW r \in Readers, SaveStatus(r) PROVE ResultsInv'
PROOF
  <1> DEFINE j == reader[r].job
  <1>1. /\ UNCHANGED <<input, late, jobs, submit, target, writer>>
        /\ reader[r].pc = "save"
        /\ manifests' = [manifests EXCEPT ![j] = reader[r].manifest]
    BY DEF SaveStatus, ReaderOnly, output
  <1>2. /\ reader[r] \in Command /\ j \in 1..Len(jobs) /\ CommandFits(reader[r], jobs[j])
        /\ writer[r].pc \in Output!Ends \cup {"idle"}
    BY <1>1, Begun
  <1>3. reader[r].manifest \in Manifest /\ ManifestFits(reader[r].manifest, jobs[j])
    BY <1>2 DEF Command, CommandFits
  <1>4. manifests' \in [1..MaxJobs -> Manifest \cup {None}]
    BY <1>1, <1>3 DEF ResultsInv, ResultsType
  <1>5. ManifestsOK'
    <2> SUFFICES ASSUME NEW k \in 1..MaxJobs, manifests'[k] # None
                 PROVE  k \in 1..Len(jobs) /\ ManifestFits(manifests'[k], jobs[k])
      BY <1>1 DEF ManifestsOK, ManifestFits
    <2> HIDE DEF j
    <2>1. CASE k = j
      BY <1>1, <1>2, <1>3, <2>1 DEF ResultsInv, ResultsType
    <2>2. CASE k # j
      BY <1>1, <2>2 DEF ResultsInv, ResultsType, ManifestsOK
    <2> QED BY <2>1, <2>2
  <1>6. ContentsOK'
    BY <1>1, SameContents
  <1>7. ASSUME NEW answer \in {"told", "not completed", "requests failed", "no output"},
               ReaderEnds(r, answer)
        PROVE  ResultsInv'
    <2>1. answer \in Refusals
      BY <1>7 DEF Refusals
    <2> QED BY <1>1, <1>2, <1>4, <1>5, <1>6, <1>7, <2>1, RefusalStep
  <1>8. CASE /\ reader' = [reader EXCEPT ![r].pc = "check"]
             /\ reader[r].manifest.status = "completed" /\ jobs[j].out # None
    <2> DEFINE command == [reader[r] EXCEPT !.pc = "check"]
    <2>1. /\ command \in Command /\ command.pc = "check"
          /\ command.manifest = reader[r].manifest /\ command.job = j
      BY <1>2 DEF Command
    <2>2. reader' = [reader EXCEPT ![r] = command]
      BY <1>8
    <2> HIDE DEF command
    <2>3. CommandFits(command, jobs[command.job])
      BY <1>3, <1>8, <2>1 DEF CommandFits, ManifestFits
    <2> QED BY <1>1, <1>2, <1>4, <1>5, <1>6, <2>1, <2>2, <2>3, CommandStep
  <1> QED BY <1>7, <1>8 DEF SaveStatus

\* The input has the signature of the job, and was not younger when the job was
\* made: it is the document of the job.
LEMMA CheckStep == ASSUME ResultsInv, NEW r \in Readers, CheckInput(r) PROVE ResultsInv'
PROOF
  <1> DEFINE job == jobs[reader[r].job]
  <1>1. /\ UNCHANGED <<input, late, jobs, submit, manifests, target, writer>>
        /\ reader[r].pc = "check"
    BY DEF CheckInput, ReaderOnly, output
  <1>2. /\ reader[r] \in Command /\ reader[r].job \in 1..Len(jobs)
        /\ CommandFits(reader[r], job) /\ job \in Job /\ job.version <= input
        /\ writer[r].pc \in Output!Ends \cup {"idle"}
    BY <1>1, Begun
  <1>3. ASSUME NEW answer \in {"input changed", "output exists"}, ReaderEnds(r, answer)
        PROVE  ResultsInv'
    <2>1. answer \in Refusals
      BY <1>3 DEF Refusals
    <2> QED BY <1>1, <1>2, <1>3, <2>1, RefusalStep, SameContents, SameManifests
  <1>4. CASE Unchanged(r) /\ reader' = [reader EXCEPT ![r].pc = "read"]
    <2> DEFINE command == [reader[r] EXCEPT !.pc = "read"]
    <2>1. /\ command \in Command /\ command.pc = "read"
          /\ command.manifest = reader[r].manifest /\ command.job = reader[r].job
      BY <1>2 DEF Command
    <2>2. reader' = [reader EXCEPT ![r] = command]
      BY <1>4
    <2> HIDE DEF command
    <2>3. input = job.version
      <3>1. input = reader[r].manifest.signature
        BY <1>4 DEF Unchanged
      <3>2. reader[r].manifest.signature <= job.version
        BY <1>2 DEF CommandFits, ManifestFits
      <3>3. input \in Nat /\ job.version \in Nat
        BY <1>2, InputNumbers, DocTypes DEF Job, ResultsInv
      <3> QED BY <1>2, <3>1, <3>2, <3>3
    <2>4. CommandFits(command, jobs[command.job])
      BY <1>1, <1>2, <2>1, <2>3 DEF CommandFits
    <2> QED BY <1>1, <1>2, <2>1, <2>2, <2>4, CommandStep, SameContents, SameManifests
  <1> QED BY <1>3, <1>4 DEF CheckInput

LEMMA DocumentStep == ASSUME ResultsInv, NEW r \in Readers, ReadDocument(r) PROVE ResultsInv'
PROOF
  <1> DEFINE job == jobs[reader[r].job]
             command == [reader[r] EXCEPT !.pc = "apply", !.version = input]
  <1>1. /\ UNCHANGED <<input, late, jobs, submit, manifests, target, writer>>
        /\ reader[r].pc = "read" /\ reader' = [reader EXCEPT ![r] = command]
    BY DEF ReadDocument, ReaderOnly, output
  <1>2. /\ reader[r] \in Command /\ reader[r].job \in 1..Len(jobs)
        /\ CommandFits(reader[r], job) /\ input \in Versions
        /\ writer[r].pc \in Output!Ends \cup {"idle"}
    BY <1>1, Begun DEF ResultsInv, ResultsType
  <1>3. /\ command \in Command /\ command.pc = "apply" /\ command.version = input
        /\ command.manifest = reader[r].manifest /\ command.job = reader[r].job
    BY <1>2 DEF Command
  <1> HIDE DEF command
  <1>4. CommandFits(command, jobs[command.job])
    BY <1>1, <1>2, <1>3 DEF CommandFits
  <1> QED BY <1>1, <1>2, <1>3, <1>4, CommandStep, SameContents, SameManifests

\* A right output of the document of the job is accepted, and what is accepted
\* is right.
LEMMA ApplyResults ==
  ASSUME ResultsInv, OutputInv, NEW r \in Readers, Apply(r)
  PROVE  ResultsInv'
PROOF
  <1> DEFINE command == reader[r]
             job     == jobs[command.job]
             lines   == AllLines(job.out)
             good    == ParsedOutput(command.manifest, job.out)
                          /\ ValidOutput(command.version, lines)
  <1>1. /\ UNCHANGED <<input, late, jobs, submit, manifests, target>>
        /\ command.pc = "apply"
    BY DEF Apply, ReaderOnly
  <1>2. /\ command \in Command /\ command.job \in 1..Len(jobs)
        /\ CommandFits(command, job) /\ job \in Job /\ JobOK(job)
        /\ writer[r].pc \in Output!Ends \cup {"idle"}
    BY <1>1, Begun
  <1>3. /\ command.version \in Versions
        /\ ~late => command.version = job.version
        /\ job.status = "completed" /\ job.out # None
        /\ command.manifest.requests = job.requests
    BY <1>1, <1>2 DEF CommandFits, ManifestFits
  <1>4. CASE ReaderEnds(r, "failed") /\ writer' = writer
    <2>1. "failed" \in Refusals
      BY DEF Refusals
    <2> QED BY <1>1, <1>2, <1>4, <2>1, RefusalStep, SameContents, SameManifests
  <1>5. CASE ~good /\ ReaderEnds(r, "invalid") /\ writer' = writer
    <2>1. ASSUME ~late PROVE job.out \notin RightOutputs(job)
      <3>1. command.version = job.version
        BY <1>3, <2>1
      <3> QED BY <1>2, <1>3, <1>5, <3>1, RightIsAccepted DEF JobOK
    <2> QED BY <1>1, <1>2, <1>3, <1>5, <2>1, EndStep, SameContents, SameManifests
  <1>6. CASE /\ good /\ reader' = [reader EXCEPT ![r].pc = "writing"]
             /\ writer' = [writer EXCEPT ![r] = Output!Called(
                  [job |-> command.job, version |-> command.version,
                   text |-> Translated(command.version, lines), by |-> r])]
    <2> DEFINE content == [job |-> command.job, version |-> command.version,
                           text |-> Translated(command.version, lines), by |-> r]
    <2>1. RightContent(content, jobs, late)
      <3>1. ASSUME ~late
            PROVE  /\ command.version = job.version
                   /\ Translated(command.version, lines)
                        = [i \in DOMAIN Docs[command.version] |->
                             Text(command.version, Docs[command.version][i].id)]
        <4>1. command.version = job.version
          BY <1>3, <3>1
        <4>2. TrueAnswers(command.version, job.out)
          BY <1>2, <1>3, <4>1 DEF JobOK
        <4> QED BY <1>3, <1>6, <4>1, <4>2, AcceptedIsRight
      <3>2. content.job = command.job /\ content.version = command.version
            /\ content.text = Translated(command.version, lines)
        OBVIOUS
      <3> HIDE DEF content, lines
      <3> QED BY <1>2, <3>1, <3>2 DEF RightContent
    <2>2. writer' = [writer EXCEPT ![r] = Output!Called(content)]
      BY <1>6
    <2> HIDE DEF content
    <2>3. /\ writer'[r].pc = "locking" /\ writer'[r].content = content
          /\ \A q \in Readers \ {r} : writer'[q] = writer[q]
      BY <2>2 DEF OutputInv, OutputType, Output!Called
    <2>4. ContentsOK'
      BY <1>1, <2>1, <2>3 DEF ResultsInv, ContentsOK
    <2> DEFINE next == [command EXCEPT !.pc = "writing"]
    <2>5. /\ next \in Command /\ next.pc = "writing" /\ next.job = command.job
          /\ next.manifest = command.manifest
      BY <1>2 DEF Command
    <2>6. reader' = [reader EXCEPT ![r] = next]
      BY <1>6
    <2> HIDE DEF next
    <2>7. CommandFits(next, jobs[next.job])
      BY <1>2, <2>5 DEF CommandFits
    <2> QED BY <1>1, <1>2, <2>3, <2>4, <2>5, <2>6, <2>7, CommandStep, SameManifests
  <1> QED BY <1>4, <1>5, <1>6 DEF Apply

\* A step of the write publishes at most what the command wrote.
LEMMA WriteMoves ==
  ASSUME OutputInv, NEW r \in Readers, Output!Write(r)
  PROVE  /\ writer[r].pc \in Writing
         /\ writer'[r].content = writer[r].content
         /\ \A q \in Readers \ {r} : writer'[q] = writer[q]
         /\ target' = target \/ target' = writer[r].content
PROOF
  <1>1. \E pc : Output!Moves(r, pc)
    BY DEF Output!Write, Output!CreateLock, Output!FindStale, Output!RemoveStale, Output!GiveUp,
           Output!Stage, Output!Publish, Output!Verify, Output!Release
  <1>2. writer[r].pc \in Writing
    BY DEF Output!Write, Output!CreateLock, Output!FindStale, Output!RemoveStale, Output!GiveUp,
           Output!Stage, Output!Publish, Output!Verify, Output!Release, Writing,
           Output!Critical, Output!Staging
  <1>3. target' = target \/ target' = writer[r].content
    BY DEF Output!Write, Output!CreateLock, Output!FindStale, Output!RemoveStale, Output!GiveUp,
           Output!Stage, Output!Publish, Output!Verify, Output!Release
  <1> QED BY <1>1, <1>2, <1>3, MovesType DEF OutputInv

LEMMA WriteResults ==
  ASSUME ResultsInv, OutputInv, NEW r \in Readers, WriteOutput(r)
  PROVE  ResultsInv'
PROOF
  <1> USE DEF ResultsInv
  <1>1. /\ UNCHANGED <<input, late, jobs, submit, manifests, reader>>
        /\ reader[r].pc = "writing" /\ Output!Write(r)
    BY DEF WriteOutput, ReaderOnly
  <1>2. ResultsType'
    BY <1>1 DEF ResultsType
  <1>3. Grows
    BY <1>1, InputNumbers DEF Grows
  <1>4. JobsOK' /\ SubmitOK' /\ ManifestsOK'
    BY <1>1 DEF JobsOK, SubmitOK, ManifestsOK
  <1>5. ASSUME NEW q \in Readers PROVE ReaderOK(q)'
    <2>1. writer'[q] = writer[q] \/ reader[q].pc = "writing"
      BY <1>1, WriteMoves
    <2> QED BY <1>1, <1>2, <1>3, <2>1, ReaderFrame
  <1>6. ContentsOK'
    BY <1>1, WriteMoves DEF ContentsOK
  <1> QED BY <1>2, <1>4, <1>5, <1>6

LEMMA CollectStep ==
  ASSUME ResultsInv, NEW r \in Readers, Collected(r)
  PROVE  ResultsInv'
PROOF
  <1>1. /\ UNCHANGED <<input, late, jobs, submit, manifests, target, writer>>
        /\ reader[r].pc = "writing" /\ writer[r].pc \in Output!Ends
        /\ ReaderEnds(r, writer[r].pc)
    BY DEF Collected, ReaderOnly, output
  <1>2. ContentsOK' /\ manifests' \in [1..MaxJobs -> Manifest \cup {None}] /\ ManifestsOK'
    BY <1>1, SameContents, SameManifests
  <1>3. PICK answer \in Output!Ends : answer = writer[r].pc
    BY <1>1
  <1> QED BY <1>1, <1>2, <1>3, RefusalStep

LEMMA StopResults ==
  ASSUME ResultsInv, OutputInv, NEW r \in Readers, Stop(r)
  PROVE  ResultsInv'
PROOF
  <1>1. /\ UNCHANGED <<input, late, jobs, submit, manifests>>
        /\ reader[r].pc # "idle" /\ ReaderEnds(r, "crashed")
    BY DEF Stop, ReaderOnly
  <1>2. /\ target' = target /\ writer'[r].pc \in Output!Ends
        /\ \A q \in Readers \ {r} : writer'[q] = writer[q]
    <2>1. CASE writer[r].pc \in Output!Ends
      BY <2>1 DEF Stop, output
    <2>2. CASE writer[r].pc \notin Output!Ends
      <3>1. Output!Moves(r, "crashed") /\ target' = target
        BY <2>2 DEF Stop, Output!StopWriter
      <3> QED BY <3>1, MovesType DEF OutputInv, Output!Ends
    <2> QED BY <2>1, <2>2
  <1>3. ContentsOK'
    <2>1. writer'[r].pc \notin Writing
      BY <1>2 DEF Writing, Output!Ends, Output!Critical, Output!Staging
    <2> QED BY <1>1, <1>2, <2>1 DEF ResultsInv, ContentsOK
  <1>4. "crashed" \in Refusals
    BY DEF Refusals
  <1> QED BY <1>1, <1>2, <1>3, <1>4, RefusalStep, SameManifests

-----------------------------------------------------------------------------
(* The theorems on the results *)

OvernightInv == OutputInv /\ ResultsInv

LEMMA ResultsNext == OvernightInv /\ [Next]_vars => ResultsInv'
PROOF
  <1> SUFFICES ASSUME OutputInv, ResultsInv, [Next]_vars PROVE ResultsInv'
    BY DEF OvernightInv
  <1>1. CASE UNCHANGED vars
    <2>1. UNCHANGED <<input, late, jobs, manifests, submit, reader, target, writer>>
      BY <1>1 DEF vars, provider, output
    <2>2. ResultsType' /\ JobsOK' /\ ManifestsOK' /\ SubmitOK' /\ ContentsOK'
      BY <2>1 DEF ResultsInv, ResultsType, JobsOK, ManifestsOK, SubmitOK, ContentsOK
    <2>3. \A r \in Readers : ReaderOK(r)'
      BY <2>1 DEF ResultsInv, ReaderOK, CommandFits, ManifestFits
    <2> QED BY <2>2, <2>3 DEF ResultsInv
  <1>2. CASE Submit
    BY <1>2, SignStep, ReadStep, CreateStep, ManifestStep, SubmitEndStep DEF Submit
  <1>3. CASE EditInput
    BY <1>3, EditStep
  <1>4. CASE Tick
    BY <1>4, TickStep
  <1>5. ASSUME NEW j \in 1..Len(jobs), JobEnds(j) PROVE ResultsInv'
    BY <1>5, JobStep
  <1>6. ASSUME NEW r \in Readers, Run(r) PROVE ResultsInv'
    BY <1>6, RunStep
  <1>7. ASSUME NEW r \in Readers, Step(r) PROVE ResultsInv'
    BY <1>7, AskStep, SaveStep, CheckStep, DocumentStep, ApplyResults, WriteResults, CollectStep
       DEF Step
  <1>8. ASSUME NEW r \in Readers, Stop(r) PROVE ResultsInv'
    BY <1>8, StopResults
  <1> QED BY <1>1, <1>2, <1>3, <1>4, <1>5, <1>6, <1>7, <1>8 DEF Next

\* For any number of commands, jobs, versions and segments: a manifest belongs to
\* its job and is signed with a version of the input no younger than the job's,
\* and a collect past its checks works on the document of its job.
THEOREM OvernightInvariant == Spec => []OvernightInv
PROOF
  <1>1. Init => OvernightInv
    BY OutputInit, ResultsStart DEF OvernightInv
  <1>2. OvernightInv /\ [Next]_vars => OvernightInv'
    BY OutputNext, ResultsNext DEF OvernightInv
  <1> QED BY <1>1, <1>2, PTL DEF Spec

\* The types of the commands, the jobs and the output file.
THEOREM OvernightTypes == Spec => []TypeOK
PROOF
  <1>1. OvernightInv => TypeOK
    <2> SUFFICES ASSUME OvernightInv PROVE TypeOK
      OBVIOUS
    <2>1. input \in Versions /\ late \in BOOLEAN /\ aged \in BOOLEAN
      BY DEF OvernightInv, OutputInv, OutputType, ResultsInv, ResultsType
    <2>2. submit.pc \in {"idle", "signed", "read", "created"}
      BY DEF OvernightInv, ResultsInv, ResultsType, Submission
    <2>3. \A j \in 1..Len(jobs) : jobs[j].status \in {"in_progress", "completed", "expired"}
      <3>1. \A j \in 1..Len(jobs) : jobs[j] \in Job
        BY DEF OvernightInv, ResultsInv, ResultsType
      <3> QED BY <3>1 DEF Job, Statuses
    <2>4. ASSUME NEW r \in Readers
          PROVE  /\ reader[r].pc \in {"idle", "status", "save", "check", "read", "apply",
                                      "writing", "ended"}
                 /\ reader[r].pc # "writing" => writer[r].pc \in Output!Ends \cup {"idle"}
      <3>1. reader[r].pc # "idle" => reader[r] \in Command
        BY Begun DEF OvernightInv
      <3>2. reader[r].pc # "writing" => writer[r].pc \in Output!Ends \cup {"idle"}
        BY DEF OvernightInv, ResultsInv, ReaderOK
      <3> QED BY <3>1, <3>2 DEF Command
    <2>5. target # None => target.job \in 1..Len(jobs)
      BY DEF OvernightInv, ResultsInv, ContentsOK, RightContent
    <2> QED BY <2>1, <2>2, <2>3, <2>4, <2>5 DEF TypeOK
  <1> QED BY <1>1, OvernightInvariant, PTL

\* What collect publishes is the translation of the document the job was made
\* from, and it refuses only outputs that are not right, in whatever order the
\* provider completed the requests and whatever was edited meanwhile, but for an
\* edit between the check of the input and its reading.
THEOREM CollectsItsDocument == Spec => []ResultsApplied
PROOF
  <1>1. OvernightInv => ResultsApplied
    <2> SUFFICES ASSUME ResultsInv, ~late
                 PROVE  /\ target # None =>
                             LET version == jobs[target.job].version
                             IN /\ target.version = version
                                /\ target.text = [i \in DOMAIN Docs[version] |->
                                                    Text(version, Docs[version][i].id)]
                        /\ \A r \in Readers :
                             reader[r].pc = "ended" /\ reader[r].answer = "invalid"
                               => jobs[reader[r].job].out \notin RightOutputs(jobs[reader[r].job])
      BY DEF OvernightInv, ResultsApplied
    <2>1. ASSUME target # None
          PROVE  LET version == jobs[target.job].version
                 IN /\ target.version = version
                    /\ target.text = [i \in DOMAIN Docs[version] |->
                                        Text(version, Docs[version][i].id)]
      BY <2>1 DEF ResultsInv, ContentsOK, RightContent
    <2>2. ASSUME NEW r \in Readers, reader[r].pc = "ended", reader[r].answer = "invalid"
          PROVE  jobs[reader[r].job].out \notin RightOutputs(jobs[reader[r].job])
      BY <2>2 DEF ResultsInv, ReaderOK, CommandFits
    <2> QED BY <2>1, <2>2
  <1> QED BY <1>1, OvernightInvariant, PTL
=============================================================================
