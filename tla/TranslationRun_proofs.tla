----------------------- MODULE TranslationRun_proofs -----------------------
(***************************************************************************)
(* Proofs about TranslationRun for any names, words, batches, window,      *)
(* review plan, glossary and edits of it.                                  *)
(***************************************************************************)
EXTENDS TranslationRun, SequenceTheorems, TLAPS

-----------------------------------------------------------------------------
(* The inductive invariant *)

\* A rendering of batch b that a run made under guide g, its marked names
\* given the words that are remembered for them.
Made(x, b, g, names) ==
  /\ x \in Rendering
  /\ x.word \in Words(b) /\ x.marked \subseteq TermsIn[b] /\ x.guide = g
  /\ \A t \in x.marked : x.word[t] = names[t]

\* What a checkpoint and a run have in common: their guidance, the names
\* chosen under it, and the batches that were made with both.
Sound(c) ==
  /\ c.guide \in Glossary /\ c.glossary \in Glossary /\ c.names \in Glossary
  /\ \A t \in Term : c.names[t] # Unknown =>
       Required(c.guide)[t] \in {Unknown, c.names[t]}
  /\ c.text \in Seq(Rendering) /\ Len(c.text) <= Len(TermsIn)
  /\ \A b \in 1..Len(c.text) : Made(c.text[b], b, c.guide, c.names)
  /\ c.reviewed \in Seq(AnyWords) /\ Len(c.reviewed) <= Len(ReviewPlan)
  /\ \A i \in 1..Len(c.reviewed) : c.reviewed[i] \in Words(ReviewPlan[i])

\* A validated output has a line for every term, with the required words.
Validated(g, final) ==
  /\ final \in Outputs
  /\ \A b \in BatchNo : \A t \in TermsIn[b] : Required(g)[t] \in {Unknown, final[b][t]}

SavedOK(s) ==
  /\ Sound(s)
  /\ s.validated \in BOOLEAN
  /\ IF s.validated THEN Validated(s.guide, s.final) ELSE s.final = NoOutput

SavedInv == saved # NoState => SavedOK(saved)

RunRecord ==
  [phase : Phase, guide : Glossary, required : Glossary, glossary : Glossary,
   names : Glossary, text : Seq(Rendering), reviewed : Seq(AnyWords),
   final : Outputs \cup {NoOutput},
   resumed : [reviewed : 0..Len(ReviewPlan), final : BOOLEAN],
   window : 0..Window, ready : Seq(Rendering), retried : BOOLEAN]

Reviewing == {"review", "commitReview", "endReview", "finalize", "done"}

\* The window in progress: its answers are for the batches that follow, and
\* it asks for no batch that is not there.
WindowOK(r) ==
  /\ \A i \in 1..Len(r.ready) : Made(r.ready[i], Len(r.text) + i, r.guide, r.names)
  /\ Len(r.ready) <= r.window
  /\ Len(r.text) + Len(r.ready) <= Len(TermsIn)
  /\ r.phase = "translate" => Len(r.text) + r.window <= Len(TermsIn)
  /\ r.phase = "apply" => r.ready # << >>

\* How far each phase has come, and what was resumed.
StageOK(r) ==
  /\ r.phase \in {"translate", "apply", "commit"} => Len(r.reviewed) = r.resumed.reviewed
  /\ r.phase \in Reviewing => r.ready = << >> /\ Len(r.text) = Len(TermsIn)
  /\ r.phase \in {"endReview", "finalize", "done"} => Len(r.reviewed) = Len(ReviewPlan)
  /\ r.resumed.reviewed <= Len(r.reviewed)
  /\ r.resumed.final => Validated(r.guide, r.final)

RunOK(r) ==
  /\ r \in RunRecord /\ Sound(r) /\ r.required = Required(r.guide)
  /\ WindowOK(r) /\ StageOK(r)

\* The report covers what the run or the checkpoint has reviewed, and a run
\* that reviews has saved a checkpoint of its own.
ReportInv ==
  /\ report \in [guide : Glossary, covers : 0..Len(ReviewPlan)]
  /\ run.reviewed # << >> =>
       report.guide = run.guide /\ report.covers >= Len(run.reviewed)
  /\ run.phase \in Reviewing /\ saved # NoState =>
       saved.guide = run.guide /\ Len(saved.reviewed) <= Len(run.reviewed)
  /\ ReportCoversReview

TranslationInv ==
  /\ SavedInv /\ RunOK(run) /\ ReportInv
  /\ glossaryFile \in Glossary /\ edits \in 0..MaxEdits

-----------------------------------------------------------------------------
(* Glossaries, words and names *)

\* The values of the model are of their types.
LEMMA ConstantFacts ==
  /\ Empty \in Glossary /\ \A t \in Term : Empty[t] = Unknown
  /\ \A g \in Glossary : Required(g) \in Glossary
  /\ Len(TermsIn) \in Nat /\ Len(ReviewPlan) \in Nat /\ Window \in Nat \ {0}
  /\ \A b \in BatchNo : TermsIn[b] \subseteq Term
  /\ \A b \in BatchNo : Words(b) \subseteq AnyWords
  /\ \A i \in 1..Len(ReviewPlan) : ReviewPlan[i] \in BatchNo
PROOF
  <1>1. Empty \in Glossary /\ \A t \in Term : Empty[t] = Unknown
    BY DEF Empty, Glossary
  <1>2. \A g \in Glossary : Required(g) \in Glossary
    BY <1>1 DEF Required
  <1>3. Len(TermsIn) \in Nat /\ Len(ReviewPlan) \in Nat /\ Window \in Nat \ {0}
    BY ConstantsAssumption, LenProperties
  <1>4. \A b \in BatchNo : TermsIn[b] \subseteq Term
    BY ConstantsAssumption, ElementOfSeq DEF BatchNo
  <1>5. \A b \in BatchNo : Words(b) \subseteq AnyWords
    BY DEF AnyWords
  <1>6. \A i \in 1..Len(ReviewPlan) : ReviewPlan[i] \in BatchNo
    BY ConstantsAssumption, ElementOfSeq
  <1> QED BY <1>1, <1>2, <1>3, <1>4, <1>5, <1>6

\* The words of a batch: one word of the target language for each term.
LEMMA WordFacts ==
  ASSUME NEW b, NEW w \in Words(b)
  PROVE  /\ DOMAIN w = TermsIn[b]
         /\ \A t \in TermsIn[b] : w[t] \in Target /\ w[t] # Unknown
BY ConstantsAssumption DEF Words

\* The choice for a marked name follows the requirement, then the memory.
LEMMA ChoiceFacts ==
  ASSUME NEW r \in RunRecord, Sound(r), r.required = Required(r.guide),
         NEW t \in Term, NEW proposed \in Target
  PROVE  /\ Choice(r, t, proposed) \in Target
         /\ Choice(r, t, proposed) # Unknown
         /\ r.names[t] # Unknown => Choice(r, t, proposed) = r.names[t]
         /\ r.required[t] # Unknown => Choice(r, t, proposed) = r.required[t]
PROOF
  <1>1. /\ r.required[t] \in Target \cup {Unknown} /\ r.names[t] \in Target \cup {Unknown}
        /\ r.glossary[t] \in Target \cup {Unknown}
    BY DEF RunRecord, Glossary
  <1>2. r.names[t] # Unknown => r.required[t] \in {Unknown, r.names[t]}
    BY DEF Sound
  <1> QED BY <1>1, <1>2, ConstantsAssumption DEF Choice

\* Remembering keeps the names that are known, and agrees with the
\* requirements and with the choices just made.
LEMMA RememberFacts ==
  ASSUME NEW r \in RunRecord, Sound(r), r.required = Required(r.guide),
         NEW b \in BatchNo, NEW answer \in Answers(b), NEW terms \in SUBSET answer.marked
  PROVE  /\ Remember(r, answer, terms) \in Glossary
         /\ \A t \in Term : r.names[t] # Unknown =>
              Remember(r, answer, terms)[t] = r.names[t]
         /\ \A t \in Term : Remember(r, answer, terms)[t] # Unknown =>
              Required(r.guide)[t] \in {Unknown, Remember(r, answer, terms)[t]}
         /\ \A t \in terms : Remember(r, answer, terms)[t] = Choice(r, t, answer.word[t])
PROOF
  <1> DEFINE names == Remember(r, answer, terms)
  <1>1. r.names \in Glossary
    BY DEF RunRecord
  <1>2. \A t \in terms : t \in Term /\ answer.word[t] \in Target
    BY ConstantFacts, WordFacts DEF Answers
  <1>3. \A t \in terms : /\ Choice(r, t, answer.word[t]) \in Target
                         /\ r.names[t] # Unknown => Choice(r, t, answer.word[t]) = r.names[t]
                         /\ r.required[t] # Unknown => Choice(r, t, answer.word[t]) = r.required[t]
    BY <1>2, ChoiceFacts
  <1>4. \A t \in Term : names[t] = IF t \in terms /\ r.names[t] = Unknown
                                   THEN Choice(r, t, answer.word[t]) ELSE r.names[t]
    BY DEF Remember
  <1>5. names \in Glossary
    <2>1. \A t \in Term : names[t] \in Target \cup {Unknown}
      BY <1>1, <1>3, <1>4 DEF Glossary
    <2>2. names = [t \in Term |-> names[t]]
      BY DEF Remember
    <2> HIDE DEF names
    <2> QED BY <2>1, <2>2 DEF Glossary
  <1>6. \A t \in Term : names[t] # Unknown => Required(r.guide)[t] \in {Unknown, names[t]}
    BY <1>3, <1>4 DEF Sound
  <1>7. \A t \in terms : names[t] = Choice(r, t, answer.word[t])
    BY <1>2, <1>3, <1>4
  <1>8. \A t \in Term : r.names[t] # Unknown => names[t] = r.names[t]
    BY <1>4
  <1> QED BY <1>5, <1>6, <1>7, <1>8

\* An aligned answer is a rendering that uses the names remembered with it.
LEMMA AlignMade ==
  ASSUME NEW r \in RunRecord, Sound(r), r.required = Required(r.guide),
         NEW b \in BatchNo, NEW answer \in Answers(b)
  PROVE  Made(Align(r, answer), b, r.guide, Remember(r, answer, answer.marked))
PROOF
  <1> DEFINE x == Align(r, answer)
  <1>1. answer.word \in Words(b) /\ answer.marked \subseteq TermsIn[b]
    BY DEF Answers
  <1>2. DOMAIN answer.word = TermsIn[b] /\ TermsIn[b] \subseteq Term
        /\ \A t \in TermsIn[b] : answer.word[t] \in Target
    BY <1>1, WordFacts, ConstantFacts
  <1>3. \A t \in TermsIn[b] : Choice(r, t, answer.word[t]) \in Target
    BY <1>2, ChoiceFacts
  <1>4. /\ x.word = [t \in TermsIn[b] |-> IF t \in answer.marked
                       THEN Choice(r, t, answer.word[t]) ELSE answer.word[t]]
        /\ x.marked = answer.marked /\ x.guide = r.guide
        /\ x = [word |-> x.word, marked |-> x.marked, guide |-> x.guide]
    BY <1>2 DEF Align
  <1>5. x.word \in Words(b)
    BY <1>2, <1>3, <1>4 DEF Words
  <1>6. x \in Rendering
    <2>1. x.word \in AnyWords /\ x.marked \in SUBSET Term /\ x.guide \in Glossary
      BY <1>1, <1>2, <1>4, <1>5, ConstantFacts DEF RunRecord
    <2> HIDE DEF x
    <2> QED BY <1>4, <2>1 DEF Rendering
  <1>7. \A t \in x.marked : x.word[t] = Remember(r, answer, answer.marked)[t]
    <2>1. \A t \in answer.marked : Remember(r, answer, answer.marked)[t]
                                     = Choice(r, t, answer.word[t])
      BY RememberFacts
    <2> QED BY <1>1, <1>4, <2>1
  <1> HIDE DEF x
  <1> QED BY <1>1, <1>4, <1>5, <1>6, <1>7 DEF Made, x

\* A rendering stays sound when more names are remembered.
LEMMA MadeMonotone ==
  ASSUME NEW b \in BatchNo, NEW x, NEW g, NEW names, NEW more, Made(x, b, g, names),
         \A t \in Term : names[t] # Unknown => more[t] = names[t]
  PROVE  Made(x, b, g, more)
PROOF
  <1>1. \A t \in x.marked : t \in Term /\ x.word[t] # Unknown
    BY WordFacts, ConstantFacts DEF Made
  <1> QED BY <1>1 DEF Made

-----------------------------------------------------------------------------
(* What checkpoints and runs have in common *)

\* More names remembered leave the batches sound.
LEMMA SoundNames ==
  ASSUME NEW c, NEW d, Sound(c),
         d.guide = c.guide, d.glossary = c.glossary, d.text = c.text, d.reviewed = c.reviewed,
         d.names \in Glossary,
         \A t \in Term : c.names[t] # Unknown => d.names[t] = c.names[t],
         \A t \in Term : d.names[t] # Unknown => Required(d.guide)[t] \in {Unknown, d.names[t]}
  PROVE  Sound(d)
PROOF
  <1>1. \A b \in 1..Len(c.text) : b \in BatchNo
    BY ConstantFacts, LenProperties DEF Sound, BatchNo
  <1>2. \A b \in 1..Len(d.text) : Made(d.text[b], b, d.guide, d.names)
    BY <1>1, MadeMonotone DEF Sound
  <1> QED BY <1>2 DEF Sound

\* So does one more batch that was made under the same guidance.
LEMMA SoundText ==
  ASSUME NEW c, NEW d, NEW x, Sound(c),
         d.guide = c.guide, d.glossary \in Glossary, d.text = Append(c.text, x),
         d.names = c.names, d.reviewed = c.reviewed,
         Len(c.text) < Len(TermsIn), Made(x, Len(c.text) + 1, c.guide, c.names)
  PROVE  Sound(d)
PROOF
  <1>1. c.text \in Seq(Rendering) /\ x \in Rendering
    BY DEF Sound, Made
  <1>2. /\ d.text \in Seq(Rendering) /\ Len(d.text) = Len(c.text) + 1
        /\ \A b \in 1..Len(c.text) : d.text[b] = c.text[b]
        /\ d.text[Len(c.text) + 1] = x
    BY <1>1, AppendProperties
  <1>3. Len(c.text) \in Nat /\ Len(TermsIn) \in Nat
    BY <1>1, ConstantFacts, LenProperties
  <1>4. ASSUME NEW b \in 1..Len(d.text)
        PROVE  Made(d.text[b], b, d.guide, d.names)
    <2>1. CASE b = Len(c.text) + 1
      BY <1>2, <2>1
    <2>2. CASE b # Len(c.text) + 1
      <3>1. b \in 1..Len(c.text)
        BY <1>2, <1>3, <2>2
      <3> QED BY <1>2, <3>1 DEF Sound
    <2> QED BY <2>1, <2>2
  <1> QED BY <1>2, <1>3, <1>4 DEF Sound

\* And one more reviewed batch of the plan.
LEMMA SoundReviewed ==
  ASSUME NEW c, NEW d, NEW w, Sound(c),
         d.guide = c.guide, d.glossary = c.glossary, d.text = c.text, d.names = c.names,
         d.reviewed = Append(c.reviewed, w),
         Len(c.reviewed) < Len(ReviewPlan), w \in Words(ReviewPlan[Len(c.reviewed) + 1])
  PROVE  Sound(d) /\ Len(d.reviewed) = Len(c.reviewed) + 1
PROOF
  <1>1. c.reviewed \in Seq(AnyWords) /\ Len(c.reviewed) \in Nat /\ Len(ReviewPlan) \in Nat
    BY ConstantFacts, LenProperties DEF Sound
  <1>2. w \in AnyWords
    BY <1>1, ConstantFacts
  <1>3. /\ d.reviewed \in Seq(AnyWords) /\ Len(d.reviewed) = Len(c.reviewed) + 1
        /\ \A i \in 1..Len(c.reviewed) : d.reviewed[i] = c.reviewed[i]
        /\ d.reviewed[Len(c.reviewed) + 1] = w
    BY <1>1, <1>2, AppendProperties
  <1>4. ASSUME NEW i \in 1..Len(d.reviewed)
        PROVE  d.reviewed[i] \in Words(ReviewPlan[i])
    <2>1. CASE i = Len(c.reviewed) + 1
      BY <1>3, <2>1
    <2>2. CASE i # Len(c.reviewed) + 1
      <3>1. i \in 1..Len(c.reviewed)
        BY <1>1, <1>3, <2>2
      <3> QED BY <1>3, <3>1 DEF Sound
    <2> QED BY <2>1, <2>2
  <1> QED BY <1>1, <1>3, <1>4 DEF Sound

\* A checkpoint of a sound run is sound; it counts n reviewed batches.
LEMMA CheckpointOK ==
  ASSUME NEW r, Sound(r), NEW n \in 0..Len(r.reviewed), NEW validated \in BOOLEAN,
         validated => Validated(r.guide, r.final)
  PROVE  /\ SavedOK(Checkpoint(r, n, validated))
         /\ Len(Checkpoint(r, n, validated).reviewed) = n
PROOF
  <1> DEFINE s == Checkpoint(r, n, validated)
  <1>1. /\ s.guide = r.guide /\ s.glossary = r.glossary /\ s.names = r.names /\ s.text = r.text
        /\ s.reviewed = SubSeq(r.reviewed, 1, n) /\ s.validated = validated
        /\ s.final = IF validated THEN r.final ELSE NoOutput
    BY DEF Checkpoint
  <1>2. r.reviewed \in Seq(AnyWords) /\ Len(r.reviewed) \in Nat /\ n \in Nat
        /\ Len(ReviewPlan) \in Nat
    BY ConstantFacts, LenProperties DEF Sound
  <1>3. \A i \in 1..n : r.reviewed[i] \in AnyWords
    BY <1>2, ElementOfSeq
  <1>4. /\ s.reviewed \in Seq(AnyWords) /\ Len(s.reviewed) = n
        /\ \A i \in 1..n : s.reviewed[i] = r.reviewed[i]
    BY <1>1, <1>2, <1>3, SubSeqProperties
  <1>5. Sound(s)
    <2> HIDE DEF s
    <2> QED BY <1>1, <1>2, <1>4 DEF Sound
  <1> HIDE DEF s
  <1>6. SavedOK(s)
    BY <1>1, <1>5 DEF SavedOK
  <1> QED BY <1>4, <1>6 DEF s

\* The names of a sound rendering can be learned.
LEMMA LearnType ==
  ASSUME NEW g \in Glossary, NEW b \in BatchNo, NEW x, NEW guide, NEW names,
         Made(x, b, guide, names)
  PROVE  Learn(g, x) \in Glossary
PROOF
  <1>1. \A t \in x.marked : x.word[t] \in Target
    BY WordFacts DEF Made
  <1> QED BY <1>1 DEF Learn, Glossary

-----------------------------------------------------------------------------
(* The steps *)

\* The lengths that the steps compare are numbers.
LEMMA Lengths ==
  ASSUME TranslationInv
  PROVE  /\ Len(run.text) \in Nat /\ Len(run.ready) \in Nat /\ Len(run.reviewed) \in Nat
         /\ run.window \in Nat /\ run.resumed.reviewed \in Nat
         /\ Len(TermsIn) \in Nat /\ Len(ReviewPlan) \in Nat
PROOF
  <1>1. /\ run.text \in Seq(Rendering) /\ run.ready \in Seq(Rendering)
        /\ run.reviewed \in Seq(AnyWords)
        /\ run.window \in 0..Window /\ run.resumed.reviewed \in 0..Len(ReviewPlan)
    BY DEF TranslationInv, RunOK, RunRecord
  <1> QED BY <1>1, ConstantFacts, LenProperties

\* The batches that a window answers are batches of the document.
LEMMA WindowBounds ==
  ASSUME TranslationInv
  PROVE  /\ Len(run.ready) <= run.window /\ Len(run.text) + Len(run.ready) <= Len(TermsIn)
         /\ run.phase = "translate" => Len(run.text) + run.window <= Len(TermsIn)
         /\ \A i \in 1..Len(run.ready) : Len(run.text) + i \in BatchNo
         /\ NextAnswered = Len(run.text) + (Len(run.ready) + 1)
         /\ run.phase = "translate" /\ Len(run.ready) < run.window =>
              /\ NextAnswered \in BatchNo
              /\ Len(run.ready) + 1 <= run.window
              /\ NextAnswered <= Len(TermsIn)
PROOF
  <1> DEFINE a == Len(run.text)
             b == Len(run.ready)
             w == run.window
  <1>1. a \in Nat /\ b \in Nat /\ w \in Nat /\ Len(TermsIn) \in Nat
    BY Lengths
  <1>2. b <= w /\ a + b <= Len(TermsIn) /\ (run.phase = "translate" => a + w <= Len(TermsIn))
    BY DEF TranslationInv, RunOK, WindowOK
  <1>3. NextAnswered = a + b + 1
    BY DEF NextAnswered, BatchesDone
  <1> HIDE DEF a, b, w
  <1>4. \A i \in 1..b : a + i \in BatchNo
    BY <1>1, <1>2 DEF BatchNo
  <1>5. NextAnswered = a + (b + 1)
    BY <1>1, <1>3
  <1>6. run.phase = "translate" /\ b < w =>
          NextAnswered \in BatchNo /\ b + 1 <= w /\ NextAnswered <= Len(TermsIn)
    BY <1>1, <1>2, <1>3 DEF BatchNo
  <1> QED BY <1>2, <1>4, <1>5, <1>6 DEF a, b, w

\* A run that is not started yet is sound, and so is one that starts afresh.
LEMMA FreshSound ==
  ASSUME NEW g \in Glossary
  PROVE  /\ IdleRun \in RunRecord /\ Sound(IdleRun) /\ IdleRun.required = Required(IdleRun.guide)
         /\ Fresh(g) \in RunRecord /\ Sound(Fresh(g))
         /\ Fresh(g).required = Required(Fresh(g).guide)
PROOF
  <1>1. << >> \in Seq(Rendering) /\ << >> \in Seq(AnyWords) /\ Len(<< >>) = 0
    BY EmptySeq
  <1>2. 0 \in 0..Len(ReviewPlan) /\ 0 \in 0..Window /\ 1..0 = {} /\ 0 <= Len(TermsIn)
        /\ 0 <= Len(ReviewPlan)
    BY ConstantFacts
  <1>3. Required(Empty) = Empty
    BY DEF Required
  <1>4. IdleRun \in RunRecord
    BY <1>1, <1>2, ConstantFacts DEF IdleRun, RunRecord, Phase, NoOutput
  <1>5. /\ Fresh(g).guide = g /\ Fresh(g).glossary = g /\ Fresh(g).names = Empty
        /\ Fresh(g).text = << >> /\ Fresh(g).reviewed = << >>
        /\ Fresh(g).required = Required(g)
    BY DEF Fresh, IdleRun
  <1>6. Fresh(g) \in RunRecord
    BY <1>4, ConstantFacts DEF Fresh, RunRecord, Phase
  <1>7. Sound(IdleRun)
    BY <1>1, <1>2, <1>3, ConstantFacts DEF IdleRun, Sound
  <1>8. Sound(Fresh(g))
    <2> HIDE DEF Fresh
    <2> QED BY <1>1, <1>2, <1>5, ConstantFacts DEF Sound
  <1> QED BY <1>3, <1>4, <1>5, <1>6, <1>7, <1>8 DEF IdleRun

\* Starting: from nothing, or from a checkpoint under the glossary as it is.
LEMMA StartStep ==
  ASSUME TranslationInv, NEW resume \in ResumeFlag, Start(resume)
  PROVE  TranslationInv'
PROOF
  <1> USE DEF TranslationInv
  <1> DEFINE g == glossaryFile
  <1>1. g \in Glossary /\ UNCHANGED <<saved, glossaryFile, report, edits>>
    BY DEF Start
  <1>2. /\ Fresh(g).phase = "translate" /\ Fresh(g).ready = << >> /\ Fresh(g).window = 0
        /\ Fresh(g).text = << >> /\ Fresh(g).reviewed = << >> /\ Fresh(g).guide = g
        /\ Fresh(g).resumed = [reviewed |-> 0, final |-> FALSE]
    BY DEF Fresh, IdleRun
  <1>3. Len(<< >>) = 0 /\ 1..0 = {} /\ Len(TermsIn) \in Nat /\ Len(ReviewPlan) \in Nat
    BY EmptySeq, ConstantFacts
  <1>4. CASE run' = Fresh(g)
    <2>1. WindowOK(Fresh(g))
      BY <1>2, <1>3 DEF WindowOK
    <2>2. StageOK(Fresh(g))
      BY <1>2, <1>3 DEF StageOK, Reviewing
    <2>3. RunOK(run')
      BY <1>1, <1>4, <2>1, <2>2, FreshSound DEF RunOK
    <2>4. ReportInv'
      BY <1>1, <1>2, <1>4 DEF ReportInv, ReportCoversReview, Reviewing
    <2> QED BY <1>1, <2>3, <2>4 DEF SavedInv
  <1>5. CASE resume /\ Resumable(saved, g) /\ run' = Resumed(saved, g)
    <2> DEFINE r == Resumed(saved, g)
    <2>1. saved # NoState /\ saved.guide = g /\ SavedOK(saved) /\ Sound(saved)
      BY <1>5 DEF Resumable, SavedInv, SavedOK
    <2>2. /\ r.phase = "translate" /\ r.ready = << >> /\ r.window = 0 /\ r.guide = g
          /\ r.required = Required(g) /\ r.glossary = saved.glossary /\ r.names = saved.names
          /\ r.text = saved.text /\ r.reviewed = saved.reviewed /\ r.final = saved.final
          /\ r.resumed = [reviewed |-> Len(saved.reviewed), final |-> saved.validated]
      BY DEF Resumed, Fresh, IdleRun
    <2>3. saved.reviewed \in Seq(AnyWords) /\ Len(saved.reviewed) \in 0..Len(ReviewPlan)
          /\ Len(saved.text) \in Nat /\ Len(saved.text) <= Len(TermsIn)
      BY <1>3, <2>1, LenProperties DEF Sound
    <2>4. r \in RunRecord
      <3>1. /\ saved.glossary \in Glossary /\ saved.names \in Glossary
            /\ saved.text \in Seq(Rendering) /\ saved.final \in Outputs \cup {NoOutput}
            /\ [reviewed |-> Len(saved.reviewed), final |-> saved.validated]
                 \in [reviewed : 0..Len(ReviewPlan), final : BOOLEAN]
        BY <2>1, <2>3 DEF Sound, SavedOK, Validated
      <3>2. Fresh(g) \in RunRecord
        BY <1>1, FreshSound
      <3> QED BY <2>3, <3>1, <3>2 DEF Resumed, RunRecord
    <2>5. Sound(r)
      BY <2>1, <2>2 DEF Sound
    <2>6. r.resumed.final => Validated(r.guide, r.final)
      BY <2>1, <2>2 DEF SavedOK
    <2> HIDE DEF r
    <2>7. run' = r
      BY <1>5 DEF r
    <2>8. WindowOK(r)
      BY <1>3, <2>2, <2>3 DEF WindowOK
    <2>9. StageOK(r)
      BY <2>2, <2>3, <2>6 DEF StageOK, Reviewing
    <2>10. RunOK(run')
      BY <2>2, <2>4, <2>5, <2>7, <2>8, <2>9 DEF RunOK
    <2>11. ReportInv'
      BY <1>1, <2>1, <2>2, <2>7 DEF ReportInv, ReportCoversReview, Reviewing
    <2> QED BY <1>1, <2>10, <2>11 DEF SavedInv
  <1> QED BY <1>4, <1>5 DEF Start

\* Opening a window asks for batches that there are.
LEMMA OpenWindowStep ==
  ASSUME TranslationInv, OpenWindow
  PROVE  TranslationInv'
PROOF
  <1> USE DEF TranslationInv
  <1>1. PICK k \in 1..Window : /\ Len(run.text) + k <= Len(TermsIn)
                               /\ run' = [run EXCEPT !.window = k]
    BY DEF OpenWindow, BatchesDone
  <1>2. run.phase = "translate" /\ run.window = 0
        /\ UNCHANGED <<saved, glossaryFile, report, edits>>
    BY DEF OpenWindow
  <1>3. k \in 0..Window /\ k \in Nat
    BY ConstantFacts
  <1>4. run \in RunRecord
    BY DEF RunOK
  <1>5. /\ run' \in RunRecord /\ run'.window = k /\ run'.phase = run.phase
        /\ run'.guide = run.guide /\ run'.required = run.required
        /\ run'.glossary = run.glossary /\ run'.names = run.names /\ run'.text = run.text
        /\ run'.reviewed = run.reviewed /\ run'.final = run.final
        /\ run'.resumed = run.resumed /\ run'.ready = run.ready
    BY <1>1, <1>3, <1>4 DEF RunRecord
  <1>6. Sound(run')
    BY <1>5 DEF RunOK, Sound
  <1>7. WindowOK(run')
    <2>1. WindowOK(run)
      BY DEF RunOK
    <2>2. \A i \in 1..Len(run'.ready) :
            Made(run'.ready[i], Len(run'.text) + i, run'.guide, run'.names)
      BY <1>5, <2>1 DEF WindowOK
    <2>3. /\ Len(run.ready) <= run.window /\ Len(run.text) + Len(run.ready) <= Len(TermsIn)
      BY <2>1 DEF WindowOK
    <2>4. Len(run'.ready) <= k
      BY <1>2, <1>3, <1>5, <2>3, Lengths
    <2> QED BY <1>1, <1>2, <1>5, <2>2, <2>3, <2>4 DEF WindowOK
  <1>8. StageOK(run')
    BY <1>2, <1>5 DEF RunOK, StageOK, Reviewing
  <1>9. RunOK(run')
    BY <1>5, <1>6, <1>7, <1>8 DEF RunOK
  <1> QED BY <1>2, <1>5, <1>9 DEF SavedInv, ReportInv, ReportCoversReview

\* An aligned answer joins the window, under the names remembered with it.
LEMMA AlignBatchStep ==
  ASSUME TranslationInv, AlignBatch
  PROVE  TranslationInv'
PROOF
  <1> DEFINE b == NextAnswered
  <1>1. /\ run.phase = "translate" /\ Len(run.ready) < run.window
        /\ UNCHANGED <<saved, glossaryFile, report, edits>>
    BY DEF AlignBatch
  <1>2. /\ run \in RunRecord /\ Sound(run) /\ run.required = Required(run.guide)
        /\ WindowOK(run) /\ StageOK(run)
    BY DEF TranslationInv, RunOK
  <1>3. b \in BatchNo /\ b = Len(run.text) + (Len(run.ready) + 1)
    BY <1>1, WindowBounds
  <1>4. PICK answer \in Answers(b) :
          run' = [run EXCEPT !.ready = Append(@, Align(run, answer)),
                             !.names = Remember(run, answer, answer.marked),
                             !.retried = FALSE]
    BY DEF AlignBatch
  <1> DEFINE x     == Align(run, answer)
             names == Remember(run, answer, answer.marked)
  <1>5. Made(x, b, run.guide, names)
    BY <1>2, <1>3, AlignMade
  <1>6. /\ names \in Glossary
        /\ \A t \in Term : run.names[t] # Unknown => names[t] = run.names[t]
        /\ \A t \in Term : names[t] # Unknown => Required(run.guide)[t] \in {Unknown, names[t]}
    <2>1. answer.marked \in SUBSET answer.marked
      OBVIOUS
    <2> QED BY <1>2, <1>3, <2>1, RememberFacts
  <1> HIDE DEF x, names, b
  <1>7. run.ready \in Seq(Rendering) /\ x \in Rendering
    BY <1>2, <1>5 DEF RunRecord, Made
  <1>8. /\ run' \in RunRecord /\ run'.ready = Append(run.ready, x) /\ run'.names = names
        /\ run'.phase = run.phase /\ run'.window = run.window
        /\ run'.guide = run.guide /\ run'.required = run.required
        /\ run'.glossary = run.glossary /\ run'.text = run.text
        /\ run'.reviewed = run.reviewed /\ run'.final = run.final
        /\ run'.resumed = run.resumed
    <2>1. Append(run.ready, x) \in Seq(Rendering)
      BY <1>7, AppendProperties
    <2> QED BY <1>2, <1>4, <1>6, <2>1 DEF RunRecord, x, names
  <1>9. Sound(run')
    BY <1>2, <1>6, <1>8, SoundNames, ZenonT(40) DEF Sound
  <1>10. /\ Len(run'.ready) = Len(run.ready) + 1
         /\ \A i \in 1..Len(run.ready) : run'.ready[i] = run.ready[i]
         /\ run'.ready[Len(run.ready) + 1] = x
    BY <1>7, <1>8, AppendProperties
  <1>11. WindowOK(run')
    <2>1. ASSUME NEW i \in 1..Len(run'.ready)
          PROVE  Made(run'.ready[i], Len(run.text) + i, run.guide, names)
      <3>1. CASE i = Len(run.ready) + 1
        BY <1>3, <1>5, <1>10, <3>1
      <3>2. CASE i # Len(run.ready) + 1
        <4>1. i \in 1..Len(run.ready)
          BY <1>10, <3>2, Lengths
        <4>2. Made(run.ready[i], Len(run.text) + i, run.guide, run.names)
          BY <1>2, <4>1 DEF WindowOK
        <4>3. Len(run.text) + i \in BatchNo
          BY <4>1, WindowBounds
        <4> QED BY <1>6, <1>10, <4>1, <4>2, <4>3, MadeMonotone
      <3> QED BY <3>1, <3>2
    <2>2. Len(run.text) + run.window <= Len(TermsIn)
      BY <1>1, <1>2 DEF WindowOK
    <2>3. Len(run'.ready) <= run.window /\ Len(run.text) + Len(run'.ready) <= Len(TermsIn)
      BY <1>1, <1>10, WindowBounds
    <2> QED BY <1>1, <1>8, <2>1, <2>2, <2>3 DEF WindowOK
  <1>12. StageOK(run')
    BY <1>1, <1>2, <1>8 DEF StageOK, Reviewing
  <1>13. RunOK(run')
    BY <1>2, <1>8, <1>9, <1>11, <1>12 DEF RunOK
  <1> QED BY <1>1, <1>8, <1>13 DEF TranslationInv, SavedInv, ReportInv, ReportCoversReview

\* A rejected answer leaves only names behind.
LEMMA RejectAnswerStep ==
  ASSUME TranslationInv, RejectAnswer
  PROVE  TranslationInv'
PROOF
  <1> DEFINE b == NextAnswered
  <1>1. /\ run.phase = "translate" /\ Len(run.ready) < run.window
        /\ UNCHANGED <<saved, glossaryFile, report, edits>>
    BY DEF RejectAnswer
  <1>2. /\ run \in RunRecord /\ Sound(run) /\ run.required = Required(run.guide)
        /\ WindowOK(run) /\ StageOK(run)
    BY DEF TranslationInv, RunOK
  <1>3. b \in BatchNo
    BY <1>1, WindowBounds
  <1>4. PICK answer \in Answers(b) :
          \E before \in SUBSET (answer.marked \ Untranslated(answer)) :
            run' = [run EXCEPT !.names = Remember(run, answer, before), !.retried = TRUE]
    BY DEF RejectAnswer
  <1>5. PICK before \in SUBSET (answer.marked \ Untranslated(answer)) :
          run' = [run EXCEPT !.names = Remember(run, answer, before), !.retried = TRUE]
    BY <1>4
  <1> DEFINE names == Remember(run, answer, before)
  <1>6. /\ names \in Glossary
        /\ \A t \in Term : run.names[t] # Unknown => names[t] = run.names[t]
        /\ \A t \in Term : names[t] # Unknown => Required(run.guide)[t] \in {Unknown, names[t]}
    <2>1. before \in SUBSET answer.marked
      OBVIOUS
    <2> QED BY <1>2, <1>3, <2>1, RememberFacts
  <1> HIDE DEF names, b
  <1>7. /\ run' \in RunRecord /\ run'.ready = run.ready /\ run'.names = names
        /\ run'.phase = run.phase /\ run'.window = run.window
        /\ run'.guide = run.guide /\ run'.required = run.required
        /\ run'.glossary = run.glossary /\ run'.text = run.text
        /\ run'.reviewed = run.reviewed /\ run'.final = run.final
        /\ run'.resumed = run.resumed
    BY <1>2, <1>5, <1>6 DEF RunRecord, names
  <1>8. Sound(run')
    <2>1. \A t \in Term : run'.names[t] # Unknown =>
            Required(run'.guide)[t] \in {Unknown, run'.names[t]}
      BY <1>6, <1>7
    <2> QED BY <1>2, <1>6, <1>7, <2>1, SoundNames
  <1>9. WindowOK(run')
    <2>1. ASSUME NEW i \in 1..Len(run.ready)
          PROVE  Made(run.ready[i], Len(run.text) + i, run.guide, names)
      <3>1. Made(run.ready[i], Len(run.text) + i, run.guide, run.names)
        BY <1>2 DEF WindowOK
      <3>2. Len(run.text) + i \in BatchNo
        BY WindowBounds
      <3> QED BY <1>6, <3>1, <3>2, MadeMonotone
    <2> QED BY <1>2, <1>7, <2>1 DEF WindowOK
  <1>10. StageOK(run')
    BY <1>1, <1>2, <1>7 DEF StageOK, Reviewing
  <1>11. RunOK(run')
    BY <1>2, <1>7, <1>8, <1>9, <1>10 DEF RunOK
  <1> QED BY <1>1, <1>7, <1>11 DEF TranslationInv, SavedInv, ReportInv, ReportCoversReview

\* An accepted window is full and not empty.
LEMMA AcceptWindowStep ==
  ASSUME TranslationInv, AcceptWindow
  PROVE  TranslationInv'
PROOF
  <1> USE DEF TranslationInv
  <1>1. /\ run.phase = "translate" /\ run.window > 0 /\ Len(run.ready) = run.window
        /\ run' = [run EXCEPT !.phase = "apply"]
        /\ UNCHANGED <<saved, glossaryFile, report, edits>>
    BY DEF AcceptWindow
  <1>2. /\ run \in RunRecord /\ Sound(run) /\ run.required = Required(run.guide)
        /\ WindowOK(run) /\ StageOK(run)
    BY DEF RunOK
  <1>3. /\ run' \in RunRecord /\ run'.ready = run.ready /\ run'.names = run.names
        /\ run'.phase = "apply" /\ run'.window = run.window
        /\ run'.guide = run.guide /\ run'.required = run.required
        /\ run'.glossary = run.glossary /\ run'.text = run.text
        /\ run'.reviewed = run.reviewed /\ run'.final = run.final
        /\ run'.resumed = run.resumed
    BY <1>1, <1>2 DEF RunRecord, Phase
  <1>4. Sound(run')
    BY <1>2, <1>3 DEF Sound
  <1>5. run.ready # << >>
    BY <1>1, EmptySeq, Lengths
  <1>6. WindowOK(run')
    BY <1>2, <1>3, <1>5 DEF WindowOK
  <1>7. StageOK(run')
    BY <1>1, <1>2, <1>3 DEF StageOK, Reviewing
  <1>8. RunOK(run')
    BY <1>2, <1>3, <1>4, <1>6, <1>7 DEF RunOK
  <1> QED BY <1>1, <1>3, <1>8 DEF SavedInv, ReportInv, ReportCoversReview, Reviewing

\* An applied batch moves from the window to the text; its names are learned.
LEMMA ApplyBatchStep ==
  ASSUME TranslationInv, ApplyBatch
  PROVE  TranslationInv'
PROOF
  <1> DEFINE x == Head(run.ready)
             n == Len(run.text)
             m == Len(run.ready)
             g == Learn(run.glossary, x)
  <1>1. /\ run.phase = "apply"
        /\ run' = [run EXCEPT !.text = Append(@, x), !.ready = Tail(@),
                              !.glossary = g, !.phase = "commit"]
        /\ glossaryFile' = g
        /\ UNCHANGED <<saved, report, edits>>
    BY DEF ApplyBatch
  <1>2. /\ run \in RunRecord /\ Sound(run) /\ run.required = Required(run.guide)
        /\ WindowOK(run) /\ StageOK(run)
    BY DEF TranslationInv, RunOK
  <1>3. run.ready \in Seq(Rendering) /\ run.ready # << >> /\ run.text \in Seq(Rendering)
        /\ run.glossary \in Glossary
    BY <1>1, <1>2 DEF RunRecord, WindowOK
  <1>4. n \in Nat /\ m \in Nat \ {0} /\ Len(TermsIn) \in Nat /\ n + m <= Len(TermsIn)
        /\ run.window \in Nat /\ m <= run.window
    BY <1>3, EmptySeq, Lengths, WindowBounds
  <1>5. /\ Tail(run.ready) \in Seq(Rendering) /\ Len(Tail(run.ready)) = m - 1
        /\ \A i \in 1..(m - 1) : Tail(run.ready)[i] = run.ready[i + 1]
    BY <1>3, HeadTailProperties
  <1>6. x = run.ready[1] /\ 1 \in 1..m
    BY <1>3, <1>4
  <1>7. Made(x, n + 1, run.guide, run.names)
    BY <1>2, <1>6 DEF WindowOK
  <1>8. n + 1 \in BatchNo /\ n < Len(TermsIn)
    <2> HIDE DEF n, m
    <2> QED BY <1>4 DEF BatchNo
  <1>9. g \in Glossary
    BY <1>3, <1>7, <1>8, LearnType
  <1>10. Append(run.text, x) \in Seq(Rendering) /\ Len(Append(run.text, x)) = n + 1
    BY <1>3, <1>7, AppendProperties DEF Made
  <1> HIDE DEF x, g
  <1>11. /\ run' \in RunRecord /\ run'.text = Append(run.text, x)
         /\ run'.ready = Tail(run.ready) /\ run'.glossary = g /\ run'.phase = "commit"
         /\ run'.names = run.names /\ run'.window = run.window
         /\ run'.guide = run.guide /\ run'.required = run.required
         /\ run'.reviewed = run.reviewed /\ run'.final = run.final
         /\ run'.resumed = run.resumed
    BY <1>1, <1>2, <1>5, <1>9, <1>10 DEF RunRecord, Phase
  <1>12. Sound(run')
    BY <1>2, <1>7, <1>8, <1>9, <1>11, SoundText
  <1>13. WindowOK(run')
    <2>1. Len(run'.text) = n + 1 /\ Len(run'.ready) = m - 1
      BY <1>5, <1>10, <1>11
    <2>2. ASSUME NEW i \in 1..(m - 1)
          PROVE  Made(run'.ready[i], Len(run'.text) + i, run'.guide, run'.names)
      <3>1. i + 1 \in 1..m /\ (n + 1) + i = n + (i + 1)
        <4> HIDE DEF n, m
        <4> QED BY <1>4
      <3>2. Made(run.ready[i + 1], n + (i + 1), run.guide, run.names)
        BY <1>2, <3>1 DEF WindowOK
      <3> QED BY <1>5, <1>11, <2>1, <3>1, <3>2
    <2>3. m - 1 <= run.window /\ (n + 1) + (m - 1) <= Len(TermsIn)
      <3> HIDE DEF n, m
      <3> QED BY <1>4
    <2> HIDE DEF n, m
    <2> QED BY <1>11, <2>1, <2>2, <2>3 DEF WindowOK
  <1>14. StageOK(run')
    BY <1>1, <1>2, <1>11 DEF StageOK, Reviewing
  <1>15. RunOK(run')
    BY <1>2, <1>11, <1>12, <1>13, <1>14 DEF RunOK
  <1> QED BY <1>1, <1>9, <1>11, <1>15
          DEF TranslationInv, SavedInv, ReportInv, ReportCoversReview, Reviewing

\* A commit during translation keeps what was resumed of the review.
LEMMA CommitBatchStep ==
  ASSUME TranslationInv, CommitBatch
  PROVE  TranslationInv'
PROOF
  <1> DEFINE s == Checkpoint(run, run.resumed.reviewed, FALSE)
  <1>1. /\ run.phase = "commit" /\ saved' = s
        /\ run' = IF run.ready = << >>
                  THEN [run EXCEPT !.phase = "translate", !.window = 0]
                  ELSE [run EXCEPT !.phase = "apply"]
        /\ UNCHANGED <<glossaryFile, report, edits>>
    BY DEF CommitBatch
  <1>2. /\ run \in RunRecord /\ Sound(run) /\ run.required = Required(run.guide)
        /\ WindowOK(run) /\ StageOK(run) /\ ReportInv
    BY DEF TranslationInv, RunOK
  <1>3. run.resumed.reviewed = Len(run.reviewed) /\ run.resumed.reviewed \in 0..Len(run.reviewed)
    BY <1>1, <1>2, Lengths DEF StageOK
  <1>4. SavedOK(s) /\ Len(s.reviewed) = Len(run.reviewed) /\ s.guide = run.guide
    BY <1>2, <1>3, CheckpointOK DEF Checkpoint
  <1> HIDE DEF s
  <1>5. 0 \in 0..Window
    BY ConstantFacts
  <1>6. /\ run' \in RunRecord /\ run'.ready = run.ready /\ run'.names = run.names
        /\ run'.guide = run.guide /\ run'.required = run.required
        /\ run'.glossary = run.glossary /\ run'.text = run.text
        /\ run'.reviewed = run.reviewed /\ run'.final = run.final
        /\ run'.resumed = run.resumed
        /\ IF run.ready = << >> THEN run'.phase = "translate" /\ run'.window = 0
                                ELSE run'.phase = "apply" /\ run'.window = run.window
    BY <1>1, <1>2, <1>5 DEF RunRecord, Phase
  <1>7. Sound(run')
    BY <1>2, <1>6 DEF Sound
  <1>8. WindowOK(run')
    <2>1. CASE run.ready = << >>
      <3>1. Len(run.ready) = 0 /\ Len(run.text) <= Len(TermsIn) /\ Len(run.text) \in Nat
        BY <1>2, <2>1, EmptySeq, Lengths DEF Sound
      <3>2. Len(run.text) + 0 <= Len(TermsIn) /\ 1..0 = {}
        BY <3>1
      <3> QED BY <1>6, <2>1, <3>1, <3>2 DEF WindowOK
    <2>2. CASE run.ready # << >>
      BY <1>2, <1>6, <2>2 DEF WindowOK
    <2> QED BY <2>1, <2>2
  <1>9. StageOK(run')
    BY <1>1, <1>2, <1>6 DEF StageOK, Reviewing
  <1>10. RunOK(run')
    BY <1>2, <1>6, <1>7, <1>8, <1>9 DEF RunOK
  <1>11. ReportInv'
    <2>1. run'.phase \notin Reviewing
      BY <1>6 DEF Reviewing
    <2>2. s.reviewed # << >> => run.reviewed # << >>
      <3>1. s.reviewed \in Seq(AnyWords) /\ run.reviewed \in Seq(AnyWords)
        BY <1>2, <1>4 DEF SavedOK, Sound
      <3> QED BY <1>4, <3>1, EmptySeq
    <2> QED BY <1>1, <1>2, <1>4, <1>6, <2>1, <2>2 DEF ReportInv, ReportCoversReview
  <1> QED BY <1>1, <1>4, <1>10, <1>11 DEF TranslationInv, SavedInv

\* Translation ends with every batch applied and the window empty.
LEMMA EndTranslationStep ==
  ASSUME TranslationInv, EndTranslation
  PROVE  TranslationInv'
PROOF
  <1> DEFINE s == Checkpoint(run, run.resumed.reviewed, run.resumed.final)
  <1>1. /\ run.phase = "translate" /\ run.window = 0 /\ Len(run.text) = Len(TermsIn)
        /\ saved' = s /\ run' = [run EXCEPT !.phase = "review"]
        /\ UNCHANGED <<glossaryFile, report, edits>>
    BY DEF EndTranslation, BatchesDone
  <1>2. /\ run \in RunRecord /\ Sound(run) /\ run.required = Required(run.guide)
        /\ WindowOK(run) /\ StageOK(run) /\ ReportInv
    BY DEF TranslationInv, RunOK
  <1>3. /\ run.resumed.reviewed = Len(run.reviewed)
        /\ run.resumed.reviewed \in 0..Len(run.reviewed)
        /\ run.resumed.final \in BOOLEAN
        /\ run.resumed.final => Validated(run.guide, run.final)
    BY <1>1, <1>2, Lengths DEF StageOK, RunRecord
  <1>4. SavedOK(s) /\ Len(s.reviewed) = Len(run.reviewed) /\ s.guide = run.guide
    <2>1. SavedOK(s) /\ Len(s.reviewed) = run.resumed.reviewed
      BY <1>2, <1>3, CheckpointOK
    <2> QED BY <1>3, <2>1 DEF Checkpoint
  <1> HIDE DEF s
  <1>5. /\ run' \in RunRecord /\ run'.phase = "review"
        /\ run'.ready = run.ready /\ run'.names = run.names /\ run'.window = run.window
        /\ run'.guide = run.guide /\ run'.required = run.required
        /\ run'.glossary = run.glossary /\ run'.text = run.text
        /\ run'.reviewed = run.reviewed /\ run'.final = run.final
        /\ run'.resumed = run.resumed
    BY <1>1, <1>2 DEF RunRecord, Phase
  <1>6. Sound(run')
    BY <1>2, <1>5 DEF Sound
  <1>7. WindowOK(run')
    BY <1>2, <1>5 DEF WindowOK
  <1>8. run.ready = << >>
    <2>1. Len(run.ready) = 0 /\ run.ready \in Seq(Rendering)
      BY <1>1, <1>2, Lengths DEF WindowOK, RunRecord
    <2> QED BY <2>1, EmptySeq
  <1>9. StageOK(run')
    BY <1>1, <1>2, <1>5, <1>8 DEF StageOK, Reviewing
  <1>10. RunOK(run')
    BY <1>2, <1>5, <1>6, <1>7, <1>9 DEF RunOK
  <1>11. ReportInv'
    <2>1. s.reviewed # << >> => run.reviewed # << >>
      <3>1. s.reviewed \in Seq(AnyWords) /\ run.reviewed \in Seq(AnyWords)
        BY <1>2, <1>4 DEF SavedOK, Sound
      <3> QED BY <1>4, <3>1, EmptySeq
    <2>2. Len(s.reviewed) <= Len(run.reviewed)
      BY <1>4, Lengths
    <2> QED BY <1>1, <1>2, <1>4, <1>5, <2>1, <2>2 DEF ReportInv, ReportCoversReview
  <1> QED BY <1>1, <1>4, <1>10, <1>11 DEF TranslationInv, SavedInv

\* A reviewed batch is in the report before any checkpoint counts it.
LEMMA ReviewBatchStep ==
  ASSUME TranslationInv, ReviewBatch
  PROVE  TranslationInv'
PROOF
  <1> DEFINE n == Len(run.reviewed)
             b == ReviewPlan[n + 1]
  <1>1. /\ run.phase = "review" /\ n < Len(ReviewPlan)
        /\ report' = [guide |-> run.guide, covers |-> Len(run'.reviewed)]
        /\ UNCHANGED <<saved, glossaryFile, edits>>
    BY DEF ReviewBatch
  <1>2. PICK proposed \in Words(b) :
          run' = [run EXCEPT
                    !.reviewed = Append(@, KeepSafe(run, run.text[b].word, proposed)),
                    !.phase = "commitReview"]
    BY DEF ReviewBatch
  <1> DEFINE w == KeepSafe(run, run.text[b].word, proposed)
  <1>3. /\ run \in RunRecord /\ Sound(run) /\ run.required = Required(run.guide)
        /\ WindowOK(run) /\ StageOK(run) /\ ReportInv
    BY DEF TranslationInv, RunOK
  <1>4. n \in Nat /\ Len(ReviewPlan) \in Nat /\ n + 1 \in 1..Len(ReviewPlan)
    <2>1. n \in Nat /\ Len(ReviewPlan) \in Nat
      BY Lengths
    <2> HIDE DEF n
    <2> QED BY <1>1, <2>1
  <1>5. b \in BatchNo /\ b \in 1..Len(run.text)
    BY <1>1, <1>3, <1>4, ConstantFacts DEF BatchNo, StageOK, Reviewing
  <1>6. run.text[b].word \in Words(b)
    BY <1>3, <1>5 DEF Sound, Made
  <1>7. w \in Words(b) /\ w \in AnyWords
    <2> HIDE DEF b
    <2>1. \A t \in TermsIn[b] : run.text[b].word[t] \in Target /\ proposed[t] \in Target
      BY <1>6, WordFacts
    <2>2. DOMAIN run.text[b].word = TermsIn[b]
      BY <1>6, WordFacts
    <2>3. w \in Words(b)
      BY <2>1, <2>2 DEF KeepSafe, Words
    <2> QED BY <1>5, <2>3, ConstantFacts
  <1> HIDE DEF w
  <1>8. /\ run' \in RunRecord /\ run'.phase = "commitReview"
        /\ run'.reviewed = Append(run.reviewed, w)
        /\ run'.ready = run.ready /\ run'.names = run.names /\ run'.window = run.window
        /\ run'.guide = run.guide /\ run'.required = run.required
        /\ run'.glossary = run.glossary /\ run'.text = run.text
        /\ run'.final = run.final /\ run'.resumed = run.resumed
    <2>1. Append(run.reviewed, w) \in Seq(AnyWords)
      BY <1>3, <1>7, AppendProperties DEF RunRecord
    <2> QED BY <1>2, <1>3, <2>1 DEF RunRecord, Phase, w
  <1>9. Sound(run') /\ Len(run'.reviewed) = n + 1
    BY <1>1, <1>3, <1>7, <1>8, SoundReviewed
  <1>10. WindowOK(run')
    BY <1>1, <1>3, <1>8 DEF WindowOK
  <1>11. n <= Len(run'.reviewed) /\ n + 1 <= Len(ReviewPlan) /\ n + 1 \in 0..Len(ReviewPlan)
    <2> HIDE DEF n
    <2> QED BY <1>4, <1>9
  <1>12. StageOK(run')
    <2>1. run.resumed.reviewed <= Len(run'.reviewed)
      <3>1. run.resumed.reviewed <= n /\ run.resumed.reviewed \in Nat
        BY <1>3, Lengths DEF StageOK
      <3> HIDE DEF n
      <3> QED BY <1>4, <1>9, <3>1
    <2> QED BY <1>1, <1>3, <1>8, <2>1 DEF StageOK, Reviewing
  <1>13. RunOK(run')
    BY <1>3, <1>8, <1>9, <1>10, <1>12 DEF RunOK
  <1>14. ReportInv'
    <2>1. saved # NoState => saved.guide = run.guide /\ Len(saved.reviewed) <= n + 1
      <3>1. saved # NoState => saved.guide = run.guide /\ Len(saved.reviewed) <= n
        BY <1>1, <1>3 DEF ReportInv, Reviewing
      <3>2. saved # NoState => Len(saved.reviewed) \in Nat
        BY LenProperties DEF TranslationInv, SavedInv, SavedOK, Sound
      <3> HIDE DEF n
      <3> QED BY <1>4, <3>1, <3>2
    <2>2. report' = [guide |-> run.guide, covers |-> n + 1]
      BY <1>1, <1>9
    <2>3. report' \in [guide : Glossary, covers : 0..Len(ReviewPlan)]
      BY <1>3, <1>11, <2>2 DEF RunRecord
    <2>4. n + 1 >= n + 1
      BY <1>4
    <2> HIDE DEF n
    <2> QED BY <1>1, <1>8, <1>9, <2>1, <2>2, <2>3, <2>4 DEF ReportInv, ReportCoversReview
  <1> QED BY <1>1, <1>13, <1>14 DEF TranslationInv, SavedInv

\* The checkpoint of a reviewed batch counts what the report covers.
LEMMA CommitReviewStep ==
  ASSUME TranslationInv, CommitReview
  PROVE  TranslationInv'
PROOF
  <1> DEFINE s == Checkpoint(run, Len(run.reviewed), FALSE)
  <1>1. /\ run.phase = "commitReview" /\ saved' = s
        /\ run' = [run EXCEPT !.phase = "review"]
        /\ UNCHANGED <<glossaryFile, report, edits>>
    BY DEF CommitReview
  <1>2. /\ run \in RunRecord /\ Sound(run) /\ run.required = Required(run.guide)
        /\ WindowOK(run) /\ StageOK(run) /\ ReportInv
    BY DEF TranslationInv, RunOK
  <1>3. Len(run.reviewed) \in 0..Len(run.reviewed) /\ Len(run.reviewed) \in Nat
    BY Lengths
  <1>4. SavedOK(s) /\ Len(s.reviewed) = Len(run.reviewed) /\ s.guide = run.guide
    BY <1>2, <1>3, CheckpointOK DEF Checkpoint
  <1> HIDE DEF s
  <1>5. /\ run' \in RunRecord /\ run'.phase = "review"
        /\ run'.ready = run.ready /\ run'.names = run.names /\ run'.window = run.window
        /\ run'.guide = run.guide /\ run'.required = run.required
        /\ run'.glossary = run.glossary /\ run'.text = run.text
        /\ run'.reviewed = run.reviewed /\ run'.final = run.final
        /\ run'.resumed = run.resumed
    BY <1>1, <1>2 DEF RunRecord, Phase
  <1>6. Sound(run') /\ WindowOK(run') /\ StageOK(run')
    BY <1>1, <1>2, <1>5 DEF Sound, WindowOK, StageOK, Reviewing
  <1>7. RunOK(run')
    BY <1>2, <1>5, <1>6 DEF RunOK
  <1>8. ReportInv'
    <2>1. s.reviewed # << >> => run.reviewed # << >>
      <3>1. s.reviewed \in Seq(AnyWords) /\ run.reviewed \in Seq(AnyWords)
        BY <1>2, <1>4 DEF SavedOK, Sound
      <3> QED BY <1>4, <3>1, EmptySeq
    <2>2. Len(s.reviewed) <= Len(run.reviewed)
      BY <1>3, <1>4
    <2> QED BY <1>1, <1>2, <1>4, <1>5, <2>1, <2>2 DEF ReportInv, ReportCoversReview
  <1> QED BY <1>1, <1>4, <1>7, <1>8 DEF TranslationInv, SavedInv

\* The last report covers the whole plan.
LEMMA FinishReportStep ==
  ASSUME TranslationInv, FinishReport
  PROVE  TranslationInv'
PROOF
  <1>1. /\ run.phase = "review" /\ Len(run.reviewed) = Len(ReviewPlan)
        /\ report' = [guide |-> run.guide, covers |-> Len(ReviewPlan)]
        /\ run' = [run EXCEPT !.phase = "endReview"]
        /\ UNCHANGED <<saved, glossaryFile, edits>>
    BY DEF FinishReport
  <1>2. /\ run \in RunRecord /\ Sound(run) /\ run.required = Required(run.guide)
        /\ WindowOK(run) /\ StageOK(run) /\ ReportInv
    BY DEF TranslationInv, RunOK
  <1>3. /\ run' \in RunRecord /\ run'.phase = "endReview"
        /\ run'.ready = run.ready /\ run'.names = run.names /\ run'.window = run.window
        /\ run'.guide = run.guide /\ run'.required = run.required
        /\ run'.glossary = run.glossary /\ run'.text = run.text
        /\ run'.reviewed = run.reviewed /\ run'.final = run.final
        /\ run'.resumed = run.resumed
    BY <1>1, <1>2 DEF RunRecord, Phase
  <1>4. Sound(run') /\ WindowOK(run') /\ StageOK(run')
    BY <1>1, <1>2, <1>3 DEF Sound, WindowOK, StageOK, Reviewing
  <1>5. RunOK(run')
    BY <1>2, <1>3, <1>4 DEF RunOK
  <1>6. ReportInv'
    <2>1. report' \in [guide : Glossary, covers : 0..Len(ReviewPlan)]
      BY <1>1, <1>2, ConstantFacts DEF RunRecord
    <2>2. Len(ReviewPlan) >= Len(ReviewPlan)
      BY ConstantFacts
    <2>3. saved # NoState => saved.guide = run.guide /\ Len(saved.reviewed) <= Len(ReviewPlan)
      BY <1>1, <1>2 DEF ReportInv, Reviewing
    <2> QED BY <1>1, <1>3, <2>1, <2>2, <2>3 DEF ReportInv, ReportCoversReview
  <1> QED BY <1>1, <1>5, <1>6 DEF TranslationInv, SavedInv

\* The end of the review saves all of it, and the validation that was resumed.
LEMMA EndReviewStep ==
  ASSUME TranslationInv, EndReview
  PROVE  TranslationInv'
PROOF
  <1> DEFINE s == Checkpoint(run, Len(ReviewPlan), run.resumed.final)
  <1>1. /\ run.phase = "endReview" /\ saved' = s
        /\ run' = [run EXCEPT !.phase = "finalize"]
        /\ UNCHANGED <<glossaryFile, report, edits>>
    BY DEF EndReview
  <1>2. /\ run \in RunRecord /\ Sound(run) /\ run.required = Required(run.guide)
        /\ WindowOK(run) /\ StageOK(run) /\ ReportInv
    BY DEF TranslationInv, RunOK
  <1>3. /\ Len(run.reviewed) = Len(ReviewPlan) /\ Len(ReviewPlan) \in 0..Len(run.reviewed)
        /\ run.resumed.final \in BOOLEAN
        /\ run.resumed.final => Validated(run.guide, run.final)
        /\ Len(run.reviewed) \in Nat
    BY <1>1, <1>2, Lengths DEF StageOK, RunRecord
  <1>4. SavedOK(s) /\ Len(s.reviewed) = Len(run.reviewed) /\ s.guide = run.guide
    <2>1. SavedOK(s) /\ Len(s.reviewed) = Len(ReviewPlan)
      BY <1>2, <1>3, CheckpointOK
    <2> QED BY <1>3, <2>1 DEF Checkpoint
  <1> HIDE DEF s
  <1>5. /\ run' \in RunRecord /\ run'.phase = "finalize"
        /\ run'.ready = run.ready /\ run'.names = run.names /\ run'.window = run.window
        /\ run'.guide = run.guide /\ run'.required = run.required
        /\ run'.glossary = run.glossary /\ run'.text = run.text
        /\ run'.reviewed = run.reviewed /\ run'.final = run.final
        /\ run'.resumed = run.resumed
    BY <1>1, <1>2 DEF RunRecord, Phase
  <1>6. Sound(run') /\ WindowOK(run') /\ StageOK(run')
    BY <1>1, <1>2, <1>5 DEF Sound, WindowOK, StageOK, Reviewing
  <1>7. RunOK(run')
    BY <1>2, <1>5, <1>6 DEF RunOK
  <1>8. ReportInv'
    <2>1. s.reviewed # << >> => run.reviewed # << >>
      <3>1. s.reviewed \in Seq(AnyWords) /\ run.reviewed \in Seq(AnyWords)
        BY <1>2, <1>4 DEF SavedOK, Sound
      <3> QED BY <1>4, <3>1, EmptySeq
    <2>2. Len(s.reviewed) <= Len(run.reviewed)
      BY <1>3, <1>4
    <2> QED BY <1>1, <1>2, <1>4, <1>5, <2>1, <2>2 DEF ReportInv, ReportCoversReview
  <1> QED BY <1>1, <1>4, <1>7, <1>8 DEF TranslationInv, SavedInv

\* The final output is saved as validated only when it honours the guide.
LEMMA FinalizeStep ==
  ASSUME TranslationInv, Finalize
  PROVE  TranslationInv'
PROOF
  <1> DEFINE output == IF run.resumed.final THEN run.final ELSE Output(run)
  <1>1. /\ run.phase = "finalize" /\ UNCHANGED <<glossaryFile, report, edits>>
        /\ \E final \in Repairs(run, output) :
             /\ \A b \in BatchNo : Honours(run, final[b])
             /\ run' = [run EXCEPT !.final = final, !.phase = "done"]
             /\ saved' = Checkpoint(run', Len(ReviewPlan), TRUE)
    BY DEF Finalize
  <1>2. PICK final \in Outputs :
             /\ \A b \in BatchNo : Honours(run, final[b])
             /\ run' = [run EXCEPT !.final = final, !.phase = "done"]
             /\ saved' = Checkpoint(run', Len(ReviewPlan), TRUE)
    BY <1>1 DEF Repairs
  <1>3. /\ run \in RunRecord /\ Sound(run) /\ run.required = Required(run.guide)
        /\ WindowOK(run) /\ StageOK(run) /\ ReportInv
    BY DEF TranslationInv, RunOK
  <1>4. Validated(run.guide, final)
    <2>1. \A b \in BatchNo : DOMAIN final[b] = TermsIn[b]
      BY WordFacts DEF Outputs
    <2> QED BY <1>2, <1>3, <2>1 DEF Validated, Honours
  <1>5. /\ run' \in RunRecord /\ run'.phase = "done" /\ run'.final = final
        /\ run'.ready = run.ready /\ run'.names = run.names /\ run'.window = run.window
        /\ run'.guide = run.guide /\ run'.required = run.required
        /\ run'.glossary = run.glossary /\ run'.text = run.text
        /\ run'.reviewed = run.reviewed /\ run'.resumed = run.resumed
    BY <1>2, <1>3 DEF RunRecord, Phase
  <1>6. Sound(run')
    BY <1>3, <1>5 DEF Sound
  <1>7. WindowOK(run')
    BY <1>1, <1>3, <1>5 DEF WindowOK
  <1>8. StageOK(run')
    BY <1>1, <1>3, <1>4, <1>5 DEF StageOK, Reviewing
  <1>9. RunOK(run')
    BY <1>3, <1>5, <1>6, <1>7, <1>8 DEF RunOK
  <1>10. /\ Len(run'.reviewed) = Len(ReviewPlan) /\ Len(ReviewPlan) \in Nat
         /\ Len(ReviewPlan) \in 0..Len(run'.reviewed)
    BY <1>1, <1>3, <1>5, Lengths DEF StageOK
  <1>11. SavedOK(saved') /\ Len(saved'.reviewed) = Len(ReviewPlan)
         /\ saved'.guide = run.guide
    <2>1. Validated(run'.guide, run'.final)
      BY <1>4, <1>5
    <2>2. SavedOK(Checkpoint(run', Len(ReviewPlan), TRUE))
          /\ Len(Checkpoint(run', Len(ReviewPlan), TRUE).reviewed) = Len(ReviewPlan)
      BY <1>6, <1>10, <2>1, CheckpointOK
    <2>3. Checkpoint(run', Len(ReviewPlan), TRUE).guide = run'.guide
      BY DEF Checkpoint
    <2> QED BY <1>2, <1>5, <2>2, <2>3
  <1>12. ReportInv'
    <2>1. saved'.reviewed # << >> => run'.reviewed # << >>
      <3>1. saved'.reviewed \in Seq(AnyWords) /\ run'.reviewed \in Seq(AnyWords)
        BY <1>6, <1>11 DEF SavedOK, Sound
      <3> QED BY <1>10, <1>11, <3>1, EmptySeq
    <2>2. Len(saved'.reviewed) = Len(run'.reviewed) /\ Len(run'.reviewed) <= Len(run'.reviewed)
      BY <1>10, <1>11
    <2> QED BY <1>1, <1>3, <1>5, <1>11, <2>1, <2>2 DEF ReportInv, ReportCoversReview
  <1> QED BY <1>1, <1>9, <1>11, <1>12 DEF TranslationInv, SavedInv

\* No run in progress: nothing is asked for or resumed.
LEMMA IdleRunOK == RunOK(IdleRun)
PROOF
  <1>1. IdleRun \in RunRecord /\ Sound(IdleRun)
        /\ IdleRun.required = Required(IdleRun.guide)
    BY FreshSound, ConstantFacts
  <1>2. /\ IdleRun.phase = "idle" /\ IdleRun.ready = << >> /\ IdleRun.window = 0
        /\ IdleRun.text = << >> /\ IdleRun.reviewed = << >>
        /\ IdleRun.resumed = [reviewed |-> 0, final |-> FALSE]
    BY DEF IdleRun
  <1>3. Len(<< >>) = 0 /\ 1..0 = {} /\ Len(TermsIn) \in Nat
    BY EmptySeq, ConstantFacts
  <1>4. WindowOK(IdleRun) /\ StageOK(IdleRun)
    BY <1>2, <1>3 DEF WindowOK, StageOK, Reviewing
  <1> QED BY <1>1, <1>4 DEF RunOK

\* A stopped run leaves the checkpoint, the glossary file and the report.
LEMMA StopStep ==
  ASSUME TranslationInv, Stop
  PROVE  TranslationInv'
PROOF
  <1>1. run' = IdleRun /\ UNCHANGED <<saved, glossaryFile, report, edits>>
    BY DEF Stop
  <1>2. RunOK(IdleRun)
    BY IdleRunOK
  <1>3. ReportInv'
    <2>1. IdleRun.phase = "idle" /\ IdleRun.reviewed = << >>
      BY DEF IdleRun
    <2> QED BY <1>1, <2>1 DEF TranslationInv, ReportInv, ReportCoversReview, Reviewing
  <1> QED BY <1>1, <1>2, <1>3 DEF TranslationInv, SavedInv

\* Another writer of the glossary file touches nothing else.
LEMMA WriteGlossaryStep ==
  ASSUME TranslationInv, WriteGlossary
  PROVE  TranslationInv'
PROOF
  <1>1. /\ edits < MaxEdits /\ edits' = edits + 1 /\ glossaryFile' \in OtherGlossary
        /\ UNCHANGED <<saved, report, run>>
    BY DEF WriteGlossary
  <1>2. glossaryFile' \in Glossary /\ edits' \in 0..MaxEdits
    BY <1>1, ConstantsAssumption DEF TranslationInv
  <1> QED BY <1>1, <1>2 DEF TranslationInv, SavedInv, ReportInv, ReportCoversReview

\* Nothing is saved and nothing runs at first.
LEMMA TranslationInit ==
  ASSUME Init
  PROVE  TranslationInv
PROOF
  <1>1. /\ saved = NoState /\ glossaryFile \in Glossary /\ report = NoReport
        /\ run = IdleRun /\ edits \in 0..MaxEdits
    BY ConstantsAssumption DEF Init
  <1>2. RunOK(IdleRun)
    BY IdleRunOK
  <1>3. NoReport \in [guide : Glossary, covers : 0..Len(ReviewPlan)]
    BY ConstantFacts DEF NoReport
  <1>4. IdleRun.phase = "idle" /\ IdleRun.reviewed = << >>
    BY DEF IdleRun
  <1> QED BY <1>1, <1>2, <1>3, <1>4
          DEF TranslationInv, SavedInv, ReportInv, ReportCoversReview, Reviewing

\* Every step of the program keeps the invariant.
LEMMA TranslationNext ==
  ASSUME TranslationInv, [Next]_vars
  PROVE  TranslationInv'
PROOF
  <1>1. CASE \E resume \in ResumeFlag : Start(resume)
    BY <1>1, StartStep
  <1>2. CASE Work
    BY <1>2, OpenWindowStep, AlignBatchStep, AcceptWindowStep, ApplyBatchStep,
       CommitBatchStep, EndTranslationStep, ReviewBatchStep, CommitReviewStep,
       FinishReportStep, EndReviewStep, FinalizeStep DEF Work
  <1>3. CASE RejectAnswer
    BY <1>3, RejectAnswerStep
  <1>4. CASE Stop
    BY <1>4, StopStep
  <1>5. CASE WriteGlossary
    BY <1>5, WriteGlossaryStep
  <1>6. CASE UNCHANGED vars
    BY <1>6 DEF vars, TranslationInv, SavedInv, ReportInv, ReportCoversReview
  <1> QED BY <1>1, <1>2, <1>3, <1>4, <1>5, <1>6 DEF Next

-----------------------------------------------------------------------------
(* The theorems *)

\* Whatever run_document is interrupted at, restarted with and answered, its
\* memory and its checkpoint agree as the invariant says.
THEOREM TranslationInvariant == Spec => []TranslationInv
PROOF
  <1>1. Init => TranslationInv
    BY TranslationInit
  <1>2. TranslationInv /\ [Next]_vars => TranslationInv'
    BY TranslationNext
  <1> QED BY <1>1, <1>2, PTL DEF Spec

\* The checkpoint, the report, the glossary file and the run in progress are
\* of their types, and no run holds more batches than the document has.
THEOREM TranslationTypes == Spec => []TypeOK
PROOF
  <1>1. ASSUME TranslationInv PROVE TypeOK
    <2>1. saved # NoState =>
            /\ saved.text \in Seq(Rendering) /\ Len(saved.text) <= Len(TermsIn)
            /\ saved.reviewed \in Seq(AnyWords)
            /\ Len(saved.reviewed) <= Len(ReviewPlan)
            /\ saved.glossary \in Glossary /\ saved.names \in Glossary
            /\ saved.guide \in Glossary /\ saved.validated \in BOOLEAN
            /\ saved.final \in IF saved.validated THEN Outputs ELSE {NoOutput}
      BY <1>1 DEF TranslationInv, SavedInv, SavedOK, Sound, Validated
    <2>2. run \in RunRecord /\ WindowOK(run) /\ Sound(run)
      BY <1>1 DEF TranslationInv, RunOK
    <2>3. run.text \o run.ready \in Seq(Rendering)
      BY <2>2, ConcatProperties DEF RunRecord
    <2>4. /\ run.phase \in Phase /\ run.window \in 0..Window
          /\ {run.guide, run.required, run.glossary, run.names} \subseteq Glossary
          /\ run.reviewed \in Seq(AnyWords) /\ Len(run.reviewed) <= Len(ReviewPlan)
      BY <2>2 DEF RunRecord, Sound
    <2>5. Len(run.text) + Len(run.ready) <= Len(TermsIn) /\ Len(run.ready) <= run.window
      BY <2>2 DEF WindowOK
    <2>6. /\ glossaryFile \in Glossary /\ edits \in 0..MaxEdits
          /\ report \in [guide : Glossary, covers : 0..Len(ReviewPlan)]
      BY <1>1 DEF TranslationInv, ReportInv
    <2> QED BY <2>1, <2>3, <2>4, <2>5, <2>6 DEF TypeOK
  <1> QED BY <1>1, TranslationInvariant, PTL

\* A checkpoint never mixes batches made under different guidance, however
\* the glossary file changed between the processes that made them.
THEOREM OneGuidePerCheckpoint == Spec => []OneGuide
PROOF
  <1>1. ASSUME TranslationInv PROVE OneGuide
    <2>1. saved # NoState => \A i \in 1..Len(saved.text) : Made(saved.text[i], i, saved.guide, saved.names)
      BY <1>1 DEF TranslationInv, SavedInv, SavedOK, Sound
    <2> QED BY <2>1 DEF OneGuide, BatchesDone, Made
  <1> QED BY <1>1, TranslationInvariant, PTL

\* A name marked in two batches of a checkpoint has one word in both,
\* whichever windows and processes made them.
THEOREM NamesAreConsistent == Spec => []TermConsistency
PROOF
  <1>1. ASSUME TranslationInv PROVE TermConsistency
    <2>1. saved # NoState => \A i \in 1..Len(saved.text) : Made(saved.text[i], i, saved.guide, saved.names)
      BY <1>1 DEF TranslationInv, SavedInv, SavedOK, Sound
    <2> QED BY <2>1 DEF TermConsistency, BatchesDone, Made
  <1> QED BY <1>1, TranslationInvariant, PTL

\* A checkpoint that holds reviewed batches has their report beside it, saved
\* by a run under the same guide.
THEOREM ReviewIsReported == Spec => []ReportCoversReview
PROOF
  <1>1. TranslationInv => ReportCoversReview
    BY DEF TranslationInv, ReportInv
  <1> QED BY <1>1, TranslationInvariant, PTL

\* A validated output uses the word that a glossary of the user requires in
\* every line of the document.
THEOREM FinalOutputHonoursGlossary == Spec => []FinalHonoursGlossary
PROOF
  <1>1. ASSUME TranslationInv PROVE FinalHonoursGlossary
    <2>1. saved # NoState /\ saved.validated => Validated(saved.guide, saved.final)
      BY <1>1 DEF TranslationInv, SavedInv, SavedOK
    <2>2. HardGlossary => Required(saved.guide) = saved.guide
      BY DEF Required
    <2> QED BY <2>1, <2>2 DEF FinalHonoursGlossary, Validated
  <1> QED BY <1>1, TranslationInvariant, PTL
=============================================================================
