------------------------- MODULE DocumentRun_proofs -------------------------
(***************************************************************************)
(* Proofs about DocumentRun for any modes: documents of any size, any      *)
(* number of retries, repairs and requests, every policy of the optional   *)
(* stages, every concurrency and every answer of the backend.              *)
(***************************************************************************)
EXTENDS DocumentRun, SequenceTheorems, FiniteSetTheorems, WellFoundedInduction, TLAPS

-----------------------------------------------------------------------------
(* The inductive invariant: the call in progress *)

\* What the window or the stage in progress called for.
Callee == IF window.open THEN Caller ELSE IF stage = "correction" THEN NextBatch ELSE 1

InCall == stack # << >> \/ ret # NoValue

\* What a frame is judged by, which no step of a call changes but `troubled`.
Context ==
  [retries |-> Retries, repairs |-> RepairLimit, stage |-> stage,
   troubled |-> trouble # "none", b |-> Callee, lines |-> Lines[Callee]]

Frames ==
  [b : Nat, lo : Nat, hi : Nat, record : BOOLEAN,
   at : {"attempt", "left", "right", "repair", "correction", "terminology"},
   attempt : Nat, cut : Nat, forced : BOOLEAN, left : Seq(Nat), error : Error \cup {"ok"}]

\* A frame works on lines of the batch that was called for, in a loop of its
\* stage.  What it has of the left part is the left part, and it holds an
\* error only when there was one.
FrameOK(f, c) ==
  /\ f \in Frames
  /\ f.b = c.b /\ 1 <= f.lo /\ f.lo <= f.cut /\ f.cut <= f.hi /\ f.hi <= c.lines
  /\ 1 <= f.attempt
  /\ f.attempt <= IF f.at = "repair" THEN c.repairs ELSE c.retries + 1
  /\ f.at \in {"left", "right"} => f.cut < f.hi
  /\ f.at = "right" => f.left = From(f.lo, f.cut)
  /\ f.at = "repair" => f.record /\ IsRepairable(f.error)
  /\ f.at \in {"attempt", "left", "right"} => c.stage \in {"translation", "review"}
  /\ f.at = "repair" => c.stage \in {"translation", "review", "validation"}
  /\ f.at = "correction" => c.stage = "correction"
  /\ f.at = "terminology" => c.stage = "terminology"
  /\ f.error # "ok" => c.troubled

\* The lines that a split waits for.
Low(f)  == IF f.at = "left" THEN f.lo ELSE f.cut + 1
High(f) == IF f.at = "left" THEN f.cut ELSE f.hi

\* f is the call of the part that g waits for; only whole batches record.
PartOf(f, g) ==
  g.at \in {"left", "right"} /\ ~ f.record /\ f.lo = Low(g) /\ f.hi = High(g)

WholeBatch(f, c) == f.lo = 1 /\ f.hi = c.lines

\* f belongs on top of the calls s.
Fits(f, s, c) == IF s = << >> THEN WholeBatch(f, c) ELSE PartOf(f, Head(s))

Chain(s, c) ==
  /\ s \in Seq(Frames)
  /\ \A i \in 1..Len(s) : FrameOK(s[i], c)
  /\ \A i \in 1..(Len(s) - 1) : PartOf(s[i], s[i + 1])
  /\ s # << >> => WholeBatch(s[Len(s)], c)

\* A value is the lines that were asked for, or an error that happened.
ValueOK(v, s, c) ==
  /\ v.kind \in Error \cup {"ok"}
  /\ v.kind = "ok" =>
       v.lines = IF s = << >> THEN From(1, c.lines) ELSE From(Low(Head(s)), High(Head(s)))

CallInv ==
  /\ InCall => /\ Callee \in BatchNo
               /\ window.open \/ stage \in {"correction", "terminology", "validation"}
               /\ stage = "correction" => Unanswered # {}
               /\ Chain(stack, Context)
  /\ ret # NoValue =>
       /\ ValueOK(ret, stack, Context)
       /\ ret.kind \notin {"ok", "cancelled"} /\ ~ Forgiven(ret.kind) => trouble # "none"

-----------------------------------------------------------------------------
(* The inductive invariant: stages, answers and accounting *)

TypeInv ==
  /\ mode \in Modes /\ stage \in Stages
  /\ requests \in 0..mode.maxRequests /\ concurrency \in 1..Configured
  /\ wasLimited \in BOOLEAN /\ cancelled \in BOOLEAN
  /\ status \in {"running", "done", "failed", "cancelled"}
  /\ trouble \in {"none", "bad", "fatal"}

Batches(s) == 1..Len(mode.batches[s])

\* A batch has no answer, or all its lines in order.
AnswersInv ==
  /\ DOMAIN answers = Stages
  /\ \A s \in Stages :
       /\ DOMAIN answers[s] = Batches(s)
       /\ \A b \in Batches(s) : answers[s][b] \in {<< >>, From(1, mode.batches[s][b])}

\* What the batches of a window were answered.
Replies == UNION {[batches -> Outcome] : batches \in SUBSET Nat}

WindowInv ==
  /\ window \in [open : BOOLEAN, calls : SUBSET BatchNo, pending : SUBSET BatchNo,
                 sent : BOOLEAN, replies : Replies, names : SUBSET BatchNo, again : BOOLEAN]
  /\ ~ window.open => window = NoWindow
  /\ window.open => stage \in {"translation", "review"}
  /\ window.sent => window.calls = {}
  /\ window.again => trouble # "none"

StageDone(s) == \A b \in Batches(s) : answers[s][b] # << >>

\* The stages that were left are done, where the run cannot do without them.
ProgressInv ==
  /\ stage # "correction" /\ mode.correction = "strict" => StageDone("correction")
  /\ stage \notin {"correction", "terminology"} /\ mode.preflight = "strict" =>
       StageDone("terminology")
  /\ stage \in {"review", "validation"} => StageDone("translation")
  /\ stage = "validation" => StageDone("review")
  /\ status = "done" => stage = "validation" /\ StageDone("validation")
  /\ status = "failed" => trouble # "none"

\* After a fatal error no request is allowed any more, or the error is on its
\* way out, as one that nothing repairs.
FatalInv ==
  trouble = "fatal" =>
    /\ stage # "correction"
    /\ stage = "terminology" /\ mode.preflight = "optional" => ~ CanReserve(1)
    /\ \/ status # "running"
       \/ ~ CanReserve(1)
       \/ /\ ret.kind \notin {"ok", "none"}
          /\ stack = << >> \/ ~ IsRepairable(ret.kind)

DocumentInv ==
  TypeInv /\ AnswersInv /\ WindowInv /\ CallInv /\ ProgressInv /\ FatalInv

-----------------------------------------------------------------------------
(* Batches and lines *)

\* A window that is not sent yet has no replies.
LEMMA NoRepliesYet == NoReplies \in Replies
PROOF
  <1>1. NoReplies \in [{} -> Outcome]
    BY DEF NoReplies
  <1> QED BY <1>1 DEF Replies

\* The first batch of a set is one of it, and none is before it.
LEMMA FirstIn ==
  ASSUME NEW S \in SUBSET Nat, S # {}
  PROVE  First(S) \in S /\ \A b \in S : First(S) <= b
PROOF
  <1> DEFINE R == {ss \in Nat \X Nat : ss[1] < ss[2]}
  <1>1. IsWellFoundedOn(R, Nat)
    BY NatLessThanWellFounded DEF OpToRel
  <1>2. \A x, y \in Nat : x < y => <<x, y>> \in R
    OBVIOUS
  <1> HIDE DEF R
  <1>3. PICK x \in S : \A y \in S : ~ (<<y, x>> \in R)
    BY <1>1, WFMin
  <1>4. ASSUME NEW y \in S PROVE x <= y
    <2>1. x \in Nat /\ y \in Nat
      OBVIOUS
    <2>2. ~ (y < x)
      BY <1>2, <1>3, <2>1
    <2> QED BY <2>1, <2>2
  <1> QED BY <1>4 DEF First

\* From lo to hi there are as many lines as one expects, in order.
LEMMA FromFacts ==
  ASSUME NEW lo \in Nat, NEW hi \in Nat, lo <= hi + 1
  PROVE  /\ From(lo, hi) \in Seq(Nat) /\ Len(From(lo, hi)) = hi - lo + 1
         /\ \A i \in 1..(hi - lo + 1) : From(lo, hi)[i] = lo + i - 1
         /\ lo <= hi => From(lo, hi) # << >>
PROOF
  <1> DEFINE n == hi - lo + 1
  <1>1. n \in Nat
    OBVIOUS
  <1>2. /\ From(lo, hi) = [i \in 1..n |-> lo + i - 1]
        /\ \A i \in 1..n : lo + i - 1 \in Nat
    BY DEF From
  <1>3. From(lo, hi) \in [1..n -> Nat]
    BY <1>2
  <1>4. From(lo, hi) \in Seq(Nat) /\ Len(From(lo, hi)) = n
    BY <1>1, <1>3, LenProperties, SeqDef
  <1>5. ASSUME lo <= hi PROVE From(lo, hi) # << >>
    BY <1>4, <1>5, EmptySeq
  <1> QED BY <1>2, <1>4, <1>5

\* The two parts of a split are the whole.
LEMMA FromJoin ==
  ASSUME NEW lo \in Nat, NEW cut \in Nat, NEW hi \in Nat, lo <= cut, cut < hi
  PROVE  From(lo, cut) \o From(cut + 1, hi) = From(lo, hi)
PROOF
  <1> DEFINE s == From(lo, cut)
             t == From(cut + 1, hi)
             u == From(lo, hi)
             m == cut - lo + 1
             n == hi - (cut + 1) + 1
  <1>1. /\ s \in Seq(Nat) /\ Len(s) = m /\ \A i \in 1..m : s[i] = lo + i - 1
    BY FromFacts
  <1>2. /\ t \in Seq(Nat) /\ Len(t) = n /\ \A i \in 1..n : t[i] = cut + 1 + i - 1
    <2>1. cut + 1 \in Nat /\ cut + 1 <= hi + 1
      OBVIOUS
    <2> QED BY <2>1, FromFacts
  <1>3. /\ u \in Seq(Nat) /\ Len(u) = hi - lo + 1
        /\ \A i \in 1..(hi - lo + 1) : u[i] = lo + i - 1
    <2>1. lo <= hi + 1
      OBVIOUS
    <2> QED BY <2>1, FromFacts
  <1> HIDE DEF s, t, u
  <1>4. /\ s \o t \in Seq(Nat) /\ Len(s \o t) = Len(s) + Len(t)
        /\ \A i \in 1..Len(s) + Len(t) :
             (s \o t)[i] = IF i <= Len(s) THEN s[i] ELSE t[i - Len(s)]
    BY <1>1, <1>2, ConcatProperties
  <1>5. Len(s \o t) = Len(u)
    BY <1>1, <1>2, <1>3, <1>4
  <1>6. ASSUME NEW i \in 1..Len(u) PROVE (s \o t)[i] = u[i]
    <2>1. CASE i <= m
      BY <1>1, <1>2, <1>3, <1>4, <1>6, <2>1
    <2>2. CASE ~ (i <= m)
      <3>1. i - m \in 1..n /\ i \in 1..(m + n)
        BY <1>3, <2>2
      <3>2. (s \o t)[i] = t[i - m]
        BY <1>1, <1>2, <1>4, <2>2, <3>1
      <3> QED BY <1>2, <1>3, <3>1, <3>2
    <2> QED BY <2>1, <2>2
  <1>7. s \o t = u
    BY <1>3, <1>4, <1>5, <1>6, SeqEqual
  <1> QED BY <1>7 DEF s, t, u

-----------------------------------------------------------------------------
(* Calls in progress *)

\* The innermost call is sound, and so are those that wait for it.
LEMMA ChainTop ==
  ASSUME NEW c, NEW s, Chain(s, c), s # << >>
  PROVE  FrameOK(Head(s), c) /\ Chain(Tail(s), c) /\ Fits(Head(s), Tail(s), c)
PROOF
  <1> DEFINE n == Len(s)
             t == Tail(s)
  <1>1. s \in Seq(Frames) /\ n \in Nat /\ n # 0 /\ Head(s) = s[1] /\ t \in Seq(Frames)
        /\ Len(t) = n - 1 /\ \A i \in 1..(n - 1) : t[i] = s[i + 1]
    BY HeadTailProperties, EmptySeq, LenProperties DEF Chain
  <1> HIDE DEF n, t
  <1>2. FrameOK(Head(s), c)
    BY <1>1 DEF Chain, n
  <1>3. \A i \in 1..Len(t) : FrameOK(t[i], c)
    BY <1>1 DEF Chain, n
  <1>4. \A i \in 1..(Len(t) - 1) : PartOf(t[i], t[i + 1])
    <2>1. ASSUME NEW i \in 1..(Len(t) - 1) PROVE PartOf(t[i], t[i + 1])
      <3>1. i + 1 \in 1..(n - 1) /\ i \in 1..(n - 1) /\ t[i] = s[i + 1] /\ t[i + 1] = s[(i + 1) + 1]
        BY <1>1
      <3> QED BY <3>1 DEF Chain, n
    <2> QED BY <2>1
  <1>5. t # << >> => WholeBatch(t[Len(t)], c) /\ PartOf(s[1], Head(t))
    <2>1. ASSUME t # << >> PROVE WholeBatch(t[Len(t)], c) /\ PartOf(s[1], Head(t))
      <3>1. n - 1 \in 1..(n - 1) /\ 1 \in 1..(n - 1)
        BY <1>1, <2>1, EmptySeq
      <3>2. t[n - 1] = s[n] /\ Head(t) = t[1] /\ t[1] = s[1 + 1]
        BY <1>1, <2>1, <3>1
      <3>3. s # << >>
        OBVIOUS
      <3> QED BY <1>1, <3>1, <3>2, <3>3 DEF Chain, n
    <2> QED BY <2>1
  <1>6. t = << >> => WholeBatch(s[1], c)
    <2>1. t = << >> => n = 1
      BY <1>1, EmptySeq
    <2> QED BY <2>1 DEF Chain, n
  <1>7. Chain(t, c)
    BY <1>1, <1>3, <1>4, <1>5 DEF Chain
  <1>8. Fits(Head(s), t, c)
    BY <1>1, <1>5, <1>6 DEF Fits
  <1> QED BY <1>2, <1>7, <1>8 DEF t

\* A sound call that fits may be put on top.
LEMMA ChainPush ==
  ASSUME NEW c, NEW s, Chain(s, c), NEW f, FrameOK(f, c), Fits(f, s, c)
  PROVE  Chain(<< f >> \o s, c)
PROOF
  <1> DEFINE n == Len(s)
             u == << f >> \o s
  <1>1. s \in Seq(Frames) /\ n \in Nat /\ f \in Frames /\ << f >> \in Seq(Frames)
        /\ Len(<< f >>) = 1 /\ << f >>[1] = f
    BY LenProperties DEF Chain, FrameOK
  <1>2. u \in Seq(Frames) /\ Len(u) = 1 + n
        /\ \A i \in 1..(1 + n) : u[i] = IF i <= 1 THEN << f >>[i] ELSE s[i - 1]
    BY <1>1, ConcatProperties
  <1>3. u[1] = f /\ \A i \in 2..(n + 1) : u[i] = s[i - 1]
    BY <1>1, <1>2
  <1> HIDE DEF n, u
  <1>4. \A i \in 1..Len(u) : FrameOK(u[i], c)
    <2>1. ASSUME NEW i \in 1..Len(u) PROVE FrameOK(u[i], c)
      <3>1. CASE i = 1
        BY <1>3, <3>1
      <3>2. CASE i # 1
        <4>1. i \in 2..(n + 1) /\ i - 1 \in 1..n
          BY <1>1, <1>2, <3>2
        <4> QED BY <1>3, <4>1 DEF Chain, n
      <3> QED BY <3>1, <3>2
    <2> QED BY <2>1
  <1>5. s # << >> => n # 0 /\ Head(s) = s[1]
    BY <1>1, EmptySeq DEF n
  <1>6. \A i \in 1..(Len(u) - 1) : PartOf(u[i], u[i + 1])
    <2>1. ASSUME NEW i \in 1..(Len(u) - 1) PROVE PartOf(u[i], u[i + 1])
      <3>1. CASE i = 1
        <4>1. s # << >> /\ u[2] = s[1]
          <5>1. n # 0 /\ 2 \in 2..(n + 1) /\ 2 - 1 = 1
            BY <1>1, <1>2, <3>1
          <5> QED BY <1>3, <5>1, EmptySeq DEF n
        <4> QED BY <1>3, <1>5, <3>1, <4>1 DEF Fits
      <3>2. CASE i # 1
        <4>1. i \in 2..(n + 1) /\ i - 1 \in 1..(n - 1) /\ i + 1 \in 2..(n + 1)
              /\ (i + 1) - 1 = (i - 1) + 1
          BY <1>1, <1>2, <3>2
        <4>2. PartOf(s[i - 1], s[(i - 1) + 1])
          BY <4>1 DEF Chain, n
        <4> QED BY <1>3, <4>1, <4>2
      <3> QED BY <3>1, <3>2
    <2> QED BY <2>1
  <1>7. WholeBatch(u[Len(u)], c)
    <2>1. CASE s = << >>
      BY <1>2, <1>3, <2>1, EmptySeq DEF Fits, n
    <2>2. CASE s # << >>
      <3>1. n + 1 \in 2..(n + 1) /\ (n + 1) - 1 = n
        BY <1>1, <1>5, <2>2
      <3>2. u[n + 1] = s[n]
        BY <1>3, <3>1
      <3> QED BY <1>1, <1>2, <2>2, <3>2 DEF Chain, n
    <2> QED BY <2>1, <2>2
  <1> QED BY <1>2, <1>4, <1>6, <1>7 DEF Chain, u

\* Two calls at once: a part, and the split that waits for it.
LEMMA ChainPushTwo ==
  ASSUME NEW c, NEW s, Chain(s, c), NEW f, NEW g,
         FrameOK(g, c), Fits(g, s, c), FrameOK(f, c), PartOf(f, g)
  PROVE  Chain(<< f, g >> \o s, c)
PROOF
  <1>1. Chain(<< g >> \o s, c)
    BY ChainPush
  <1>2. s \in Seq(Frames) /\ f \in Frames /\ g \in Frames
    BY DEF Chain, FrameOK
  <1>3. << g >> \o s # << >> /\ Head(<< g >> \o s) = g
    BY <1>2
  <1>4. Chain(<< f >> \o (<< g >> \o s), c)
    BY <1>1, <1>3, ChainPush DEF Fits
  <1>5. << f >> \o (<< g >> \o s) = << f, g >> \o s
    <2> DEFINE p == << f >>
               q == << g >>
               r == << f, g >>
    <2>1. /\ p \in Seq(Frames) /\ Len(p) = 1 /\ p[1] = f
          /\ q \in Seq(Frames) /\ Len(q) = 1 /\ q[1] = g
          /\ r \in Seq(Frames) /\ Len(r) = 2 /\ r[1] = f /\ r[2] = g
      BY <1>2
    <2> HIDE DEF p, q, r
    <2>2. /\ p \o q \in Seq(Frames) /\ Len(p \o q) = 2
          /\ \A i \in 1..2 : (p \o q)[i] = IF i <= 1 THEN p[i] ELSE q[i - 1]
      BY <2>1, ConcatProperties
    <2>3. p \o q = r
      <3>1. \A i \in 1..2 : (p \o q)[i] = r[i]
        BY <2>1, <2>2
      <3> QED BY <2>1, <2>2, <3>1, SeqEqual
    <2>4. (p \o q) \o s = p \o (q \o s)
      BY <1>2, <2>1, ConcatAssociative, SMTT(30)
    <2> QED BY <2>3, <2>4 DEF p, q, r
  <1> QED BY <1>4, <1>5

\* No call in progress is a sound stack.
LEMMA ChainEmpty == ASSUME NEW c PROVE Chain(<< >>, c)
BY EmptySeq DEF Chain

\* Trouble does not make a call unsound.
LEMMA ChainTroubled ==
  ASSUME NEW c, NEW d, NEW s, Chain(s, c),
         d.retries = c.retries, d.repairs = c.repairs, d.stage = c.stage,
         d.b = c.b, d.lines = c.lines, c.troubled => d.troubled
  PROVE  Chain(s, d)
PROOF
  <1>1. \A f : FrameOK(f, c) => FrameOK(f, d)
    BY DEF FrameOK
  <1>2. \A f : WholeBatch(f, c) => WholeBatch(f, d)
    BY DEF WholeBatch
  <1> QED BY <1>1, <1>2 DEF Chain

\* What the innermost call returns is what its caller waits for.
LEMMA ReturnSound ==
  ASSUME NEW c, NEW s, Chain(s, c), s # << >>,
         NEW v, v.kind \in Error \cup {"ok"},
         v.kind = "ok" => v.lines = From(Head(s).lo, Head(s).hi)
  PROVE  Chain(Tail(s), c) /\ ValueOK(v, Tail(s), c)
PROOF
  <1>1. Chain(Tail(s), c) /\ Fits(Head(s), Tail(s), c)
    BY ChainTop
  <1>2. v.kind = "ok" => v.lines = IF Tail(s) = << >> THEN From(1, c.lines)
                                   ELSE From(Low(Head(Tail(s))), High(Head(Tail(s))))
    BY <1>1 DEF Fits, WholeBatch, PartOf
  <1> QED BY <1>1, <1>2 DEF ValueOK

\* A call that goes on with the same lines stays where it is.
LEMMA GotoSound ==
  ASSUME NEW c, NEW s, Chain(s, c), s # << >>, NEW g, FrameOK(g, c),
         g.lo = Head(s).lo, g.hi = Head(s).hi, g.record = Head(s).record
  PROVE  Chain(<< g >> \o Tail(s), c)
PROOF
  <1>1. Chain(Tail(s), c) /\ Fits(Head(s), Tail(s), c)
    BY ChainTop
  <1>2. Fits(g, Tail(s), c)
    BY <1>1 DEF Fits, WholeBatch, PartOf
  <1> QED BY <1>1, <1>2, ChainPush

-----------------------------------------------------------------------------
(* Modes and contexts *)

\* The settings and the document of a mode are of their types.
LEMMA ModeFacts ==
  ASSUME TypeInv
  PROVE  /\ Retries \in Nat /\ RepairLimit \in Nat /\ Configured \in Nat \ {0}
         /\ mode.maxRequests \in Nat /\ mode.reviewers \in Nat \ {0}
         /\ mode.multiplier \in Nat \ {0}
         /\ \A s \in Stages : /\ mode.batches[s] \in Seq(Nat \ {0})
                              /\ Len(mode.batches[s]) \in Nat
                              /\ \A b \in Batches(s) : mode.batches[s][b] \in Nat \ {0}
         /\ BatchNo = Batches(stage) /\ BatchNo \subseteq Nat
         /\ \A b \in BatchNo : Lines[b] \in Nat \ {0}
         /\ stage \in {"terminology", "validation"} => 1 \in BatchNo
         /\ Batches("terminology") = {1} /\ Batches("validation") = {1}
PROOF
  <1>1. mode \in Mode /\ stage \in Stages
    BY ModesAssumption DEF TypeInv
  <1>2. /\ Retries \in Nat /\ RepairLimit \in Nat /\ Configured \in Nat \ {0}
        /\ mode.maxRequests \in Nat /\ mode.reviewers \in Nat \ {0}
        /\ mode.multiplier \in Nat \ {0}
    BY <1>1 DEF Mode, Retries, RepairLimit, Configured
  <1>3. mode.batches \in [Stages -> Seq(Nat \ {0})]
    BY <1>1 DEF Mode
  <1>4. ASSUME NEW s \in Stages
        PROVE  /\ mode.batches[s] \in Seq(Nat \ {0}) /\ Len(mode.batches[s]) \in Nat
               /\ \A b \in Batches(s) : mode.batches[s][b] \in Nat \ {0}
    <2>1. mode.batches[s] \in Seq(Nat \ {0})
      BY <1>3
    <2> QED BY <2>1, ElementOfSeq, LenProperties DEF Batches
  <1>5. mode.batches.terminology = << 1 >> /\ mode.batches.validation = << 1 >>
    BY ModesAssumption DEF TypeInv
  <1>6. Batches("terminology") = {1} /\ Batches("validation") = {1}
    <2>1. Len(<< 1 >>) = 1 /\ 1..1 = {1}
      OBVIOUS
    <2>2. mode.batches["terminology"] = << 1 >> /\ mode.batches["validation"] = << 1 >>
      BY <1>5
    <2> QED BY <2>1, <2>2 DEF Batches
  <1>7. BatchNo = Batches(stage) /\ BatchNo \subseteq Nat
        /\ \A b \in BatchNo : Lines[b] \in Nat \ {0}
    BY <1>1, <1>4 DEF BatchNo, Batches, Lines
  <1>8. stage \in {"terminology", "validation"} => 1 \in BatchNo
    BY <1>6, <1>7
  <1> QED BY <1>2, <1>4, <1>6, <1>7, <1>8

\* A step inside a call leaves what the call is judged by.
LEMMA SameCall ==
  ASSUME TypeInv, UNCHANGED <<mode, stage, answers, window>>,
         trouble # "none" => trouble' # "none"
  PROVE  /\ Callee' = Callee /\ Lines' = Lines /\ BatchNo' = BatchNo
         /\ Unanswered' = Unanswered
         /\ Context' = [retries |-> Retries, repairs |-> RepairLimit, stage |-> stage,
                        troubled |-> trouble' # "none", b |-> Callee, lines |-> Lines[Callee]]
         /\ \A s : Chain(s, Context) => Chain(s, Context')
PROOF
  <1>1. Lines' = Lines /\ BatchNo' = BatchNo /\ Unanswered' = Unanswered
    BY DEF Lines, BatchNo, Unanswered, answer
  <1>2. NextBatch' = NextBatch /\ Caller' = Caller
    BY <1>1 DEF NextBatch, Caller, First
  <1>3. Callee' = Callee
    BY <1>2 DEF Callee
  <1>4. Context' = [retries |-> Retries, repairs |-> RepairLimit, stage |-> stage,
                    troubled |-> trouble' # "none", b |-> Callee, lines |-> Lines[Callee]]
    BY <1>1, <1>3 DEF Context, Retries, RepairLimit
  <1>5. ASSUME NEW s, Chain(s, Context) PROVE Chain(s, Context')
    <2> DEFINE c == Context
               d == Context'
    <2>1. /\ d.retries = c.retries /\ d.repairs = c.repairs /\ d.stage = c.stage
          /\ d.b = c.b /\ d.lines = c.lines
          /\ c.troubled => d.troubled
      BY <1>4 DEF Context
    <2> HIDE DEF c, d
    <2>2. Chain(s, c) => Chain(s, d)
      BY <2>1, ChainTroubled
    <2> QED BY <1>5, <2>2 DEF c, d
  <1> QED BY <1>1, <1>3, <1>4, <1>5

-----------------------------------------------------------------------------
(* What a step of a call leaves behind *)

\* The calls that remain are sound, and a value is one of those expected.
Moved(d, kinds) ==
  /\ Chain(stack', d)
  /\ ret' # NoValue => ValueOK(ret', stack', d) /\ ret'.kind \in kinds

\* A call that returns: its caller gets the lines that it waits for.
LEMMA ReturnMoves ==
  ASSUME NEW d, Chain(stack, d), stack # << >>,
         NEW v, v.kind \in Error \cup {"ok"},
         v.kind = "ok" => v.lines = From(Top.lo, Top.hi), Return(v)
  PROVE  Moved(d, {v.kind}) /\ ret' = v /\ ret' # NoValue /\ stack' = Tail(stack)
PROOF
  <1>1. Chain(Tail(stack), d) /\ ValueOK(v, Tail(stack), d)
    BY ReturnSound DEF Top
  <1>2. v.kind # "none" /\ NoValue.kind = "none"
    BY DEF Error, Outcome, NoValue
  <1> QED BY <1>1, <1>2 DEF Moved, Return

\* Or it gets the error.
LEMMA ErrMoves ==
  ASSUME NEW d, Chain(stack, d), stack # << >>, NEW e \in Error, Return(Err(e))
  PROVE  Moved(d, {e}) /\ ret'.kind = e /\ ret' # NoValue /\ stack' = Tail(stack)
PROOF
  <1> DEFINE v == Err(e)
  <1>1. v.kind = e /\ e # "ok"
    BY DEF Err, Error, Outcome
  <1>2. Return(v)
    OBVIOUS
  <1> HIDE DEF v
  <1>3. Moved(d, {v.kind}) /\ ret' = v /\ ret' # NoValue /\ stack' = Tail(stack)
    BY <1>1, <1>2, ReturnMoves
  <1> QED BY <1>1, <1>3

\* Or all the lines of the call.
LEMMA OkMoves ==
  ASSUME NEW d, Chain(stack, d), stack # << >>, Return(Ok(From(Top.lo, Top.hi)))
  PROVE  Moved(d, {"ok"}) /\ ret'.kind = "ok" /\ ret' # NoValue /\ stack' = Tail(stack)
PROOF
  <1> DEFINE v == Ok(From(Top.lo, Top.hi))
  <1>1. v.kind = "ok" /\ v.lines = From(Top.lo, Top.hi)
    BY DEF Ok
  <1>2. Return(v)
    OBVIOUS
  <1> HIDE DEF v
  <1>3. Moved(d, {v.kind}) /\ ret' = v /\ ret' # NoValue /\ stack' = Tail(stack)
    BY <1>1, <1>2, ReturnMoves
  <1> QED BY <1>1, <1>3

\* A call that gives up after error e returns it or a cancellation, or is
\* repaired if that can be.
LEMMA GiveUpMoves ==
  ASSUME NEW d, Chain(stack, d), stack # << >>,
         d.repairs = RepairLimit, RepairLimit \in Nat,
         d.stage \in {"translation", "review"},
         NEW e \in Error, IsRepairable(e) => d.troubled, GiveUp(Top, e)
  PROVE  /\ Moved(d, {e, "cancelled"})
         /\ ~ IsRepairable(e) => ret' # NoValue
PROOF
  <1> DEFINE s == stack
             f == Head(s)
  <1>1. FrameOK(f, d)
    BY ChainTop
  <1>2. CASE Return(Err(e)) \/ Return(Err("cancelled"))
    <2>1. PICK k \in {e, "cancelled"} : Return(Err(k))
      BY <1>2
    <2>2. k \in Error
      BY DEF Error, Outcome
    <2> QED BY <2>1, <2>2, ErrMoves DEF Moved
  <1>3. CASE /\ f.record /\ IsRepairable(e) /\ RepairLimit > 0
             /\ Goto([f EXCEPT !.at = "repair", !.attempt = 1, !.error = e])
    <2> DEFINE g == [f EXCEPT !.at = "repair", !.attempt = 1, !.error = e]
    <2>1. /\ g \in Frames /\ g.b = f.b /\ g.lo = f.lo /\ g.hi = f.hi /\ g.cut = f.cut
          /\ g.record = f.record /\ g.at = "repair" /\ g.attempt = 1 /\ g.error = e
      BY <1>1 DEF FrameOK, Frames
    <2> HIDE DEF g
    <2>2. FrameOK(g, d)
      BY <1>1, <1>3, <2>1 DEF FrameOK
    <2>3. Chain(<< g >> \o Tail(s), d)
      BY <2>1, <2>2, GotoSound
    <2>4. stack' = << g >> \o Tail(s) /\ ret' = NoValue
      BY <1>3 DEF Goto, g
    <2> QED BY <1>3, <2>3, <2>4 DEF Moved
  <1> QED BY <1>2, <1>3 DEF GiveUp, FinishFailure, Top

\* A split continues with its left part.
LEMMA SplitMoves ==
  ASSUME NEW d, Chain(stack, d), stack # << >>, Top.at = "attempt", d.retries \in Nat,
         d.lines \in Nat, NEW forced \in BOOLEAN, Split(Top, forced)
  PROVE  Chain(stack', d) /\ ret' = NoValue
PROOF
  <1> DEFINE s == stack
             f == Head(s)
  <1>1. PICK cut \in f.lo..(f.hi - 1) : SplitAt(f, cut, forced)
    BY DEF Split, Top
  <1> DEFINE p == Frame(f.b, f.lo, cut, FALSE, "ok")
             g == [f EXCEPT !.at = "left", !.cut = cut, !.forced = forced]
  <1>2. FrameOK(f, d) /\ Chain(Tail(s), d) /\ Fits(f, Tail(s), d) /\ f.at = "attempt"
    BY ChainTop DEF Top
  <1>3. f \in Frames /\ f.lo \in Nat /\ f.hi \in Nat /\ cut \in Nat /\ f.b \in Nat
        /\ f.lo <= cut /\ cut < f.hi
    BY <1>2 DEF FrameOK, Frames
  <1>4. /\ g \in Frames /\ g.b = f.b /\ g.lo = f.lo /\ g.hi = f.hi /\ g.cut = cut
        /\ g.record = f.record /\ g.at = "left" /\ g.attempt = f.attempt /\ g.error = f.error
    BY <1>3 DEF Frames
  <1>5. /\ p \in Frames /\ p.b = f.b /\ p.lo = f.lo /\ p.hi = cut /\ p.cut = f.lo
        /\ ~ p.record /\ p.at = "attempt" /\ p.attempt = 1 /\ p.error = "ok"
    BY <1>3, EmptySeq DEF Frame, Frames
  <1>6. stack' = << p, g >> \o Tail(s) /\ ret' = NoValue
    BY <1>1 DEF SplitAt
  <1> HIDE DEF p, g
  <1>7. FrameOK(g, d) /\ Fits(g, Tail(s), d)
    <2>1. Fits(g, Tail(s), d)
      BY <1>2, <1>4 DEF Fits, WholeBatch, PartOf
    <2>2. /\ g.lo <= g.cut /\ g.cut <= g.hi /\ g.cut < g.hi
          /\ g.attempt <= d.retries + 1
      BY <1>2, <1>3, <1>4 DEF FrameOK
    <2> QED BY <1>2, <1>4, <2>1, <2>2 DEF FrameOK
  <1>8. 1 <= f.lo /\ cut <= d.lines
    BY <1>2, <1>3 DEF FrameOK
  <1>9. FrameOK(p, d) /\ PartOf(p, g)
    BY <1>2, <1>3, <1>4, <1>5, <1>8 DEF FrameOK, PartOf, Low, High
  <1> QED BY <1>2, <1>6, <1>7, <1>9, ChainPushTwo

\* A further attempt of a loop, or its last error.
LEMMA AgainMoves ==
  ASSUME NEW d, Chain(stack, d), stack # << >>, Top.at \in {"correction", "terminology"},
         d.retries = Retries, Retries \in Nat, NEW e \in Error, Again(Top, e)
  PROVE  Moved(d, {e})
PROOF
  <1> DEFINE f == Head(stack)
             g == [f EXCEPT !.attempt = @ + 1]
  <1>1. FrameOK(f, d)
    BY ChainTop
  <1>2. CASE Return(Err(e))
    BY <1>2, ErrMoves
  <1>3. CASE f.attempt <= Retries /\ Goto(g)
    <2>1. f.attempt \in Nat
      BY <1>1 DEF FrameOK, Frames
    <2>2. /\ g \in Frames /\ g.b = f.b /\ g.lo = f.lo /\ g.hi = f.hi /\ g.cut = f.cut
          /\ g.record = f.record /\ g.at = f.at /\ g.attempt = f.attempt + 1
          /\ g.error = f.error
      BY <1>1, <2>1, SMTT(30) DEF FrameOK, Frames
    <2> HIDE DEF g
    <2>3. FrameOK(g, d)
      <3>1. 1 <= g.attempt /\ g.attempt <= d.retries + 1
        BY <1>3, <2>1, <2>2
      <3> QED BY <1>1, <2>2, <3>1 DEF FrameOK, Top
    <2>4. Chain(<< g >> \o Tail(stack), d)
      BY <2>2, <2>3, GotoSound
    <2>5. stack' = << g >> \o Tail(stack) /\ ret' = NoValue
      BY <1>3 DEF Goto
    <2> QED BY <2>4, <2>5 DEF Moved
  <1> QED BY <1>2, <1>3 DEF Again, Top

\* After an attempt of a translation or a review the call returns, is split,
\* tried again, or given up; an error of the provider ends it.
LEMMA AttemptMoves ==
  ASSUME NEW d, Chain(stack, d), stack # << >>, Top.at = "attempt",
         d.retries = Retries, Retries \in Nat, d.repairs = RepairLimit, RepairLimit \in Nat,
         d.lines \in Nat, d.stage \in {"translation", "review"},
         NEW e \in Error \cup {"ok"}, e # "ok" => d.troubled, AfterAttempt(Top, e)
  PROVE  Moved(d, {e, "cancelled"}) /\ (IsOperational(e) => ret' # NoValue)
PROOF
  <1> DEFINE f == Head(stack)
             g == [f EXCEPT !.attempt = @ + 1, !.error = e]
  <1>1. FrameOK(f, d) /\ f = Top
    BY ChainTop DEF Top
  <1>2. CASE e = "ok"
    <2>1. Return(Ok(From(Top.lo, Top.hi))) /\ ~ IsOperational(e)
      BY <1>2 DEF AfterAttempt, IsOperational
    <2> QED BY <1>2, <2>1, OkMoves DEF Moved
  <1>3. CASE e = "cancelled" \/ IsOperational(e)
    <2>1. Return(Err(e)) /\ e \in Error
      BY <1>3 DEF AfterAttempt, IsOperational
    <2> QED BY <2>1, ErrMoves DEF Moved
  <1>4. CASE /\ e \in Error /\ ~ IsOperational(e)
             /\ \/ Split(Top, FALSE)
                \/ f.attempt <= Retries /\ Goto(g)
                \/ GiveUp(Top, e)
    <2>1. CASE Split(Top, FALSE)
      <3>1. Chain(stack', d) /\ ret' = NoValue
        BY <2>1, SplitMoves
      <3> QED BY <1>4, <3>1 DEF Moved
    <2>2. CASE f.attempt <= Retries /\ Goto(g)
      <3>1. f.attempt \in Nat /\ e # "ok"
        BY <1>1, <1>4 DEF FrameOK, Frames, Error
      <3>2. /\ g \in Frames /\ g.b = f.b /\ g.lo = f.lo /\ g.hi = f.hi /\ g.cut = f.cut
            /\ g.record = f.record /\ g.at = f.at /\ g.attempt = f.attempt + 1
            /\ g.error = e
        <4>1. f \in Frames /\ f.attempt + 1 \in Nat /\ e \in Error \cup {"ok"}
          BY <1>1, <3>1 DEF FrameOK
        <4> HIDE DEF f
        <4> QED BY <4>1 DEF Frames
      <3> HIDE DEF g
      <3>3. FrameOK(g, d)
        <4>1. 1 <= g.attempt /\ g.attempt <= d.retries + 1
          BY <2>2, <3>1, <3>2
        <4> QED BY <1>1, <3>1, <3>2, <4>1 DEF FrameOK
      <3>4. Chain(<< g >> \o Tail(stack), d)
        BY <3>2, <3>3, GotoSound
      <3>5. stack' = << g >> \o Tail(stack) /\ ret' = NoValue
        BY <2>2 DEF Goto
      <3> QED BY <1>4, <3>4, <3>5 DEF Moved
    <2>3. CASE GiveUp(Top, e)
      <3>1. e # "ok"
        BY <1>4 DEF Error
      <3> QED BY <1>4, <2>3, <3>1, GiveUpMoves
    <2> QED BY <1>4, <2>1, <2>2, <2>3
  <1> QED BY <1>1, <1>2, <1>3, <1>4 DEF AfterAttempt

\* A split whose part failed returns the error or gives up.
LEMMA SplitFailedMoves ==
  ASSUME NEW d, Chain(stack, d), stack # << >>,
         d.repairs = RepairLimit, RepairLimit \in Nat,
         d.stage \in {"translation", "review"},
         NEW e \in Error, IsRepairable(e) => d.troubled, SplitFailed(Top, e)
  PROVE  /\ Moved(d, {e, "cancelled"})
         /\ ~ IsRepairable(e) => ret' # NoValue
PROOF
  <1>1. CASE Return(Err(e))
    BY <1>1, ErrMoves DEF Moved
  <1>2. CASE GiveUp(Top, e)
    BY <1>2, GiveUpMoves
  <1> QED BY <1>1, <1>2 DEF SplitFailed, Return

\* A repair returns, is tried again, or ends with the error that it was for.
LEMMA RepairMoves ==
  ASSUME NEW d, Chain(stack, d), stack # << >>, Top.at = "repair",
         d.repairs = RepairLimit, RepairLimit \in Nat,
         NEW e, AfterRepair(Top, e)
  PROVE  /\ Moved(d, {"ok", Top.error}) /\ IsRepairable(Top.error) /\ d.troubled
         /\ ret' # NoValue => stack' = << >>
         /\ IsOperational(e) => ret' # NoValue /\ ret'.kind = Top.error
PROOF
  <1> DEFINE f == Head(stack)
             g == [f EXCEPT !.attempt = @ + 1]
  <1>1. FrameOK(f, d) /\ f = Top /\ Fits(f, Tail(stack), d)
    BY ChainTop DEF Top
  <1>2. Top.error \in Error /\ IsRepairable(Top.error) /\ d.troubled
    BY <1>1 DEF FrameOK, IsRepairable, Error, Outcome
  <1>3. Tail(stack) = << >>
    BY <1>1 DEF Fits, PartOf, FrameOK
  <1>4. CASE e = "ok"
    <2>1. Return(Ok(From(Top.lo, Top.hi))) /\ ~ IsOperational(e)
      BY <1>4 DEF AfterRepair, IsOperational
    <2> QED BY <1>2, <1>3, <2>1, OkMoves DEF Moved
  <1>5. CASE Return(Err(Top.error))
    BY <1>2, <1>3, <1>5, ErrMoves DEF Moved
  <1>6. CASE ~ IsOperational(e) /\ f.attempt # RepairLimit /\ Goto(g)
    <2>1. f.attempt \in Nat /\ f.attempt <= d.repairs
      BY <1>1 DEF FrameOK, Frames
    <2>2. /\ g \in Frames /\ g.b = f.b /\ g.lo = f.lo /\ g.hi = f.hi /\ g.cut = f.cut
          /\ g.record = f.record /\ g.at = f.at /\ g.attempt = f.attempt + 1
          /\ g.error = f.error
      BY <1>1, <2>1, SMTT(30) DEF FrameOK, Frames
    <2> HIDE DEF g
    <2>3. FrameOK(g, d)
      <3>1. 1 <= g.attempt /\ g.attempt <= d.repairs
        BY <1>6, <2>1, <2>2
      <3> QED BY <1>1, <2>2, <3>1 DEF FrameOK
    <2>4. Chain(<< g >> \o Tail(stack), d)
      BY <2>2, <2>3, GotoSound
    <2>5. stack' = << g >> \o Tail(stack) /\ ret' = NoValue
      BY <1>6 DEF Goto
    <2> QED BY <1>2, <1>6, <2>4, <2>5 DEF Moved
  <1> QED BY <1>1, <1>4, <1>5, <1>6 DEF AfterRepair

-----------------------------------------------------------------------------
(* Accounting and trouble *)

\* Requests stay within the limit that reserve_requests checks.
LEMMA SendOK ==
  ASSUME TypeInv, NEW n \in Nat, CanReserve(n), requests' = requests + n
  PROVE  requests' \in 0..mode.maxRequests
PROOF
  <1>1. requests \in Nat /\ mode.maxRequests \in Nat /\ requests <= mode.maxRequests
    BY ModeFacts DEF TypeInv
  <1> QED BY <1>1 DEF CanReserve

\* The concurrency stays between one and what was configured.
LEMMA RateLimitOK ==
  ASSUME TypeInv, NoteRateLimit \/ UNCHANGED <<wasLimited, concurrency>>
  PROVE  concurrency' \in 1..Configured /\ wasLimited' \in BOOLEAN
PROOF
  <1>1. concurrency \in 1..Configured /\ Configured \in Nat /\ wasLimited \in BOOLEAN
    BY ModeFacts DEF TypeInv
  <1>2. concurrency >= 2 => concurrency \div 2 \in 1..Configured
    BY <1>1
  <1>3. 1 \in 1..Configured
    BY ModeFacts
  <1> QED BY <1>1, <1>2, <1>3 DEF NoteRateLimit

\* What is noted is never forgotten, and only an error of the provider or of
\* the budget is fatal.
LEMMA NoteFacts ==
  ASSUME TypeInv, NEW e, Note(e)
  PROVE  /\ trouble' \in {"none", "bad", "fatal"}
         /\ trouble # "none" => trouble' # "none"
         /\ e # "ok" /\ ~ Forgiven(e) => trouble' # "none"
         /\ trouble' = "fatal" =>
              \/ trouble = "fatal"
              \/ /\ stage # "correction" /\ ~ Forgiven(e)
                 /\ IsOperational(e) \/ e = "budget"
BY DEF TypeInv, Note

\* Nothing is forgiven in the stages that the run cannot do without.
LEMMA NotForgiven ==
  ASSUME NEW e, stage \notin {"correction", "terminology"} PROVE ~ Forgiven(e)
BY DEF Forgiven

-----------------------------------------------------------------------------
(* The steps of a call *)

\* A step of a call changes nothing but the calls, their value, the
\* accounting and the trouble.
LEMMA InnerKeeps ==
  ASSUME DocumentInv, UNCHANGED <<mode, stage, answers, window, status>>,
         TypeInv', CallInv', FatalInv', trouble # "none" => trouble' # "none"
  PROVE  DocumentInv'
PROOF
  <1>1. AnswersInv'
    BY DEF DocumentInv, AnswersInv, Batches
  <1>2. WindowInv'
    BY DEF DocumentInv, WindowInv, BatchNo, Lines
  <1>3. ProgressInv'
    BY DEF DocumentInv, ProgressInv, StageDone, Batches
  <1> QED BY <1>1, <1>2, <1>3 DEF DocumentInv

\* The call in progress stays sound when its step leaves sound calls.
LEMMA MovedCall ==
  ASSUME DocumentInv, InCall, UNCHANGED <<mode, stage, answers, window>>,
         trouble # "none" => trouble' # "none",
         NEW kinds, Moved(Context', kinds),
         \A k \in kinds : k \notin {"ok", "cancelled"} /\ ~ Forgiven(k) => trouble' # "none"
  PROVE  CallInv'
PROOF
  <1>1. TypeInv /\ CallInv
    BY DEF DocumentInv
  <1>2. /\ Callee' = Callee /\ BatchNo' = BatchNo /\ Unanswered' = Unanswered
    BY <1>1, SameCall
  <1>3. /\ Callee \in BatchNo
        /\ window.open \/ stage \in {"correction", "terminology", "validation"}
        /\ stage = "correction" => Unanswered # {}
    BY <1>1 DEF CallInv
  <1>4. Chain(stack', Context')
    BY DEF Moved
  <1>5. ret' # NoValue => ValueOK(ret', stack', Context') /\ ret'.kind \in kinds
    BY DEF Moved
  <1>6. ret' # NoValue /\ ret'.kind \notin {"ok", "cancelled"} /\ ~ Forgiven(ret'.kind)
          => trouble' # "none"
    BY <1>5
  <1>7. Forgiven(ret.kind)' = Forgiven(ret'.kind)
    BY DEF Forgiven
  <1> QED BY <1>2, <1>3, <1>4, <1>5, <1>6, <1>7 DEF CallInv, InCall

\* Fatal trouble is met with no request left, or on its way out.
LEMMA FatalKeeps ==
  ASSUME FatalInv, status = "running", ret = NoValue, UNCHANGED <<mode, stage, status>>,
         requests' # requests => CanReserve(1),
         trouble' = "fatal" =>
           \/ trouble = "fatal"
           \/ stage # "correction" /\ ~ CanReserve(1)
           \/ /\ stage # "correction" /\ ~ (stage = "terminology" /\ mode.preflight = "optional")
              /\ ret'.kind \notin {"ok", "none"}
              /\ stack' = << >> \/ ~ IsRepairable(ret'.kind)
  PROVE  FatalInv'
PROOF
  <1>1. ret.kind = "none"
    BY DEF NoValue
  <1>2. ~ CanReserve(1) => ~ CanReserve(1)'
    BY DEF CanReserve
  <1> QED BY <1>1, <1>2 DEF FatalInv

\* What a step of a call can rely on, before and after.
LEMMA InnerContext ==
  ASSUME DocumentInv, InCall, UNCHANGED <<mode, stage, answers, window>>,
         trouble # "none" => trouble' # "none"
  PROVE  /\ Chain(stack, Context')
         /\ stack # << >> => FrameOK(Top, Context')
         /\ Context'.retries = Retries /\ Retries \in Nat
         /\ Context'.repairs = RepairLimit /\ RepairLimit \in Nat
         /\ Context'.stage = stage /\ Context'.lines \in Nat
         /\ Context'.troubled <=> trouble' # "none"
PROOF
  <1>1. TypeInv /\ CallInv
    BY DEF DocumentInv
  <1>2. Callee \in BatchNo /\ Chain(stack, Context)
    BY <1>1 DEF CallInv
  <1>3. /\ Context' = [retries |-> Retries, repairs |-> RepairLimit, stage |-> stage,
                       troubled |-> trouble' # "none", b |-> Callee, lines |-> Lines[Callee]]
        /\ Chain(stack, Context')
    BY <1>1, <1>2, SameCall
  <1>4. stack # << >> => FrameOK(Top, Context')
    <2> DEFINE d == Context'
    <2> HIDE DEF d
    <2>1. Chain(stack, d) /\ stack # << >> => FrameOK(Head(stack), d)
      BY ChainTop
    <2> QED BY <1>3, <2>1 DEF Top, d
  <1>5. /\ Retries \in Nat /\ RepairLimit \in Nat /\ Lines[Callee] \in Nat
    BY <1>1, <1>2, ModeFacts
  <1> QED BY <1>3, <1>4, <1>5

\* A translation or a review is stopped before its request.
LEMMA AttemptStoppedStep ==
  ASSUME DocumentInv, UNCHANGED <<mode, stage>>, AttemptStopped
  PROVE  DocumentInv'
PROOF
  <1>1. /\ stack # << >> /\ Top.at = "attempt" /\ status = "running" /\ ret = NoValue
        /\ UNCHANGED <<mode, stage, answers, window, status, requests, concurrency,
                       wasLimited, asked, cancelled>>
        /\ \/ Return(Err("cancelled")) /\ UNCHANGED trouble
           \/ Split(Top, TRUE) /\ UNCHANGED trouble
           \/ Return(Err("budget")) /\ Note("budget")
    BY DEF AttemptStopped, In, Running, accounting
  <1>2. TypeInv /\ FatalInv /\ InCall
    BY <1>1 DEF DocumentInv, InCall
  <1>3. /\ trouble' \in {"none", "bad", "fatal"}
        /\ trouble # "none" => trouble' # "none"
    BY <1>1, <1>2, NoteFacts DEF TypeInv
  <1>4. TypeInv'
    BY <1>1, <1>2, <1>3 DEF TypeInv, Configured
  <1> DEFINE d == Context'
  <1>5. /\ Chain(stack, d) /\ FrameOK(Top, d) /\ d.retries \in Nat /\ d.lines \in Nat
        /\ d.stage = stage
    BY <1>1, <1>2, <1>3, InnerContext
  <1> HIDE DEF d
  <1>6. stage \in {"translation", "review"}
    BY <1>1, <1>5 DEF FrameOK
  <1>7. \A k : ~ Forgiven(k)
    BY <1>6, NotForgiven
  <1>8. CASE Return(Err("cancelled")) /\ UNCHANGED trouble
    <2>1. "cancelled" \in Error /\ "cancelled" \notin {"ok", "none", "invalid", "malformed"}
      BY DEF Error, Outcome
    <2>2. Moved(d, {"cancelled"}) /\ ret'.kind = "cancelled"
      BY <1>1, <1>5, <1>8, <2>1, ErrMoves
    <2>3. CallInv'
      BY <1>1, <1>2, <1>3, <2>2, MovedCall DEF d
    <2>4. FatalInv'
      BY <1>1, <1>2, <1>8, FatalKeeps
    <2> QED BY <1>1, <1>3, <1>4, <2>3, <2>4, InnerKeeps
  <1>9. CASE Split(Top, TRUE) /\ UNCHANGED trouble
    <2>1. Chain(stack', d) /\ ret' = NoValue
      BY <1>1, <1>5, <1>9, SplitMoves
    <2>2. Moved(d, {})
      BY <2>1 DEF Moved
    <2>3. CallInv'
      BY <1>1, <1>2, <1>3, <2>2, MovedCall DEF d
    <2>4. FatalInv'
      BY <1>1, <1>2, <1>9, FatalKeeps
    <2> QED BY <1>1, <1>3, <1>4, <2>3, <2>4, InnerKeeps
  <1>10. CASE Return(Err("budget")) /\ Note("budget")
    <2>1. "budget" \in Error /\ "budget" \notin {"ok", "none", "invalid", "malformed"}
      BY DEF Error, Outcome
    <2>2. Moved(d, {"budget"}) /\ ret'.kind = "budget"
      BY <1>1, <1>5, <1>10, <2>1, ErrMoves
    <2>3. trouble' # "none"
      BY <1>2, <1>7, <1>10, <2>1, NoteFacts
    <2>4. CallInv'
      BY <1>1, <1>2, <1>3, <2>2, <2>3, MovedCall DEF d
    <2>5. FatalInv'
      BY <1>1, <1>2, <1>6, <2>1, <2>2, FatalKeeps DEF IsRepairable
    <2> QED BY <1>1, <1>3, <1>4, <2>4, <2>5, InnerKeeps
  <1> QED BY <1>1, <1>8, <1>9, <1>10

\* An attempt that is answered from the cache, by the backend, or not at all.
LEMMA AttemptStep ==
  ASSUME DocumentInv, UNCHANGED <<mode, stage>>,
         AttemptCached \/ AttemptAsked \/ AttemptRefused
  PROVE  DocumentInv'
PROOF
  <1>1. /\ stack # << >> /\ Top.at = "attempt" /\ status = "running" /\ ret = NoValue
        /\ UNCHANGED <<mode, stage, answers, window, status>>
    BY DEF AttemptCached, AttemptAsked, AttemptRefused, In, Running
  <1>2. TypeInv /\ FatalInv /\ InCall
    BY <1>1 DEF DocumentInv, InCall
  <1>3. PICK e \in Error \cup {"ok"} :
          /\ AfterAttempt(Top, e) /\ Note(e)
          /\ \/ /\ e \in Cached /\ UNCHANGED <<requests, concurrency, wasLimited, cancelled>>
             \/ /\ e \in Outcome /\ CanReserve(1) /\ requests' = requests + 1
                /\ NoteIfLimited(e) /\ cancelled' = (e = "cancelled")
             \/ /\ e = "budget" /\ ~ CanReserve(1)
                /\ UNCHANGED <<requests, concurrency, wasLimited, cancelled>>
    BY DEF AttemptCached, AttemptAsked, AttemptRefused, Send, accounting, Cached, Outcome, Error
  <1>4. /\ trouble' \in {"none", "bad", "fatal"}
        /\ trouble # "none" => trouble' # "none"
    BY <1>2, <1>3, NoteFacts
  <1>5. TypeInv'
    <2>1. requests' \in 0..mode.maxRequests
      BY <1>2, <1>3, SendOK DEF TypeInv
    <2>2. concurrency' \in 1..Configured /\ wasLimited' \in BOOLEAN
      <3>1. NoteRateLimit \/ UNCHANGED <<wasLimited, concurrency>>
        BY <1>3 DEF NoteIfLimited
      <3> QED BY <1>2, <3>1, RateLimitOK
    <2>3. cancelled' \in BOOLEAN
      BY <1>2, <1>3 DEF TypeInv
    <2> QED BY <1>1, <1>2, <1>4, <2>1, <2>2, <2>3 DEF TypeInv, Configured
  <1> DEFINE d == Context'
  <1>6. /\ Chain(stack, d) /\ FrameOK(Top, d) /\ d.lines \in Nat /\ d.stage = stage
        /\ d.retries = Retries /\ Retries \in Nat
        /\ d.repairs = RepairLimit /\ RepairLimit \in Nat
        /\ d.troubled <=> trouble' # "none"
    BY <1>1, <1>2, <1>4, InnerContext
  <1> HIDE DEF d
  <1>7. stage \in {"translation", "review"}
    BY <1>1, <1>6 DEF FrameOK
  <1>8. e # "ok" => trouble' # "none"
    BY <1>2, <1>3, <1>7, NoteFacts, NotForgiven
  <1>9. Moved(d, {e, "cancelled"}) /\ (IsOperational(e) => ret' # NoValue)
    BY <1>1, <1>3, <1>6, <1>7, <1>8, AttemptMoves
  <1>10. CallInv'
    BY <1>1, <1>2, <1>4, <1>8, <1>9, MovedCall DEF d
  <1>11. FatalInv'
    <2>1. IsOperational(e) => ret'.kind \notin {"ok", "none", "invalid", "malformed"}
      BY <1>9 DEF Moved, IsOperational
    <2>2. e = "budget" => ~ CanReserve(1)
      BY <1>3 DEF Cached, Outcome
    <2>3. requests' # requests => CanReserve(1)
      BY <1>3
    <2>4. trouble' = "fatal" => trouble = "fatal" \/ IsOperational(e) \/ e = "budget"
      BY <1>2, <1>3, NoteFacts
    <2> QED BY <1>1, <1>2, <1>7, <2>1, <2>2, <2>3, <2>4, FatalKeeps DEF IsRepairable
  <1> QED BY <1>1, <1>4, <1>5, <1>10, <1>11, InnerKeeps

\* The left part of a split is followed by the right one.
LEMMA LeftMoves ==
  ASSUME NEW d, Chain(stack, d), stack # << >>, Top.at = "left",
         d.retries \in Nat, d.lines \in Nat,
         ValueOK(ret, stack, d), ret.kind = "ok",
         stack' = << Frame(Top.b, Top.cut + 1, Top.hi, FALSE, "ok"),
                     [Top EXCEPT !.at = "right", !.left = ret.lines] >> \o Tail(stack)
  PROVE  Chain(stack', d)
PROOF
  <1> DEFINE f == Head(stack)
             p == Frame(f.b, f.cut + 1, f.hi, FALSE, "ok")
             g == [f EXCEPT !.at = "right", !.left = ret.lines]
  <1>1. FrameOK(f, d) /\ Chain(Tail(stack), d) /\ Fits(f, Tail(stack), d) /\ f.at = "left"
    BY ChainTop DEF Top
  <1>2. f \in Frames /\ f.lo \in Nat /\ f.hi \in Nat /\ f.cut \in Nat /\ f.b \in Nat
        /\ f.lo <= f.cut /\ f.cut < f.hi /\ 1 <= f.lo /\ f.hi <= d.lines
    BY <1>1 DEF FrameOK, Frames
  <1>3. ret.lines = From(f.lo, f.cut) /\ ret.lines \in Seq(Nat)
    <2>1. ret.lines = From(f.lo, f.cut)
      BY <1>1 DEF ValueOK, Low, High
    <2>2. f.lo <= f.cut + 1
      BY <1>2
    <2> QED BY <1>2, <2>1, <2>2, FromFacts
  <1>4. /\ g \in Frames /\ g.b = f.b /\ g.lo = f.lo /\ g.hi = f.hi /\ g.cut = f.cut
        /\ g.record = f.record /\ g.at = "right" /\ g.attempt = f.attempt
        /\ g.error = f.error /\ g.left = ret.lines
    BY <1>2, <1>3 DEF Frames
  <1>5. /\ p \in Frames /\ p.b = f.b /\ p.lo = f.cut + 1 /\ p.hi = f.hi /\ p.cut = f.cut + 1
        /\ ~ p.record /\ p.at = "attempt" /\ p.attempt = 1 /\ p.error = "ok"
    BY <1>2, EmptySeq DEF Frame, Frames
  <1>6. stack' = << p, g >> \o Tail(stack)
    BY DEF Top
  <1> HIDE DEF p, g
  <1>7. FrameOK(g, d) /\ Fits(g, Tail(stack), d)
    <2>1. Fits(g, Tail(stack), d)
      BY <1>1, <1>4 DEF Fits, WholeBatch, PartOf
    <2>2. g.attempt <= d.retries + 1 /\ 1 <= g.attempt
      BY <1>1, <1>4 DEF FrameOK
    <2> QED BY <1>1, <1>2, <1>3, <1>4, <2>1, <2>2 DEF FrameOK
  <1>8. FrameOK(p, d) /\ PartOf(p, g)
    <2>1. f.cut + 1 <= f.hi /\ 1 <= f.cut + 1
      BY <1>2
    <2> QED BY <1>1, <1>2, <1>4, <1>5, <2>1 DEF FrameOK, PartOf, Low, High
  <1> QED BY <1>1, <1>6, <1>7, <1>8, ChainPushTwo

\* Both parts of a split are joined to the whole, whose lines they are.
LEMMA RightJoins ==
  ASSUME NEW d, Chain(stack, d), stack # << >>, Top.at = "right",
         ValueOK(ret, stack, d), ret.kind = "ok"
  PROVE  Top.left \o ret.lines = From(Top.lo, Top.hi)
PROOF
  <1> DEFINE f == Head(stack)
  <1>1. FrameOK(f, d) /\ f.at = "right" /\ f = Top
    BY ChainTop DEF Top
  <1>2. f.lo \in Nat /\ f.hi \in Nat /\ f.cut \in Nat /\ f.lo <= f.cut /\ f.cut < f.hi
        /\ f.left = From(f.lo, f.cut)
    BY <1>1 DEF FrameOK, Frames
  <1>3. ret.lines = From(f.cut + 1, f.hi)
    BY <1>1 DEF ValueOK, Low, High
  <1> HIDE DEF f
  <1>4. From(f.lo, f.cut) \o From(f.cut + 1, f.hi) = From(f.lo, f.hi)
    BY <1>2, FromJoin
  <1> QED BY <1>1, <1>2, <1>3, <1>4

\* A part of a split returns: the other part follows, the parts are joined,
\* or the split has failed.
LEMMA PartStep ==
  ASSUME DocumentInv, UNCHANGED <<mode, stage>>, LeftReturns \/ RightReturns
  PROVE  DocumentInv'
PROOF
  <1>1. /\ stack # << >> /\ Top.at \in {"left", "right"} /\ status = "running" /\ ret # NoValue
        /\ UNCHANGED <<mode, stage, answers, window, status, requests, concurrency,
                       wasLimited, cancelled, trouble>>
    BY DEF LeftReturns, RightReturns, accounting
  <1>2. TypeInv /\ FatalInv /\ InCall /\ CallInv
    BY <1>1 DEF DocumentInv, InCall
  <1>3. TypeInv' /\ (trouble # "none" => trouble' # "none")
    BY <1>1, <1>2 DEF TypeInv, Configured
  <1> DEFINE d == Context'
             e == ret.kind
  <1>4. /\ Chain(stack, d) /\ FrameOK(Top, d) /\ d.lines \in Nat /\ d.stage = stage
        /\ d.retries \in Nat /\ d.repairs = RepairLimit /\ RepairLimit \in Nat
        /\ d.troubled <=> trouble' # "none"
    BY <1>1, <1>2, <1>3, InnerContext
  <1>5. ValueOK(ret, stack, d) /\ e \in Error \cup {"ok"}
    BY <1>1, <1>2 DEF CallInv, ValueOK
  <1> HIDE DEF d
  <1>6. stage \in {"translation", "review"}
    BY <1>1, <1>4 DEF FrameOK
  <1>7. e \notin {"ok", "cancelled"} => trouble' # "none"
    BY <1>1, <1>2, <1>6, NotForgiven DEF CallInv
  <1>8. CASE Top.at = "left" /\ e = "ok" /\ ret' = NoValue /\ Chain(stack', d)
    <2>1. Moved(d, {})
      BY <1>8 DEF Moved
    <2>2. CallInv'
      BY <1>1, <1>2, <1>3, <2>1, MovedCall DEF d
    <2>3. FatalInv'
      BY <1>1, <1>2, <1>8 DEF FatalInv, CanReserve
    <2> QED BY <1>1, <1>3, <2>2, <2>3, InnerKeeps
  <1>9. CASE Top.at = "right" /\ e = "ok" /\ Return(Ok(From(Top.lo, Top.hi)))
    <2>1. Moved(d, {"ok"})
      BY <1>1, <1>4, <1>9, OkMoves
    <2>2. CallInv'
      BY <1>1, <1>2, <1>3, <2>1, MovedCall DEF d
    <2>3. FatalInv'
      BY <1>1, <1>2, <1>9 DEF FatalInv, CanReserve
    <2> QED BY <1>1, <1>3, <2>2, <2>3, InnerKeeps
  <1>10. CASE e # "ok" /\ SplitFailed(Top, e)
    <2>1. e \in Error /\ (IsRepairable(e) => d.troubled) /\ e # "none"
      BY <1>4, <1>5, <1>7, <1>10 DEF IsRepairable, Error, Outcome
    <2>2. /\ Moved(d, {e, "cancelled"})
          /\ ~ IsRepairable(e) => ret' # NoValue
      BY <1>1, <1>4, <1>6, <1>10, <2>1, SplitFailedMoves
    <2>3. CallInv'
      BY <1>1, <1>2, <1>3, <1>7, <2>2, MovedCall DEF d
    <2>4. FatalInv'
      <3>1. ~ IsRepairable(e) => ret'.kind \notin {"ok", "none", "invalid", "malformed"}
        BY <1>10, <2>1, <2>2 DEF Moved, IsRepairable
      <3> QED BY <1>1, <1>2, <3>1 DEF FatalInv, CanReserve, IsRepairable
    <2> QED BY <1>1, <1>3, <2>3, <2>4, InnerKeeps
  <1>11. CASE LeftReturns
    <2>1. CASE e = "ok"
      <3>1. Top.at = "left" /\ ret' = NoValue
            /\ stack' = << Frame(Top.b, Top.cut + 1, Top.hi, FALSE, "ok"),
                           [Top EXCEPT !.at = "right", !.left = ret.lines] >> \o Tail(stack)
        BY <1>11, <2>1 DEF LeftReturns
      <3>2. Chain(stack', d)
        BY <1>1, <1>4, <1>5, <2>1, <3>1, LeftMoves
      <3> QED BY <1>8, <2>1, <3>1, <3>2
    <2>2. CASE e # "ok"
      BY <1>10, <1>11, <2>2 DEF LeftReturns
    <2> QED BY <2>1, <2>2
  <1>12. CASE RightReturns
    <2>1. CASE e = "ok"
      <3>1. Top.at = "right"
        BY <1>12 DEF RightReturns
      <3>2. Top.left \o ret.lines = From(Top.lo, Top.hi)
        BY <1>1, <1>4, <1>5, <2>1, <3>1, RightJoins
      <3>3. Return(Ok(From(Top.lo, Top.hi)))
        BY <1>12, <2>1, <3>2 DEF RightReturns
      <3> QED BY <1>9, <2>1, <3>1, <3>3
    <2>2. CASE e # "ok"
      BY <1>10, <1>12, <2>2 DEF RightReturns
    <2> QED BY <2>1, <2>2
  <1> QED BY <1>11, <1>12

\* A repair is stopped, answered from the cache or by the backend, or refused.
LEMMA RepairStep ==
  ASSUME DocumentInv, UNCHANGED <<mode, stage>>,
         RepairStopped \/ RepairAsked \/ RepairUnasked
  PROVE  DocumentInv'
PROOF
  <1>1. /\ stack # << >> /\ Top.at = "repair" /\ status = "running" /\ ret = NoValue
        /\ UNCHANGED <<mode, stage, answers, window, status, concurrency, wasLimited>>
    BY DEF RepairStopped, RepairAsked, RepairUnasked, In, Running, accounting
  <1>2. TypeInv /\ FatalInv /\ InCall
    BY <1>1 DEF DocumentInv, InCall
  <1> DEFINE d == Context'
  <1>3. CASE RepairStopped
    <2>1. Return(Err("cancelled")) /\ UNCHANGED <<requests, cancelled, trouble>>
      BY <1>3 DEF RepairStopped, accounting
    <2>2. TypeInv' /\ (trouble # "none" => trouble' # "none")
      BY <1>1, <1>2, <2>1 DEF TypeInv, Configured
    <2>3. Chain(stack, d)
      BY <1>1, <1>2, <2>2, InnerContext
    <2> HIDE DEF d
    <2>4. "cancelled" \in Error
      BY DEF Error, Outcome
    <2>5. Moved(d, {"cancelled"})
      BY <1>1, <2>1, <2>3, <2>4, ErrMoves
    <2>6. CallInv'
      BY <1>1, <1>2, <2>2, <2>5, MovedCall DEF d
    <2>7. FatalInv'
      BY <1>1, <1>2, <2>1, FatalKeeps
    <2> QED BY <1>1, <2>2, <2>6, <2>7, InnerKeeps
  <1>4. CASE RepairAsked \/ RepairUnasked
    <2>1. PICK e : /\ AfterRepair(Top, e) /\ Note(e)
                   /\ \/ /\ CanReserve(1) /\ requests' = requests + 1 /\ e # "budget"
                         /\ cancelled' = (e = "cancelled")
                      \/ /\ UNCHANGED <<requests, cancelled>>
                         /\ e = "budget" => ~ CanReserve(1)
      BY <1>4 DEF RepairAsked, RepairUnasked, Send, accounting, Cached, Outcome, Unchanged
    <2>2. /\ trouble' \in {"none", "bad", "fatal"}
          /\ trouble # "none" => trouble' # "none"
      BY <1>2, <2>1, NoteFacts
    <2>3. TypeInv'
      <3>1. requests' \in 0..mode.maxRequests
        BY <1>2, <2>1, SendOK DEF TypeInv
      <3>2. cancelled' \in BOOLEAN
        BY <1>2, <2>1 DEF TypeInv
      <3> QED BY <1>1, <1>2, <2>2, <3>1, <3>2 DEF TypeInv, Configured
    <2>4. /\ Chain(stack, d) /\ FrameOK(Top, d) /\ d.stage = stage
          /\ d.repairs = RepairLimit /\ RepairLimit \in Nat
          /\ d.troubled <=> trouble' # "none"
      BY <1>1, <1>2, <2>2, InnerContext
    <2> HIDE DEF d
    <2>5. stage \in {"translation", "review", "validation"}
      BY <1>1, <2>4 DEF FrameOK
    <2>6. /\ Moved(d, {"ok", Top.error}) /\ IsRepairable(Top.error) /\ d.troubled
          /\ ret' # NoValue => stack' = << >>
          /\ IsOperational(e) => ret' # NoValue /\ ret'.kind = Top.error
      BY <1>1, <2>1, <2>4, RepairMoves
    <2>7. CallInv'
      BY <1>1, <1>2, <2>2, <2>4, <2>6, MovedCall DEF d
    <2>8. FatalInv'
      <3>1. IsOperational(e) => ret'.kind \notin {"ok", "none"} /\ stack' = << >>
        BY <2>6 DEF IsRepairable
      <3>2. trouble' = "fatal" => trouble = "fatal" \/ IsOperational(e) \/ e = "budget"
        BY <1>2, <2>1, NoteFacts
      <3>3. requests' # requests => CanReserve(1)
        BY <2>1
      <3>4. e = "budget" => ~ CanReserve(1)
        BY <2>1
      <3> QED BY <1>1, <1>2, <2>5, <3>1, <3>2, <3>3, <3>4, FatalKeeps
    <2> QED BY <1>1, <2>2, <2>3, <2>7, <2>8, InnerKeeps
  <1> QED BY <1>3, <1>4

\* An attempt of the correction, whatever becomes of it.
LEMMA CorrectionStep ==
  ASSUME DocumentInv, UNCHANGED mode,
         CorrectionCached \/ CorrectionAsked \/ CorrectionRefused
  PROVE  DocumentInv'
PROOF
  <1>1. /\ stack # << >> /\ Top.at = "correction" /\ status = "running" /\ ret = NoValue
        /\ UNCHANGED <<mode, stage, answers, window, status, concurrency, wasLimited>>
    BY DEF CorrectionCached, CorrectionAsked, CorrectionRefused, In, Running, accounting
  <1>2. TypeInv /\ FatalInv /\ InCall
    BY <1>1 DEF DocumentInv, InCall
  <1>3. PICK e \in Error \cup {"ok"} :
          /\ AfterCorrection(Top, e) /\ Note(e)
          /\ \/ UNCHANGED <<requests, cancelled>>
             \/ /\ CanReserve(1) /\ requests' = requests + 1
                /\ cancelled' = (e = "cancelled")
    BY DEF CorrectionCached, CorrectionAsked, CorrectionRefused, Send, accounting, Cached,
           Outcome, Error
  <1>4. /\ trouble' \in {"none", "bad", "fatal"}
        /\ trouble # "none" => trouble' # "none"
    BY <1>2, <1>3, NoteFacts
  <1>5. TypeInv'
    <2>1. requests' \in 0..mode.maxRequests
      BY <1>2, <1>3, SendOK DEF TypeInv
    <2>2. cancelled' \in BOOLEAN
      BY <1>2, <1>3 DEF TypeInv
    <2> QED BY <1>1, <1>2, <1>4, <2>1, <2>2 DEF TypeInv, Configured
  <1> DEFINE d == Context'
  <1>6. /\ Chain(stack, d) /\ FrameOK(Top, d) /\ d.stage = stage
        /\ d.retries = Retries /\ Retries \in Nat
    BY <1>1, <1>2, <1>4, InnerContext
  <1> HIDE DEF d
  <1>7. stage = "correction"
    BY <1>1, <1>6 DEF FrameOK
  <1>8. Moved(d, IF e \in {"ok", "cancelled"} THEN {e} ELSE {"invalid"})
    <2>1. CASE e = "ok"
      <3>1. Return(Ok(From(Top.lo, Top.hi)))
        BY <1>3, <2>1 DEF AfterCorrection
      <3> QED BY <1>1, <1>6, <2>1, <3>1, OkMoves
    <2>2. CASE e = "cancelled"
      <3>1. Return(Err(e)) /\ e \in Error
        BY <1>3, <2>2 DEF AfterCorrection, Error
      <3> QED BY <1>1, <1>6, <2>2, <3>1, ErrMoves
    <2>3. CASE e \notin {"ok", "cancelled"}
      <3>1. Again(Top, "invalid") /\ "invalid" \in Error
        BY <1>3, <2>3 DEF AfterCorrection, Error, Outcome
      <3> QED BY <1>1, <1>6, <2>3, <3>1, AgainMoves
    <2> QED BY <2>1, <2>2, <2>3
  <1>9. CallInv'
    <2> DEFINE kinds == IF e \in {"ok", "cancelled"} THEN {e} ELSE {"invalid"}
    <2>1. ASSUME NEW k \in kinds, k \notin {"ok", "cancelled"}, ~ Forgiven(k)
          PROVE  trouble' # "none"
      <3>1. e \notin {"ok", "cancelled"} /\ ~ Forgiven(e)
        BY <1>7, <2>1 DEF Forgiven
      <3> QED BY <1>2, <1>3, <3>1, NoteFacts
    <2>2. Moved(d, kinds)
      BY <1>8
    <2> HIDE DEF kinds
    <2> QED BY <1>1, <1>2, <1>4, <2>1, <2>2, MovedCall DEF d
  <1>10. FatalInv'
    <2>1. trouble' # "fatal"
      BY <1>2, <1>3, <1>7, NoteFacts DEF FatalInv
    <2> QED BY <2>1 DEF FatalInv
  <1> QED BY <1>1, <1>4, <1>5, <1>9, <1>10, InnerKeeps

\* An attempt of the preflight, or the end of it before its request.
LEMMA PreflightStep ==
  ASSUME DocumentInv, UNCHANGED mode, PreflightStopped \/ PreflightAsked
  PROVE  DocumentInv'
PROOF
  <1>1. /\ stack # << >> /\ Top.at = "terminology" /\ status = "running" /\ ret = NoValue
        /\ UNCHANGED <<mode, stage, answers, window, status, concurrency, wasLimited>>
    BY DEF PreflightStopped, PreflightAsked, In, Running, accounting
  <1>2. TypeInv /\ FatalInv /\ InCall
    BY <1>1 DEF DocumentInv, InCall
  <1>3. PICK e \in Error \cup {"ok"} :
          \/ /\ e = "cancelled" /\ Return(Err(e)) /\ UNCHANGED <<requests, cancelled, trouble>>
          \/ /\ e = "budget" /\ Return(Err(e)) /\ UNCHANGED <<requests, cancelled>>
             /\ Note(e) /\ ~ CanReserve(1)
          \/ /\ e \in Outcome /\ AfterPreflight(Top, e) /\ Note(e)
             /\ CanReserve(1) /\ requests' = requests + 1 /\ cancelled' = (e = "cancelled")
    BY DEF PreflightStopped, PreflightAsked, Send, accounting, Outcome, Error
  <1>4. /\ trouble' \in {"none", "bad", "fatal"}
        /\ trouble # "none" => trouble' # "none"
        /\ e \notin {"ok", "cancelled"} /\ ~ Forgiven(e) => trouble' # "none"
        /\ trouble' = "fatal" => trouble = "fatal" \/ (~ Forgiven(e) /\ (IsOperational(e) \/ e = "budget"))
    <2>1. CASE UNCHANGED trouble /\ e = "cancelled"
      BY <1>2, <2>1 DEF TypeInv
    <2>2. CASE Note(e)
      BY <1>2, <2>2, NoteFacts
    <2> QED BY <1>3, <2>1, <2>2
  <1>5. TypeInv'
    <2>1. requests' \in 0..mode.maxRequests
      BY <1>2, <1>3, SendOK DEF TypeInv
    <2>2. cancelled' \in BOOLEAN
      BY <1>2, <1>3 DEF TypeInv
    <2> QED BY <1>1, <1>2, <1>4, <2>1, <2>2 DEF TypeInv, Configured
  <1> DEFINE d == Context'
  <1>6. /\ Chain(stack, d) /\ FrameOK(Top, d) /\ d.stage = stage
        /\ d.retries = Retries /\ Retries \in Nat
    BY <1>1, <1>2, <1>4, InnerContext
  <1> HIDE DEF d
  <1>7. stage = "terminology"
    BY <1>1, <1>6 DEF FrameOK
  <1>8. Moved(d, {e}) /\ (IsOperational(e) => ret' # NoValue)
    <2>1. CASE e = "ok"
      <3>1. Return(Ok(From(Top.lo, Top.hi)))
        BY <1>3, <2>1 DEF AfterPreflight, IsOperational
      <3> QED BY <1>1, <1>6, <2>1, <3>1, OkMoves
    <2>2. CASE e # "ok" /\ Return(Err(e))
      <3>1. e \in Error
        BY <2>2
      <3> QED BY <1>1, <1>6, <2>2, <3>1, ErrMoves
    <2>3. CASE e # "ok" /\ Again(Top, e) /\ ~ IsOperational(e)
      <3>1. e \in Error
        BY <2>3
      <3> QED BY <1>1, <1>6, <2>3, <3>1, AgainMoves
    <2> QED BY <1>3, <2>1, <2>2, <2>3 DEF AfterPreflight
  <1>9. CallInv'
    BY <1>1, <1>2, <1>4, <1>8, MovedCall DEF d
  <1>10. FatalInv'
    <2>1. IsOperational(e) => ret'.kind \notin {"ok", "none", "invalid", "malformed"}
      BY <1>8 DEF Moved, IsOperational
    <2>2. e = "budget" => ~ CanReserve(1)
      BY <1>3 DEF Outcome
    <2>3. requests' # requests => CanReserve(1)
      BY <1>3
    <2>4. ~ Forgiven(e) /\ IsOperational(e) => mode.preflight # "optional"
      BY <1>7 DEF Forgiven, IsOperational
    <2> QED BY <1>1, <1>2, <1>4, <1>7, <2>1, <2>2, <2>3, <2>4, FatalKeeps DEF IsRepairable
  <1> QED BY <1>1, <1>4, <1>5, <1>9, <1>10, InnerKeeps

-----------------------------------------------------------------------------
(* Steps between calls *)

\* Answers are lines of their batches, and what is answered stays answered.
LEMMA AnswersGrow ==
  ASSUME AnswersInv, UNCHANGED mode, DOMAIN answers' = Stages,
         \A s \in Stages :
           /\ DOMAIN answers'[s] = Batches(s)
           /\ \A b \in Batches(s) :
                answers'[s][b] \in {answers[s][b], From(1, mode.batches[s][b])}
  PROVE  AnswersInv'
PROOF
  <1>1. ASSUME NEW s \in Stages
        PROVE  /\ DOMAIN answers'[s] = Batches(s)
               /\ \A b \in Batches(s) :
                    answers'[s][b] \in {<< >>, From(1, mode.batches[s][b])}
    BY <1>1 DEF AnswersInv
  <1>2. mode' = mode /\ (\A s : Batches(s)' = Batches(s))
    BY DEF Batches
  <1> QED BY <1>1, <1>2 DEF AnswersInv

\* A stage that is done stays done.
LEMMA DoneStays ==
  ASSUME TypeInv, AnswersInv, UNCHANGED mode,
         \A s \in Stages : \A b \in Batches(s) :
           answers'[s][b] \in {answers[s][b], From(1, mode.batches[s][b])},
         NEW s \in Stages, StageDone(s)
  PROVE  StageDone(s)'
PROOF
  <1>1. ASSUME NEW b \in Batches(s) PROVE answers'[s][b] # << >>
    <2>1. mode.batches[s][b] \in Nat \ {0}
      BY ModeFacts
    <2>2. From(1, mode.batches[s][b]) # << >>
      <3> DEFINE n == mode.batches[s][b]
      <3>1. n \in Nat /\ 1 \in Nat /\ 1 <= n /\ 1 <= n + 1
        BY <2>1
      <3> HIDE DEF n
      <3>2. From(1, n) # << >>
        BY <3>1, FromFacts
      <3> QED BY <3>2 DEF n
    <2> QED BY <1>1, <2>2 DEF StageDone
  <1>2. Batches(s)' = Batches(s)
    BY DEF Batches
  <1> QED BY <1>1, <1>2 DEF StageDone

\* A batch of the stage is answered with its lines.
LEMMA AnswerGrows ==
  ASSUME TypeInv, AnswersInv, NEW b \in BatchNo, NEW lines, lines = From(1, Lines[b]),
         Answer(b, lines)
  PROVE  /\ DOMAIN answers' = Stages
         /\ \A s \in Stages :
              /\ DOMAIN answers'[s] = Batches(s)
              /\ \A c \in Batches(s) :
                   answers'[s][c] \in {answers[s][c], From(1, mode.batches[s][c])}
PROOF
  <1>1. stage \in Stages /\ BatchNo = Batches(stage) /\ Lines = mode.batches[stage]
    BY DEF TypeInv, BatchNo, Batches, Lines
  <1>2. answers' = [answers EXCEPT ![stage] = [answers[stage] EXCEPT ![b] = lines]]
    BY DEF Answer
  <1>3. DOMAIN answers = Stages /\ \A s \in Stages : DOMAIN answers[s] = Batches(s)
    BY DEF AnswersInv
  <1>4. DOMAIN answers' = Stages
    BY <1>2, <1>3
  <1>5. ASSUME NEW s \in Stages
        PROVE  /\ DOMAIN answers'[s] = Batches(s)
               /\ \A c \in Batches(s) :
                    answers'[s][c] \in {answers[s][c], From(1, mode.batches[s][c])}
    <2>1. CASE s = stage
      <3>1. answers'[s] = [answers[s] EXCEPT ![b] = lines]
        BY <1>1, <1>2, <1>3, <2>1
      <3>2. DOMAIN answers'[s] = Batches(s)
        BY <1>3, <3>1
      <3>3. \A c \in Batches(s) : answers'[s][c] = IF c = b THEN lines ELSE answers[s][c]
        BY <1>3, <3>1
      <3> QED BY <1>1, <2>1, <3>2, <3>3
    <2>2. CASE s # stage
      <3>1. answers'[s] = answers[s]
        BY <1>1, <1>2, <1>3, <2>2
      <3> QED BY <1>3, <3>1
    <2> QED BY <2>1, <2>2
  <1> QED BY <1>4, <1>5

\* What is left of an error that is fatal, when the run ends or goes on.
LEMMA FatalStops ==
  ASSUME FatalInv, UNCHANGED <<mode, stage>>, status' # "running",
         trouble' = "fatal" =>
           \/ trouble = "fatal" /\ UNCHANGED requests
           \/ stage \notin {"correction", "terminology"}
  PROVE  FatalInv'
PROOF
  <1>1. UNCHANGED requests => CanReserve(1)' = CanReserve(1)
    BY DEF CanReserve
  <1> QED BY <1>1 DEF FatalInv

\* The progress of a run that stays in its stage.
LEMMA ProgressStays ==
  ASSUME TypeInv, AnswersInv, ProgressInv, UNCHANGED <<mode, stage>>,
         \A s \in Stages : \A b \in Batches(s) :
           answers'[s][b] \in {answers[s][b], From(1, mode.batches[s][b])},
         status' \in {"running", "cancelled"} \/ (status' = "failed" /\ trouble' # "none")
  PROVE  ProgressInv'
PROOF
  <1>1. \A s \in Stages : StageDone(s) => StageDone(s)'
    BY DoneStays
  <1>2. {"correction", "terminology", "translation", "review"} \subseteq Stages
    BY DEF Stages
  <1>3. status' # "done" /\ (status' = "failed" => trouble' # "none")
    OBVIOUS
  <1>4. stage' = stage /\ mode' = mode
    OBVIOUS
  <1> QED BY <1>1, <1>2, <1>3, <1>4 DEF ProgressInv

\* Without a call in progress there is nothing to judge.
LEMMA NoCall ==
  ASSUME stack' = << >>, ret' = NoValue PROVE CallInv'
PROOF
  <1>1. (ret # NoValue)' = FALSE /\ InCall' = FALSE
    BY DEF InCall, NoValue
  <1> QED BY <1>1 DEF CallInv

\* What the calls of the next state are judged by.
LEMMA NextContext ==
  ASSUME TypeInv, UNCHANGED <<mode, stage>>
  PROVE  /\ Context'.retries = Retries /\ Retries \in Nat
         /\ Context'.repairs = RepairLimit /\ RepairLimit \in Nat
         /\ Context'.stage = stage /\ Context'.b = Callee' /\ Context'.lines = Lines[Callee']
         /\ Context'.troubled <=> trouble' # "none"
PROOF
  <1>1. Context' = [retries |-> Retries, repairs |-> RepairLimit, stage |-> stage,
                    troubled |-> trouble' # "none", b |-> Callee', lines |-> Lines[Callee']]
    BY DEF Context, Retries, RepairLimit, Lines
  <1> QED BY <1>1, ModeFacts

\* A call that starts with sound frames is sound.
LEMMA CallStarts ==
  ASSUME DocumentInv, UNCHANGED <<mode, stage>>, ret' = NoValue, Chain(stack', Context'),
         Callee' \in BatchNo,
         window'.open \/ stage \in {"correction", "terminology", "validation"},
         stage = "correction" => Unanswered' # {}
  PROVE  CallInv'
PROOF
  <1>1. BatchNo' = BatchNo
    BY DEF BatchNo, Lines
  <1>2. (ret # NoValue)' = FALSE
    BY DEF NoValue
  <1> QED BY <1>1, <1>2 DEF CallInv

\* A single sound frame for the whole batch is a sound stack.
LEMMA ChainOne ==
  ASSUME NEW d, NEW f, FrameOK(f, d), WholeBatch(f, d)
  PROVE  Chain(<< f >>, d)
PROOF
  <1>1. Chain(<< >>, d)
    BY ChainEmpty
  <1>2. Fits(f, << >>, d)
    BY DEF Fits
  <1>3. Chain(<< f >> \o << >>, d)
    BY <1>1, <1>2, ChainPush
  <1>4. << f >> \o << >> = << f >>
    <2>1. f \in Frames
      BY DEF FrameOK
    <2> QED BY <2>1
  <1> QED BY <1>3, <1>4

\* A frame for a whole batch, in a loop of the stage, is sound.
LEMMA WholeFrame ==
  ASSUME NEW d, NEW f, f \in Frames, f.b = d.b, f.lo = 1, f.cut = 1, f.hi = d.lines,
         d.lines \in Nat \ {0}, f.attempt = 1, d.retries \in Nat, d.repairs \in Nat,
         \/ f.at = "attempt" /\ d.stage \in {"translation", "review"}
         \/ f.at = "correction" /\ d.stage = "correction"
         \/ f.at = "terminology" /\ d.stage = "terminology"
         \/ f.at = "repair" /\ d.stage = "validation" /\ f.record /\ d.repairs > 0
            /\ IsRepairable(f.error),
         f.error # "ok" => d.troubled
  PROVE  FrameOK(f, d) /\ WholeBatch(f, d)
BY DEF FrameOK, WholeBatch

\* Between two windows there is no call in progress.
LEMMA Quiet ==
  ASSUME DocumentInv, stage \in {"translation", "review"}, ~ window.open
  PROVE  stack = << >> /\ ret = NoValue
BY DEF DocumentInv, CallInv, InCall

\* An error that does not end the run while requests are left is not fatal.
LEMMA FatalMeansNoRequest ==
  ASSUME FatalInv, status = "running", ret.kind \in {"ok", "none"}, trouble = "fatal"
  PROVE  ~ CanReserve(1)
BY DEF FatalInv

\* A window is opened, some of whose batches are cached.
LEMMA OpenWindowStep ==
  ASSUME DocumentInv, UNCHANGED <<mode, stage>>, OpenWindow
  PROVE  DocumentInv'
PROOF
  <1>1. /\ stage \in {"translation", "review"} /\ ~ window.open /\ status = "running"
        /\ UNCHANGED <<mode, stage, stack, ret, requests, concurrency, wasLimited, asked,
                       cancelled, status, trouble>>
    BY DEF OpenWindow, BetweenWindows, accounting
  <1> DEFINE opened(batches, cached) ==
        LET called == {b \in batches \ cached : ~ Parallel \/ Lines[b] > RequestLines}
        IN  /\ window' = [open    |-> TRUE,
                          calls   |-> called,
                          pending |-> (batches \ cached) \ called,
                          sent    |-> FALSE,
                          replies |-> NoReplies,
                          names   |-> IF stage = "translation" /\ mode.align # "none"
                                      THEN batches ELSE {},
                          again   |-> FALSE]
            /\ answers' = [answers EXCEPT ![stage] =
                             [b \in BatchNo |-> IF b \in cached THEN AllLines(b) ELSE @[b]]]
  <1>2. PICK batches \in Windows :
          \E cached \in {c \in SUBSET batches : Parallel \/ c = {}} : opened(batches, cached)
    BY DEF OpenWindow
  <1>12. PICK cached \in SUBSET batches : opened(batches, cached)
    BY <1>2
  <1>3. TypeInv /\ AnswersInv /\ WindowInv /\ ProgressInv /\ FatalInv
    BY DEF DocumentInv
  <1>4. batches \subseteq BatchNo
    BY <1>2 DEF Windows
  <1>5. TypeInv'
    BY <1>1, <1>3 DEF TypeInv, Configured
  <1>6. /\ DOMAIN answers' = Stages
        /\ \A s \in Stages :
             /\ DOMAIN answers'[s] = Batches(s)
             /\ \A b \in Batches(s) :
                  answers'[s][b] \in {answers[s][b], From(1, mode.batches[s][b])}
    <2> DEFINE new == [b \in BatchNo |-> IF b \in cached THEN AllLines(b) ELSE answers[stage][b]]
    <2>1. answers' = [answers EXCEPT ![stage] = new]
      BY <1>12
    <2>2. stage \in Stages /\ BatchNo = Batches(stage) /\ Lines = mode.batches[stage]
      BY <1>3 DEF TypeInv, BatchNo, Batches, Lines
    <2>3. DOMAIN new = BatchNo /\ \A b \in BatchNo : new[b] \in {answers[stage][b], AllLines(b)}
      OBVIOUS
    <2> HIDE DEF new
    <2>4. DOMAIN answers = Stages /\ \A s \in Stages : DOMAIN answers[s] = Batches(s)
      BY <1>3 DEF AnswersInv
    <2>5. ASSUME NEW s \in Stages
          PROVE  /\ DOMAIN answers'[s] = Batches(s)
                 /\ \A b \in Batches(s) :
                      answers'[s][b] \in {answers[s][b], From(1, mode.batches[s][b])}
      <3>1. CASE s = stage
        <4>1. answers'[s] = new
          BY <2>1, <2>2, <2>4, <3>1
        <4> QED BY <2>2, <2>3, <3>1, <4>1 DEF AllLines
      <3>2. CASE s # stage
        <4>1. answers'[s] = answers[s]
          BY <2>1, <2>2, <2>4, <3>2
        <4> QED BY <2>4, <4>1
      <3> QED BY <3>1, <3>2
    <2>6. DOMAIN answers' = Stages
      BY <2>1, <2>4
    <2> QED BY <2>5, <2>6
  <1>7. AnswersInv'
    BY <1>1, <1>3, <1>6, AnswersGrow
  <1>8. ProgressInv'
    <2>1. \A s \in Stages : \A b \in Batches(s) :
            answers'[s][b] \in {answers[s][b], From(1, mode.batches[s][b])}
      BY <1>6
    <2>2. status' \in {"running", "cancelled"} \/ (status' = "failed" /\ trouble' # "none")
      BY <1>1
    <2> QED BY <1>3, <2>1, <2>2, ProgressStays
  <1>9. WindowInv'
    <2>1. BatchNo' = BatchNo
      BY <1>1 DEF BatchNo, Lines
    <2>2. /\ window' \in [open : BOOLEAN, calls : SUBSET BatchNo, pending : SUBSET BatchNo,
                          sent : BOOLEAN, replies : Replies, names : SUBSET BatchNo, again : BOOLEAN]
          /\ window'.open /\ ~ window'.sent /\ ~ window'.again
      BY <1>12, <1>4, NoRepliesYet
    <2> QED BY <1>1, <2>1, <2>2 DEF WindowInv
  <1>10. CallInv'
    BY <1>1, Quiet, NoCall
  <1>11. FatalInv'
    BY <1>1, <1>3, Quiet, FatalKeeps
  <1> QED BY <1>5, <1>7, <1>8, <1>9, <1>10, <1>11 DEF DocumentInv

\* No window is opened any more.
LEMMA OpenWindowFailsStep ==
  ASSUME DocumentInv, UNCHANGED <<mode, stage>>, OpenWindowFails
  PROVE  DocumentInv'
PROOF
  <1>1. /\ stage \in {"translation", "review"} /\ ~ window.open /\ status = "running"
        /\ UNCHANGED <<mode, stage, answers, window, stack, ret, requests, concurrency,
                       wasLimited, asked, cancelled>>
        /\ \/ status' = "cancelled" /\ UNCHANGED trouble
           \/ status' = "failed" /\ Note("invalid")
    BY DEF OpenWindowFails, BetweenWindows, accounting
  <1>2. TypeInv /\ AnswersInv /\ WindowInv /\ ProgressInv /\ FatalInv
    BY DEF DocumentInv
  <1>3. /\ trouble' \in {"none", "bad", "fatal"} /\ (trouble # "none" => trouble' # "none")
        /\ status' = "failed" => trouble' # "none"
    BY <1>1, <1>2, NoteFacts, NotForgiven DEF TypeInv
  <1>4. TypeInv'
    BY <1>1, <1>2, <1>3 DEF TypeInv, Configured
  <1>5. AnswersInv'
    BY <1>1, <1>2 DEF AnswersInv, Batches
  <1>6. WindowInv'
    BY <1>1, <1>2, <1>3 DEF WindowInv, BatchNo, Lines
  <1>7. ProgressInv'
    <2>1. \A s \in Stages : \A b \in Batches(s) :
            answers'[s][b] \in {answers[s][b], From(1, mode.batches[s][b])}
      BY <1>1
    <2>2. status' \in {"running", "cancelled"} \/ (status' = "failed" /\ trouble' # "none")
      BY <1>1, <1>3
    <2> QED BY <1>2, <2>1, <2>2, ProgressStays
  <1>8. CallInv'
    BY <1>1, Quiet, NoCall
  <1>9. FatalInv'
    BY <1>1, <1>2, FatalStops
  <1> QED BY <1>4, <1>5, <1>6, <1>7, <1>8, <1>9 DEF DocumentInv

\* A window calls for a batch as a whole.
LEMMA WindowCall ==
  ASSUME DocumentInv, UNCHANGED <<mode, stage>>, stage \in {"translation", "review"},
         window'.open, NEW b \in BatchNo, Callee' = b,
         NEW record \in BOOLEAN, NEW error \in Error \cup {"ok"},
         error # "ok" => trouble' # "none",
         stack' = << Frame(b, 1, Lines[b], record, error) >>, ret' = NoValue
  PROVE  CallInv'
PROOF
  <1> DEFINE d == Context'
             n == Lines[b]
             f == Frame(b, 1, n, record, error)
  <1>1. TypeInv
    BY DEF DocumentInv
  <1>2. n \in Nat \ {0} /\ b \in Nat
    BY <1>1, ModeFacts
  <1>3. /\ d.b = b /\ d.lines = n /\ d.stage = stage
        /\ d.retries \in Nat /\ d.repairs \in Nat
        /\ d.troubled <=> trouble' # "none"
    BY <1>1, NextContext
  <1> HIDE DEF d, n
  <1>4. /\ f \in Frames /\ f.b = b /\ f.lo = 1 /\ f.hi = n /\ f.cut = 1 /\ f.at = "attempt"
        /\ f.attempt = 1 /\ f.error = error
    BY <1>2, EmptySeq DEF Frame, Frames
  <1>5. stack' = << f >>
    BY DEF n
  <1> HIDE DEF f
  <1>6. FrameOK(f, d) /\ WholeBatch(f, d)
    BY <1>2, <1>3, <1>4, WholeFrame
  <1>7. Chain(stack', d)
    BY <1>5, <1>6, ChainOne
  <1> QED BY <1>7, CallStarts DEF d

\* A window calls for the parts of a batch that is too large.
LEMMA WindowSplit ==
  ASSUME DocumentInv, UNCHANGED <<mode, stage>>, stage \in {"translation", "review"},
         window'.open, NEW b \in BatchNo, Callee' = b,
         NEW record \in BOOLEAN, NEW cut \in 1..(Lines[b] - 1),
         stack' = << Frame(b, 1, cut, FALSE, "ok"),
                     [Frame(b, 1, Lines[b], record, "ok")
                        EXCEPT !.at = "left", !.cut = cut, !.forced = TRUE] >>,
         ret' = NoValue
  PROVE  CallInv'
PROOF
  <1> DEFINE d == Context'
             n == Lines[b]
             p == Frame(b, 1, cut, FALSE, "ok")
             f == Frame(b, 1, n, record, "ok")
             g == [f EXCEPT !.at = "left", !.cut = cut, !.forced = TRUE]
  <1>1. TypeInv
    BY DEF DocumentInv
  <1>2. n \in Nat \ {0} /\ b \in Nat /\ cut \in Nat /\ 1 <= cut /\ cut < n
    <2>1. n \in Nat \ {0} /\ b \in Nat
      BY <1>1, ModeFacts
    <2> QED BY <2>1
  <1>3. /\ d.b = b /\ d.lines = n /\ d.stage = stage
        /\ d.retries \in Nat /\ d.repairs \in Nat
    BY <1>1, NextContext
  <1>4. stack' = << p, g >>
    OBVIOUS
  <1> HIDE DEF d, n
  <1>5. /\ p \in Frames /\ p.b = b /\ p.lo = 1 /\ p.hi = cut /\ p.cut = 1 /\ p.at = "attempt"
        /\ p.attempt = 1 /\ p.error = "ok" /\ ~ p.record
    BY <1>2, EmptySeq DEF Frame, Frames
  <1>6. f \in Frames /\ f.b = b /\ f.lo = 1 /\ f.hi = n /\ f.attempt = 1 /\ f.error = "ok"
    BY <1>2, EmptySeq DEF Frame, Frames
  <1> HIDE DEF p, f
  <1>7. /\ g \in Frames /\ g.b = b /\ g.lo = 1 /\ g.hi = n /\ g.cut = cut /\ g.at = "left"
        /\ g.attempt = 1 /\ g.error = "ok"
    BY <1>2, <1>6 DEF Frames
  <1> HIDE DEF g
  <1>8. FrameOK(p, d) /\ PartOf(p, g)
    BY <1>2, <1>3, <1>5, <1>7 DEF FrameOK, PartOf, Low, High
  <1>9. FrameOK(g, d) /\ Fits(g, << >>, d)
    <2>1. Fits(g, << >>, d)
      BY <1>3, <1>7 DEF Fits, WholeBatch
    <2> QED BY <1>2, <1>3, <1>7, <2>1 DEF FrameOK
  <1>10. Chain(<< >>, d)
    BY ChainEmpty
  <1>11. Chain(<< p, g >> \o << >>, d)
    BY <1>8, <1>9, <1>10, ChainPushTwo
  <1>12. << p, g >> \o << >> = << p, g >>
    BY <1>5, <1>7
  <1>13. Chain(stack', d)
    BY <1>4, <1>11, <1>12
  <1> QED BY <1>13, CallStarts DEF d

\* Nothing but calls, accounting and trouble changes in a window.
LEMMA WindowKeeps ==
  ASSUME DocumentInv, UNCHANGED <<mode, stage>>,
         TypeInv', WindowInv', CallInv', FatalInv', answers' = answers,
         status' \in {"running", "cancelled"} \/ (status' = "failed" /\ trouble' # "none")
  PROVE  DocumentInv'
PROOF
  <1>1. TypeInv /\ AnswersInv /\ ProgressInv
    BY DEF DocumentInv
  <1>2. AnswersInv'
    BY <1>1 DEF AnswersInv, Batches
  <1>3. \A s \in Stages : \A b \in Batches(s) :
          answers'[s][b] \in {answers[s][b], From(1, mode.batches[s][b])}
    OBVIOUS
  <1>4. ProgressInv'
    BY <1>1, <1>3, ProgressStays
  <1> QED BY <1>2, <1>4 DEF DocumentInv

\* A batch of the window is called for.
LEMMA CallBatchStep ==
  ASSUME DocumentInv, UNCHANGED <<mode, stage>>, CallBatch
  PROVE  DocumentInv'
PROOF
  <1>1. /\ status = "running" /\ ret = NoValue /\ window.open /\ window.calls # {}
        /\ UNCHANGED <<mode, stage, answers, window, ret, requests, concurrency, wasLimited,
                       asked, cancelled, status, trouble>>
    BY DEF CallBatch, InWindow, Running, accounting
  <1>2. TypeInv /\ WindowInv /\ FatalInv
    BY DEF DocumentInv
  <1>3. stage \in {"translation", "review"} /\ window.calls \in SUBSET BatchNo
    BY <1>1, <1>2 DEF WindowInv
  <1> DEFINE b == First(window.calls)
  <1>4. b \in BatchNo
    <2>1. window.calls \in SUBSET Nat
      BY <1>2, <1>3, ModeFacts
    <2> QED BY <1>1, <1>3, <2>1, FirstIn
  <1>5. Callee' = b
    BY <1>1 DEF Callee, Caller, First
  <1>6. \/ stack' = << Frame(b, 1, Lines[b], ~ Parallel, "ok") >>
        \/ \E cut \in 1..(Lines[b] - 1) :
             stack' = << Frame(b, 1, cut, FALSE, "ok"),
                         [Frame(b, 1, Lines[b], ~ Parallel, "ok")
                            EXCEPT !.at = "left", !.cut = cut, !.forced = TRUE] >>
    BY DEF CallBatch
  <1> HIDE DEF b
  <1>7. CallInv'
    <2> DEFINE record == ~ Parallel
    <2>1. record \in BOOLEAN
      OBVIOUS
    <2>2. CASE stack' = << Frame(b, 1, Lines[b], record, "ok") >>
      <3> HIDE DEF record
      <3> QED BY <1>1, <1>3, <1>4, <1>5, <2>1, <2>2, WindowCall
    <2>3. CASE \E cut \in 1..(Lines[b] - 1) :
                 stack' = << Frame(b, 1, cut, FALSE, "ok"),
                             [Frame(b, 1, Lines[b], record, "ok")
                                EXCEPT !.at = "left", !.cut = cut, !.forced = TRUE] >>
      <3> HIDE DEF record
      <3> QED BY <1>1, <1>3, <1>4, <1>5, <2>1, <2>3, WindowSplit
    <2> QED BY <1>6, <2>2, <2>3
  <1>8. TypeInv'
    BY <1>1, <1>2 DEF TypeInv, Configured
  <1>9. WindowInv'
    BY <1>1, <1>2 DEF WindowInv, BatchNo, Lines
  <1>10. FatalInv'
    BY <1>1, <1>2, FatalKeeps
  <1> QED BY <1>1, <1>7, <1>8, <1>9, <1>10, WindowKeeps

\* Some batches of a window are a positive number.
LEMMA PendingCount ==
  ASSUME TypeInv, NEW S \in SUBSET BatchNo, S # {}
  PROVE  Cardinality(S) \in Nat /\ Cardinality(S) # 0
PROOF
  <1>1. Len(Lines) \in Nat
    BY ModeFacts DEF TypeInv, Lines
  <1>2. IsFiniteSet(BatchNo)
    BY <1>1, FS_Interval DEF BatchNo
  <1>3. IsFiniteSet(S)
    BY <1>2, FS_Subset
  <1> QED BY <1>3, FS_CardinalityType, FS_EmptySet

\* What cannot be reserved for one cannot be reserved for many.
LEMMA ReserveOne ==
  ASSUME TypeInv, NEW n \in Nat, n # 0, CanReserve(n)
  PROVE  CanReserve(1)
PROOF
  <1>1. requests \in Nat /\ mode.maxRequests \in Nat
    BY ModeFacts DEF TypeInv
  <1> QED BY <1>1 DEF CanReserve

\* The requests of a window are reserved and sent together.
LEMMA SendWindowStep ==
  ASSUME DocumentInv, UNCHANGED <<mode, stage>>, SendWindow
  PROVE  DocumentInv'
PROOF
  <1> DEFINE n == Cardinality(window.pending)
  <1>1. /\ status = "running" /\ ret = NoValue /\ stack = << >> /\ window.open
        /\ window.pending # {} /\ window.calls = {}
        /\ UNCHANGED <<mode, stage, answers, stack, ret, concurrency, wasLimited, cancelled>>
    BY DEF SendWindow, InWindow, Running
  <1>2. TypeInv /\ WindowInv /\ FatalInv
    BY DEF DocumentInv
  <1>3. stage \in {"translation", "review"} /\ window.pending \in SUBSET BatchNo
    BY <1>1, <1>2 DEF WindowInv
  <1>4. n \in Nat /\ n # 0
    BY <1>1, <1>2, <1>3, PendingCount
  <1>5. \/ /\ CanReserve(n) /\ requests' = requests + n
           /\ \E replies \in [window.pending -> Outcome \ {"cancelled"}] :
                window' = [window EXCEPT !.sent = TRUE, !.replies = replies]
           /\ UNCHANGED <<status, trouble>>
        \/ /\ CanReserve(n) /\ requests' = requests + n
           /\ status' = "failed" /\ Note("failed") /\ UNCHANGED window
        \/ /\ CanReserve(n) /\ requests' = requests + n
           /\ status' = "cancelled" /\ UNCHANGED <<window, trouble>>
        \/ /\ status' = "failed" /\ Note("budget") /\ UNCHANGED <<window, requests>>
    BY DEF SendWindow
  <1> HIDE DEF n
  <1>6. /\ trouble' \in {"none", "bad", "fatal"}
        /\ trouble # "none" => trouble' # "none"
        /\ status' = "failed" => trouble' # "none"
    <2>1. CASE UNCHANGED trouble /\ status' # "failed"
      BY <1>2, <2>1 DEF TypeInv
    <2>2. CASE Note("failed") \/ Note("budget")
      BY <1>2, <1>3, <2>2, NoteFacts, NotForgiven
    <2> QED BY <1>1, <1>5, <2>1, <2>2
  <1>7. TypeInv'
    <2>1. requests' \in 0..mode.maxRequests
      <3>1. CASE UNCHANGED requests
        BY <1>1, <1>2, <3>1 DEF TypeInv
      <3>2. CASE CanReserve(n) /\ requests' = requests + n
        BY <1>2, <1>4, <3>2, SendOK
      <3> QED BY <1>5, <3>1, <3>2
    <2>2. status' \in {"running", "failed", "cancelled"}
      BY <1>1, <1>5
    <2> QED BY <1>1, <1>2, <1>6, <2>1, <2>2 DEF TypeInv, Configured
  <1>8. WindowInv'
    <2>1. BatchNo' = BatchNo
      BY DEF BatchNo, Lines
    <2>2. CASE window' = window
      BY <1>1, <1>2, <1>6, <2>1, <2>2 DEF WindowInv
    <2>3. ASSUME NEW replies \in [window.pending -> Outcome \ {"cancelled"}],
                 window' = [window EXCEPT !.sent = TRUE, !.replies = replies]
          PROVE  WindowInv'
      <3>1. window.pending \in SUBSET Nat
        BY <1>2, <1>3, ModeFacts
      <3>2. replies \in [window.pending -> Outcome]
        OBVIOUS
      <3>3. replies \in Replies
        BY <3>1, <3>2 DEF Replies
      <3> HIDE DEF Replies
      <3> QED BY <1>1, <1>2, <1>6, <2>1, <2>3, <3>3 DEF WindowInv
    <2> QED BY <1>5, <2>2, <2>3
  <1>9. CallInv'
    BY <1>1, NoCall
  <1>10. FatalInv'
    <2>1. CASE status' = "running"
      <3>1. UNCHANGED <<status, trouble>> /\ CanReserve(n)
        BY <1>1, <1>5, <2>1
      <3>2. CanReserve(1)
        BY <1>2, <1>4, <3>1, ReserveOne
      <3> QED BY <1>1, <1>2, <3>1, <3>2, FatalKeeps
    <2>2. CASE status' # "running"
      BY <1>2, <1>3, <2>2, FatalStops
    <2> QED BY <2>1, <2>2
  <1> QED
    <2>1. status' \in {"running", "cancelled"} \/ (status' = "failed" /\ trouble' # "none")
      BY <1>1, <1>5, <1>6
    <2> QED BY <1>1, <1>7, <1>8, <1>9, <1>10, <2>1, WindowKeeps

\* The response of a batch is kept, the batch called once more, or the run ends.
LEMMA TakeResponseStep ==
  ASSUME DocumentInv, UNCHANGED <<mode, stage>>, TakeResponse
  PROVE  DocumentInv'
PROOF
  <1> DEFINE b == First(window.pending)
  <1>1. /\ status = "running" /\ ret = NoValue /\ stack = << >> /\ window.open
        /\ window.pending # {} /\ window.sent
        /\ UNCHANGED <<mode, stage, ret, requests, cancelled>>
    BY DEF TakeResponse, InWindow, Running
  <1>2. TypeInv /\ AnswersInv /\ WindowInv /\ ProgressInv /\ FatalInv
    BY DEF DocumentInv
  <1>3. stage \in {"translation", "review"} /\ window.pending \in SUBSET BatchNo
        /\ window.calls = {}
    BY <1>1, <1>2 DEF WindowInv
  <1>4. b \in BatchNo
    <2>1. window.pending \in SUBSET Nat
      BY <1>2, <1>3, ModeFacts
    <2> QED BY <1>1, <1>3, <2>1, FirstIn
  <1>5. PICK e \in Outcome \ {"cancelled"} :
          /\ NoteIfLimited(e)
          /\ \/ /\ e = "ok" /\ Answer(b, AllLines(b)) /\ DropPending
                /\ UNCHANGED <<stack, status, trouble>>
             \/ /\ IsRepairable(e) \/ (e = "limited" /\ stage = "translation")
                /\ stack' = << Frame(b, 1, Lines[b], TRUE, IF e = "limited" THEN "ok" ELSE e) >>
                /\ Note(IF e = "limited" THEN "requeued" ELSE e)
                /\ UNCHANGED <<answers, window, status>>
             \/ /\ e = "failed" \/ (e = "limited" /\ stage = "review")
                /\ status' = "failed" /\ Note(e) /\ UNCHANGED <<answers, window, stack>>
    BY DEF TakeResponse, Outcome, IsRepairable
  <1>6. concurrency' \in 1..Configured /\ wasLimited' \in BOOLEAN
    <2>1. NoteRateLimit \/ UNCHANGED <<wasLimited, concurrency>>
      BY <1>5 DEF NoteIfLimited
    <2> QED BY <1>2, <2>1, RateLimitOK
  <1>7. ASSUME trouble' \in {"none", "bad", "fatal"}, UNCHANGED status \/ status' = "failed"
        PROVE  TypeInv'
    <2>1. status' \in {"running", "failed"}
      BY <1>1, <1>7
    <2> QED BY <1>1, <1>2, <1>6, <1>7, <2>1 DEF TypeInv, Configured
  <1>8. BatchNo' = BatchNo
    BY <1>1 DEF BatchNo, Lines
  <1>9. CASE e = "ok" /\ Answer(b, AllLines(b)) /\ DropPending
             /\ UNCHANGED <<stack, status, trouble>>
    <2>1. TypeInv'
      BY <1>2, <1>7, <1>9 DEF TypeInv
    <2>2. /\ DOMAIN answers' = Stages
          /\ \A s \in Stages :
               /\ DOMAIN answers'[s] = Batches(s)
               /\ \A c \in Batches(s) :
                    answers'[s][c] \in {answers[s][c], From(1, mode.batches[s][c])}
      <3> HIDE DEF b
      <3> DEFINE lines == AllLines(b)
      <3>1. lines = From(1, Lines[b]) /\ Answer(b, lines)
        BY <1>9 DEF AllLines
      <3> HIDE DEF lines
      <3> QED BY <1>2, <1>4, <3>1, AnswerGrows
    <2>3. AnswersInv'
      BY <1>1, <1>2, <2>2, AnswersGrow
    <2>4. ProgressInv'
      <3>1. \A s \in Stages : \A c \in Batches(s) :
              answers'[s][c] \in {answers[s][c], From(1, mode.batches[s][c])}
        BY <2>2
      <3>2. status' \in {"running", "cancelled"} \/ (status' = "failed" /\ trouble' # "none")
        BY <1>1, <1>9
      <3> QED BY <1>1, <1>2, <3>1, <3>2, ProgressStays
    <2>5. WindowInv'
      <3>1. window' = [window EXCEPT !.pending = @ \ {b}]
        BY <1>9 DEF DropPending
      <3>2. window.pending \ {b} \in SUBSET BatchNo
        BY <1>3
      <3> HIDE DEF b
      <3> QED BY <1>1, <1>2, <1>8, <1>9, <3>1, <3>2 DEF WindowInv
    <2>6. CallInv'
      BY <1>1, <1>9, NoCall
    <2>7. FatalInv'
      BY <1>1, <1>2, <1>9, FatalKeeps
    <2> QED BY <2>1, <2>3, <2>4, <2>5, <2>6, <2>7 DEF DocumentInv
  <1>10. CASE /\ IsRepairable(e) \/ (e = "limited" /\ stage = "translation")
              /\ Note(IF e = "limited" THEN "requeued" ELSE e)
              /\ stack' = << Frame(b, 1, Lines[b], TRUE, IF e = "limited" THEN "ok" ELSE e) >>
              /\ UNCHANGED <<answers, window, status>>
    <2> DEFINE error == IF e = "limited" THEN "ok" ELSE e
               noted == IF e = "limited" THEN "requeued" ELSE e
    <2>1. trouble' \in {"none", "bad", "fatal"} /\ trouble' # "none"
          /\ (trouble' = "fatal" => trouble = "fatal")
      <3>1. noted \in {"requeued", "invalid", "malformed"}
        BY <1>10 DEF IsRepairable
      <3>2. Note(noted)
        BY <1>10
      <3> HIDE DEF noted
      <3> QED BY <1>2, <1>3, <3>1, <3>2, NoteFacts, NotForgiven DEF IsOperational
    <2>2. TypeInv'
      BY <1>7, <1>10, <2>1
    <2>3. WindowInv'
      BY <1>1, <1>2, <1>8, <1>10, <2>1 DEF WindowInv
    <2>4. Callee' = b
      BY <1>1, <1>3, <1>10 DEF Callee, Caller, First
    <2>5. error \in Error \cup {"ok"} /\ stack' = << Frame(b, 1, Lines[b], TRUE, error) >>
      BY <1>5, <1>10 DEF Error, Outcome
    <2>6. CallInv'
      <3> HIDE DEF b, error
      <3> QED BY <1>1, <1>3, <1>4, <1>10, <2>1, <2>4, <2>5, WindowCall
    <2>7. FatalInv'
      BY <1>1, <1>2, <1>10, <2>1, FatalKeeps
    <2>8. status' \in {"running", "cancelled"} \/ (status' = "failed" /\ trouble' # "none")
      BY <1>1, <1>10
    <2> QED BY <1>1, <1>10, <2>2, <2>3, <2>6, <2>7, <2>8, WindowKeeps
  <1>11. CASE /\ e = "failed" \/ (e = "limited" /\ stage = "review")
              /\ status' = "failed" /\ Note(e) /\ UNCHANGED <<answers, window, stack>>
    <2>1. trouble' \in {"none", "bad", "fatal"} /\ trouble' # "none"
      BY <1>2, <1>3, <1>11, NoteFacts, NotForgiven
    <2>2. TypeInv'
      BY <1>7, <1>11, <2>1
    <2>3. WindowInv'
      BY <1>1, <1>2, <1>8, <1>11, <2>1 DEF WindowInv
    <2>4. CallInv'
      BY <1>1, <1>11, NoCall
    <2>5. FatalInv'
      BY <1>1, <1>2, <1>3, <1>11, FatalStops
    <2> QED BY <1>1, <1>11, <2>1, <2>2, <2>3, <2>4, <2>5, WindowKeeps
  <1> QED BY <1>5, <1>9, <1>10, <1>11

\* The names of a batch are aligned, or it is called once more.
LEMMA ReconcileNamesStep ==
  ASSUME DocumentInv, UNCHANGED <<mode, stage>>, ReconcileNames
  PROVE  DocumentInv'
PROOF
  <1> DEFINE b == First(window.names)
  <1>1. /\ status = "running" /\ ret = NoValue /\ stack = << >> /\ window.open
        /\ window.names # {} /\ window.calls = {} /\ window.pending = {}
        /\ UNCHANGED <<mode, stage, answers, ret, requests, concurrency, wasLimited, asked,
                       cancelled>>
    BY DEF ReconcileNames, AllAnswered, InWindow, Running, accounting
  <1>2. TypeInv /\ WindowInv /\ FatalInv
    BY DEF DocumentInv
  <1>3. stage \in {"translation", "review"} /\ window.names \in SUBSET BatchNo
        /\ window \in [open : BOOLEAN, calls : SUBSET BatchNo, pending : SUBSET BatchNo,
                       sent : BOOLEAN, replies : Replies, names : SUBSET BatchNo, again : BOOLEAN]
    BY <1>1, <1>2 DEF WindowInv
  <1>4. b \in BatchNo
    <2>1. window.names \in SUBSET Nat
      BY <1>2, <1>3, ModeFacts
    <2> QED BY <1>1, <1>3, <2>1, FirstIn
  <1>5. BatchNo' = BatchNo
    BY <1>1 DEF BatchNo, Lines
  <1>6. CASE /\ window' = [window EXCEPT !.names = @ \ {b}, !.again = FALSE]
             /\ UNCHANGED <<stack, status, trouble>>
    <2>1. TypeInv'
      BY <1>1, <1>2, <1>6 DEF TypeInv, Configured
    <2>2. WindowInv'
      <3>1. window.names \ {b} \in SUBSET BatchNo
        BY <1>3
      <3> HIDE DEF b
      <3> QED BY <1>1, <1>2, <1>3, <1>5, <1>6, <3>1 DEF WindowInv
    <2>3. CallInv'
      BY <1>1, <1>6, NoCall
    <2>4. FatalInv'
      BY <1>1, <1>2, <1>6, FatalKeeps
    <2>5. status' \in {"running", "cancelled"} \/ (status' = "failed" /\ trouble' # "none")
      BY <1>1, <1>6
    <2> QED BY <1>1, <2>1, <2>2, <2>3, <2>4, <2>5, WindowKeeps
  <1>7. CASE /\ window' = [window EXCEPT !.again = TRUE]
             /\ stack' = << Frame(b, 1, Lines[b], TRUE, "invalid") >>
             /\ Note("invalid") /\ UNCHANGED status
    <2>1. trouble' \in {"none", "bad", "fatal"} /\ trouble' # "none"
          /\ (trouble' = "fatal" => trouble = "fatal")
      BY <1>2, <1>3, <1>7, NoteFacts, NotForgiven DEF IsOperational
    <2>2. TypeInv'
      BY <1>1, <1>2, <1>7, <2>1 DEF TypeInv, Configured
    <2>3. WindowInv'
      BY <1>1, <1>2, <1>3, <1>5, <1>7, <2>1 DEF WindowInv
    <2>4. /\ window'.open /\ window'.calls = {} /\ window'.pending = {}
          /\ window'.names = window.names
      BY <1>1, <1>3, <1>7
    <2>5. Callee' = b
      BY <2>4 DEF Callee, Caller, First
    <2>6. "invalid" \in Error \cup {"ok"}
      BY DEF Error, Outcome
    <2>7. CallInv'
      <3> HIDE DEF b
      <3> QED BY <1>1, <1>3, <1>4, <1>7, <2>1, <2>4, <2>5, <2>6, WindowCall
    <2>8. FatalInv'
      BY <1>1, <1>2, <1>7, <2>1, FatalKeeps
    <2>9. status' \in {"running", "cancelled"} \/ (status' = "failed" /\ trouble' # "none")
      BY <1>1, <1>7
    <2> QED BY <1>1, <2>2, <2>3, <2>7, <2>8, <2>9, WindowKeeps
  <1>8. CASE status' = "failed" /\ Note("invalid") /\ UNCHANGED <<window, stack>>
    <2>1. trouble' \in {"none", "bad", "fatal"} /\ trouble' # "none"
      BY <1>2, <1>3, <1>8, NoteFacts, NotForgiven
    <2>2. TypeInv'
      BY <1>1, <1>2, <1>8, <2>1 DEF TypeInv, Configured
    <2>3. WindowInv'
      BY <1>1, <1>2, <1>5, <1>8, <2>1 DEF WindowInv
    <2>4. CallInv'
      BY <1>1, <1>8, NoCall
    <2>5. FatalInv'
      BY <1>1, <1>2, <1>3, <1>8, FatalStops
    <2> QED BY <1>1, <1>8, <2>1, <2>2, <2>3, <2>4, <2>5, WindowKeeps
  <1> QED BY <1>6, <1>7, <1>8 DEF ReconcileNames

\* The value of a call that ended is the answer of its batch, or an error.
LEMMA EndedCall ==
  ASSUME DocumentInv, stack = << >>, ret # NoValue
  PROVE  /\ Callee \in BatchNo /\ ret.kind \in Error \cup {"ok"}
         /\ ret.kind = "ok" => ret.lines = From(1, Lines[Callee])
         /\ ret.kind \notin {"ok", "cancelled"} /\ ~ Forgiven(ret.kind) => trouble # "none"
         /\ stage = "correction" => Unanswered # {}
PROOF
  <1>1. CallInv /\ InCall
    BY DEF DocumentInv, InCall
  <1>2. Callee \in BatchNo /\ (stage = "correction" => Unanswered # {})
    BY <1>1 DEF CallInv
  <1>3. /\ ValueOK(ret, stack, Context)
        /\ ret.kind \notin {"ok", "cancelled"} /\ ~ Forgiven(ret.kind) => trouble # "none"
    BY <1>1 DEF CallInv
  <1>4. ret.kind \in Error \cup {"ok"} /\ (ret.kind = "ok" => ret.lines = From(1, Lines[Callee]))
    BY <1>3 DEF ValueOK, Context
  <1> QED BY <1>2, <1>3, <1>4

\* A batch is answered with its lines, and the call is over.
LEMMA AnswerStep ==
  ASSUME DocumentInv, UNCHANGED <<mode, stage, status, trouble>>,
         NEW b \in BatchNo, NEW lines, lines = From(1, Lines[b]), Answer(b, lines),
         stack' = << >>, ret' = NoValue, TypeInv', WindowInv', FatalInv',
         status = "running"
  PROVE  DocumentInv'
PROOF
  <1>1. TypeInv /\ AnswersInv /\ ProgressInv
    BY DEF DocumentInv
  <1>2. /\ DOMAIN answers' = Stages
        /\ \A s \in Stages :
             /\ DOMAIN answers'[s] = Batches(s)
             /\ \A c \in Batches(s) :
                  answers'[s][c] \in {answers[s][c], From(1, mode.batches[s][c])}
    BY <1>1, AnswerGrows
  <1>3. AnswersInv'
    BY <1>1, <1>2, AnswersGrow
  <1>4. ProgressInv'
    <2>1. \A s \in Stages : \A c \in Batches(s) :
            answers'[s][c] \in {answers[s][c], From(1, mode.batches[s][c])}
      BY <1>2
    <2>2. status' \in {"running", "cancelled"} \/ (status' = "failed" /\ trouble' # "none")
      OBVIOUS
    <2> QED BY <1>1, <2>1, <2>2, ProgressStays
  <1>5. CallInv'
    BY NoCall
  <1> QED BY <1>3, <1>4, <1>5 DEF DocumentInv

\* A call of a window returns: its batch is answered, or the run ends.
LEMMA CallReturnsStep ==
  ASSUME DocumentInv, UNCHANGED <<mode, stage>>, CallReturns
  PROVE  DocumentInv'
PROOF
  <1>1. /\ status = "running" /\ ret # NoValue /\ stack = << >> /\ window.open
        /\ ret' = NoValue /\ stack' = << >>
        /\ UNCHANGED <<mode, stage, stack, requests, concurrency, wasLimited, asked, cancelled,
                       trouble>>
    BY DEF CallReturns, accounting
  <1>2. TypeInv /\ WindowInv /\ FatalInv
    BY DEF DocumentInv
  <1>3. stage \in {"translation", "review"}
        /\ window \in [open : BOOLEAN, calls : SUBSET BatchNo, pending : SUBSET BatchNo,
                       sent : BOOLEAN, replies : Replies, names : SUBSET BatchNo, again : BOOLEAN]
    BY <1>1, <1>2 DEF WindowInv
  <1>4. /\ Callee \in BatchNo /\ Callee = Caller /\ ret.kind \in Error \cup {"ok"}
        /\ ret.kind = "ok" => ret.lines = From(1, Lines[Callee])
        /\ ret.kind \notin {"ok", "cancelled"} => trouble # "none"
    BY <1>1, <1>3, EndedCall, NotForgiven DEF Callee
  <1>5. BatchNo' = BatchNo
    BY <1>1 DEF BatchNo, Lines
  <1>6. CASE ret.kind = "ok"
    <2>1. /\ Answer(Caller, ret.lines) /\ UNCHANGED status
          /\ \/ window' = window
             \/ window' = [window EXCEPT !.calls = @ \ {First(@)}]
             \/ window' = [window EXCEPT !.pending = @ \ {First(@)}]
      BY <1>6 DEF CallReturns, DropPending
    <2>2. TypeInv'
      BY <1>1, <1>2, <2>1 DEF TypeInv, Configured
    <2>3. WindowInv'
      <3> DEFINE calls   == window.calls \ {First(window.calls)}
                 pending == window.pending \ {First(window.pending)}
      <3>1. calls \in SUBSET BatchNo /\ pending \in SUBSET BatchNo
            /\ (window.calls = {} => calls = {})
        BY <1>3
      <3>2. \/ window' = window
            \/ window' = [window EXCEPT !.calls = calls]
            \/ window' = [window EXCEPT !.pending = pending]
        BY <2>1
      <3> HIDE DEF calls, pending
      <3> QED BY <1>1, <1>2, <1>3, <1>5, <3>1, <3>2 DEF WindowInv
    <2>4. FatalInv'
      <3>1. CanReserve(1)' = CanReserve(1)
        BY <1>1 DEF CanReserve
      <3>2. trouble = "fatal" => ~ CanReserve(1)
        BY <1>1, <1>2, <1>6, FatalMeansNoRequest
      <3> QED BY <1>1, <1>3, <3>1, <3>2 DEF FatalInv
    <2> DEFINE b == Callee
               lines == ret.lines
    <2>5. b \in BatchNo /\ lines = From(1, Lines[b]) /\ Answer(b, lines)
      BY <1>4, <1>6, <2>1
    <2> HIDE DEF b, lines
    <2> QED BY <1>1, <2>1, <2>2, <2>3, <2>4, <2>5, AnswerStep
  <1>7. CASE ret.kind # "ok"
    <2>1. /\ UNCHANGED <<answers, window>>
          /\ \/ status' = "cancelled" /\ ret.kind = "cancelled"
             \/ /\ status' = "failed"
                /\ ret.kind # "cancelled" \/ window.again
      BY <1>7 DEF CallReturns
    <2>2. status' = "failed" => trouble' # "none"
      BY <1>1, <1>2, <1>4, <1>7, <2>1 DEF WindowInv
    <2>3. TypeInv'
      BY <1>1, <1>2, <2>1 DEF TypeInv, Configured
    <2>4. WindowInv'
      BY <1>1, <1>2, <1>5, <2>1 DEF WindowInv
    <2>5. CallInv'
      BY <1>1, NoCall
    <2>6. FatalInv'
      BY <1>1, <1>2, <1>3, <2>1, FatalStops
    <2>7. status' \in {"running", "cancelled"} \/ (status' = "failed" /\ trouble' # "none")
      BY <2>1, <2>2
    <2> QED BY <1>1, <2>1, <2>3, <2>4, <2>5, <2>6, <2>7, WindowKeeps
  <1> QED BY <1>6, <1>7

\* The window is over.
LEMMA CloseWindowStep ==
  ASSUME DocumentInv, UNCHANGED <<mode, stage>>, CloseWindow
  PROVE  DocumentInv'
PROOF
  <1>1. /\ status = "running" /\ ret = NoValue /\ stack = << >> /\ window.open
        /\ UNCHANGED <<mode, stage, answers, stack, ret, requests, asked, cancelled>>
        /\ \/ status' = "failed" /\ Note("invalid")
              /\ UNCHANGED <<window, concurrency, wasLimited>>
           \/ status' = "cancelled" /\ UNCHANGED <<window, concurrency, wasLimited, trouble>>
           \/ /\ window' = NoWindow /\ UNCHANGED <<status, trouble>>
              /\ NoteWindowSuccess \/ UNCHANGED <<concurrency, wasLimited>>
    BY DEF CloseWindow, AllAnswered, InWindow, Running, SendNothing
  <1>2. TypeInv /\ WindowInv /\ FatalInv
    BY DEF DocumentInv
  <1>3. stage \in {"translation", "review"}
    BY <1>1, <1>2 DEF WindowInv
  <1>4. /\ trouble' \in {"none", "bad", "fatal"} /\ (trouble # "none" => trouble' # "none")
        /\ status' = "failed" => trouble' # "none"
        /\ trouble' = "fatal" => trouble = "fatal"
    <2>1. CASE Note("invalid")
      BY <1>2, <1>3, <2>1, NoteFacts, NotForgiven DEF IsOperational
    <2>2. CASE UNCHANGED trouble /\ status' # "failed"
      BY <1>2, <2>2 DEF TypeInv
    <2> QED BY <1>1, <2>1, <2>2
  <1>5. concurrency' \in 1..Configured /\ wasLimited' \in BOOLEAN
    <2>1. concurrency \in 1..Configured /\ Configured \in Nat /\ wasLimited \in BOOLEAN
      BY <1>2, ModeFacts DEF TypeInv
    <2>2. wasLimited' \in {FALSE, wasLimited}
      BY <1>1 DEF NoteWindowSuccess
    <2>3. \/ concurrency' = concurrency
          \/ ~ (concurrency >= Configured) /\ concurrency' = concurrency + 1
      BY <1>1 DEF NoteWindowSuccess
    <2>4. concurrency' \in 1..Configured
      BY <2>1, <2>3
    <2>5. wasLimited' \in BOOLEAN
      BY <2>1, <2>2
    <2> QED BY <2>4, <2>5
  <1>6. TypeInv'
    <2>1. status' \in {"running", "failed", "cancelled"}
      BY <1>1
    <2> QED BY <1>1, <1>2, <1>4, <1>5, <2>1 DEF TypeInv, Configured
  <1>7. WindowInv'
    <2>1. BatchNo' = BatchNo
      BY <1>1 DEF BatchNo, Lines
    <2>2. window' = window \/ window' = NoWindow
      BY <1>1
    <2>3. CASE window' = window
      BY <1>1, <1>2, <1>4, <2>1, <2>3 DEF WindowInv
    <2>4. CASE window' = NoWindow
      <3>1. NoWindow \in [open : BOOLEAN, calls : SUBSET BatchNo, pending : SUBSET BatchNo,
                          sent : BOOLEAN, replies : Replies, names : SUBSET BatchNo, again : BOOLEAN]
            /\ ~ NoWindow.open /\ ~ NoWindow.sent /\ ~ NoWindow.again
        BY NoRepliesYet DEF NoWindow
      <3> QED BY <2>1, <2>4, <3>1 DEF WindowInv, NoWindow
    <2> QED BY <2>2, <2>3, <2>4
  <1>8. CallInv'
    BY <1>1, NoCall
  <1>9. FatalInv'
    <2>1. CASE status' = "running"
      <3>1. UNCHANGED <<status, trouble>>
        BY <1>1, <2>1
      <3> QED BY <1>1, <1>2, <3>1, FatalKeeps
    <2>2. CASE status' # "running"
      BY <1>1, <1>2, <1>3, <2>2, FatalStops
    <2> QED BY <2>1, <2>2
  <1>10. status' \in {"running", "cancelled"} \/ (status' = "failed" /\ trouble' # "none")
    BY <1>1, <1>4
  <1> QED BY <1>1, <1>6, <1>7, <1>8, <1>9, <1>10, WindowKeeps

-----------------------------------------------------------------------------
(* Steps of the stages *)

\* A stage calls for a batch in its own loop.
LEMMA StageCall ==
  ASSUME DocumentInv, UNCHANGED <<mode, stage>>, NEW b \in BatchNo, Callee' = b,
         NEW loop \in {"correction", "terminology"}, stage = loop, Call(b, loop),
         ret' = NoValue, stage = "correction" => Unanswered' # {}
  PROVE  CallInv'
PROOF
  <1> DEFINE d == Context'
             n == Lines[b]
             f == Frame(b, 1, n, TRUE, "ok")
             g == [f EXCEPT !.at = loop]
  <1>1. TypeInv
    BY DEF DocumentInv
  <1>2. n \in Nat \ {0} /\ b \in Nat
    BY <1>1, ModeFacts
  <1>3. /\ d.b = b /\ d.lines = n /\ d.stage = stage
        /\ d.retries \in Nat /\ d.repairs \in Nat
    BY <1>1, NextContext
  <1>4. stack' = << g >>
    BY DEF Call
  <1> HIDE DEF d, n
  <1>5. /\ f \in Frames /\ f.b = b /\ f.lo = 1 /\ f.hi = n /\ f.cut = 1 /\ f.attempt = 1
        /\ f.error = "ok"
    BY <1>2, EmptySeq DEF Frame, Frames
  <1> HIDE DEF f
  <1>6. /\ g \in Frames /\ g.b = b /\ g.lo = 1 /\ g.hi = n /\ g.cut = 1 /\ g.attempt = 1
        /\ g.error = "ok" /\ g.at = loop
    BY <1>5 DEF Frames
  <1> HIDE DEF g
  <1>7. FrameOK(g, d) /\ WholeBatch(g, d)
    BY <1>2, <1>3, <1>6, WholeFrame
  <1>8. Chain(stack', d)
    BY <1>4, <1>7, ChainOne
  <1> QED BY <1>8, CallStarts DEF d

\* The window is closed in every stage that is entered or goes on without it.
LEMMA ClosedWindow ==
  ASSUME WindowInv, ~ window.open, UNCHANGED window
  PROVE  WindowInv'
PROOF
  <1>1. window' = NoWindow
    BY DEF WindowInv
  <1>2. NoWindow \in [open : BOOLEAN, calls : SUBSET BatchNo', pending : SUBSET BatchNo',
                      sent : BOOLEAN, replies : Replies, names : SUBSET BatchNo', again : BOOLEAN]
        /\ ~ NoWindow.open /\ ~ NoWindow.sent /\ ~ NoWindow.again
    BY NoRepliesYet DEF NoWindow
  <1> QED BY <1>1, <1>2 DEF WindowInv, NoWindow

\* The run goes from one stage to the next one, or ends between them.
LEMMA StageEnds ==
  ASSUME DocumentInv, UNCHANGED <<mode, answers, window, requests, concurrency, wasLimited,
                                  cancelled, trouble>>,
         ~ window.open, stack' = << >>, ret' = NoValue, stage' \in Stages,
         status' \in {"running", "cancelled", "done"}, ProgressInv',
         trouble = "fatal" => ~ CanReserve(1) /\ stage' # "correction"
  PROVE  DocumentInv'
PROOF
  <1>1. TypeInv /\ AnswersInv /\ WindowInv
    BY DEF DocumentInv
  <1>2. TypeInv'
    BY <1>1 DEF TypeInv, Configured
  <1>3. AnswersInv'
    BY <1>1 DEF AnswersInv, Batches
  <1>4. WindowInv'
    BY <1>1, ClosedWindow
  <1>5. CallInv'
    BY NoCall
  <1>6. FatalInv'
    <2>1. CanReserve(1)' = CanReserve(1)
      BY DEF CanReserve
    <2> QED BY <2>1 DEF FatalInv
  <1> QED BY <1>2, <1>3, <1>4, <1>5, <1>6 DEF DocumentInv

\* A stage that stays the same, without a window.
LEMMA StageKeeps ==
  ASSUME DocumentInv, UNCHANGED <<mode, stage, answers, window, requests, concurrency,
                                  wasLimited, cancelled>>,
         ~ window.open, status = "running",
         trouble' \in {"none", "bad", "fatal"},
         status' \in {"running", "cancelled"} \/ (status' = "failed" /\ trouble' # "none"),
         CallInv', FatalInv'
  PROVE  DocumentInv'
PROOF
  <1>1. TypeInv /\ AnswersInv /\ WindowInv /\ ProgressInv
    BY DEF DocumentInv
  <1>2. TypeInv'
    <2>1. status' \in {"running", "cancelled", "failed"}
      OBVIOUS
    <2> QED BY <1>1, <2>1 DEF TypeInv, Configured
  <1>3. WindowInv'
    BY <1>1, ClosedWindow
  <1> QED BY <1>2, <1>3, WindowKeeps

\* The candidates of a batch are corrected.
LEMMA CorrectBatchStep ==
  ASSUME DocumentInv, UNCHANGED mode, CorrectBatch
  PROVE  DocumentInv'
PROOF
  <1>1. /\ stage = "correction" /\ Unanswered # {} /\ status = "running" /\ ret = NoValue
        /\ ~ window.open /\ stack = << >>
        /\ UNCHANGED <<mode, stage, answers, window, requests, concurrency, wasLimited, asked,
                       cancelled, status>>
        /\ \/ ret' = Err("cancelled") /\ UNCHANGED <<stack, trouble>>
           \/ ret' = Err("budget") /\ Note("budget") /\ UNCHANGED stack
           \/ Call(NextBatch, "correction") /\ UNCHANGED <<ret, trouble>>
    BY DEF CorrectBatch, Idle, Running, accounting
  <1>2. TypeInv /\ FatalInv
    BY DEF DocumentInv
  <1>3. trouble' \in {"none", "bad", "fatal"} /\ trouble' # "fatal"
    <2>1. CASE UNCHANGED trouble
      BY <1>1, <1>2, <2>1 DEF TypeInv, FatalInv
    <2>2. CASE Note("budget")
      BY <1>1, <1>2, <2>2, NoteFacts DEF FatalInv
    <2> QED BY <1>1, <2>1, <2>2
  <1>4. Unanswered' = Unanswered /\ BatchNo' = BatchNo
    BY <1>1 DEF Unanswered, BatchNo, Lines, answer
  <1>5. Callee' = NextBatch
    BY <1>1, <1>4 DEF Callee, NextBatch, First
  <1>6. NextBatch \in BatchNo
    <2>1. Unanswered \in SUBSET Nat /\ Unanswered \in SUBSET BatchNo
      BY <1>2, ModeFacts DEF Unanswered
    <2>2. First(Unanswered) \in Unanswered
      BY <1>1, <2>1, FirstIn
    <2> QED BY <2>1, <2>2 DEF NextBatch
  <1>7. CallInv'
    <2>1. CASE Call(NextBatch, "correction") /\ UNCHANGED ret
      <3>1. "correction" \in {"correction", "terminology"} /\ ret' = NoValue
        BY <1>1, <2>1
      <3> QED BY <1>1, <1>4, <1>5, <1>6, <2>1, <3>1, StageCall
    <2>2. ASSUME NEW e \in {"cancelled", "budget"}, ret' = Err(e), UNCHANGED stack,
                 e = "budget" => Note("budget")
          PROVE  CallInv'
      <3> DEFINE d == Context'
      <3>1. Chain(stack', d)
        BY <1>1, <2>2, ChainEmpty
      <3> HIDE DEF d
      <3>2. ret'.kind = e /\ e \in Error
        BY <2>2 DEF Err, Error, Outcome
      <3>3. ValueOK(ret', stack', d)
        BY <3>2 DEF ValueOK, Error, Outcome
      <3>4. e # "cancelled" /\ ~ Forgiven(e) => trouble' # "none"
        BY <1>2, <2>2, NoteFacts
      <3>5. Forgiven(ret.kind)' = Forgiven(ret'.kind)
        BY <1>1 DEF Forgiven
      <3> QED BY <1>1, <1>4, <1>5, <1>6, <3>1, <3>2, <3>3, <3>4, <3>5 DEF CallInv, d
    <2> QED BY <1>1, <2>1, <2>2
  <1>8. FatalInv'
    BY <1>3 DEF FatalInv
  <1>9. status' \in {"running", "cancelled"} \/ (status' = "failed" /\ trouble' # "none")
    BY <1>1
  <1> QED BY <1>1, <1>3, <1>7, <1>8, <1>9, StageKeeps

\* A batch of a stage without windows is answered.
LEMMA StageAnswer ==
  ASSUME DocumentInv, UNCHANGED <<mode, stage, window, requests, concurrency, wasLimited,
                                  cancelled, status, trouble>>,
         ~ window.open, status = "running", ret.kind \in {"ok", "none"},
         stack' = << >>, ret' = NoValue,
         NEW b \in BatchNo, NEW lines, lines = From(1, Lines[b]), Answer(b, lines)
  PROVE  DocumentInv'
PROOF
  <1>1. TypeInv /\ WindowInv /\ FatalInv
    BY DEF DocumentInv
  <1>2. TypeInv'
    BY <1>1 DEF TypeInv, Configured
  <1>3. WindowInv'
    BY <1>1, ClosedWindow
  <1>4. FatalInv'
    <2>1. CanReserve(1)' = CanReserve(1)
      BY DEF CanReserve
    <2>2. trouble = "fatal" => ~ CanReserve(1)
      BY <1>1, FatalMeansNoRequest
    <2> QED BY <1>1, <2>1, <2>2 DEF FatalInv
  <1> QED BY <1>2, <1>3, <1>4, AnswerStep

\* The progress that a stage makes when it is left.
LEMMA ProgressMoves ==
  ASSUME DocumentInv, UNCHANGED <<mode, answers, trouble>>, status' # "failed",
         stage' # "correction" /\ mode.correction = "strict" => StageDone("correction"),
         stage' \notin {"correction", "terminology"} /\ mode.preflight = "strict" =>
           StageDone("terminology"),
         stage' \in {"review", "validation"} => StageDone("translation"),
         stage' = "validation" => StageDone("review"),
         status' = "done" => stage' = "validation" /\ StageDone("validation")
  PROVE  ProgressInv'
PROOF
  <1>1. \A s : StageDone(s)' = StageDone(s)
    BY DEF StageDone, Batches
  <1>2. mode' = mode
    OBVIOUS
  <1> QED BY <1>1, <1>2 DEF ProgressInv

\* A stage is done when none of its batches lacks an answer.
LEMMA AllAnsweredDone ==
  ASSUME TypeInv, Unanswered = {} PROVE StageDone(stage)
BY DEF Unanswered, StageDone, Batches, BatchNo, Lines, answer

\* A batch is corrected, or the correction or the run ends.
LEMMA CorrectionReturnsStep ==
  ASSUME DocumentInv, UNCHANGED mode, CorrectionReturns
  PROVE  DocumentInv'
PROOF
  <1>1. /\ stage = "correction" /\ status = "running" /\ ret # NoValue /\ stack = << >>
        /\ ~ window.open /\ ret' = NoValue /\ stack' = << >>
        /\ UNCHANGED <<mode, window, requests, concurrency, wasLimited, asked, cancelled,
                       trouble>>
    BY DEF CorrectionReturns, CallReturned, accounting
  <1>2. TypeInv /\ ProgressInv /\ FatalInv
    BY DEF DocumentInv
  <1>3. trouble # "fatal"
    BY <1>1, <1>2 DEF FatalInv
  <1>4. /\ NextBatch \in BatchNo /\ ret.kind \in Error \cup {"ok"}
        /\ ret.kind = "ok" => ret.lines = From(1, Lines[NextBatch])
        /\ ret.kind \notin {"ok", "cancelled"} /\ ~ Forgiven(ret.kind) => trouble # "none"
    BY <1>1, EndedCall DEF Callee
  <1>5. CASE ret.kind = "ok" /\ Answer(NextBatch, ret.lines) /\ UNCHANGED <<stage, status>>
    <2> DEFINE b == NextBatch
               lines == ret.lines
    <2>1. b \in BatchNo /\ lines = From(1, Lines[b]) /\ Answer(b, lines)
      BY <1>4, <1>5
    <2> HIDE DEF b, lines
    <2> QED BY <1>1, <1>5, <2>1, StageAnswer
  <1>6. CASE /\ UNCHANGED <<stage, answers>>
             /\ \/ status' = "cancelled"
                \/ /\ ret.kind \notin {"ok", "cancelled"} /\ mode.correction = "strict"
                   /\ status' = "failed"
    <2>1. status' = "failed" => trouble' # "none"
      BY <1>1, <1>4, <1>6 DEF Forgiven
    <2>2. trouble' \in {"none", "bad", "fatal"}
      BY <1>1, <1>2 DEF TypeInv
    <2>3. CallInv'
      BY <1>1, NoCall
    <2>4. FatalInv'
      BY <1>1, <1>3 DEF FatalInv
    <2>5. status' \in {"running", "cancelled"} \/ (status' = "failed" /\ trouble' # "none")
      BY <1>6, <2>1
    <2> QED BY <1>1, <1>6, <2>2, <2>3, <2>4, <2>5, StageKeeps
  <1>7. CASE mode.correction = "optional" /\ EnterUnlessCancelled("terminology")
             /\ UNCHANGED answers
    <2>1. /\ status' \in {"running", "cancelled"} /\ stage' \in {"correction", "terminology"}
          /\ stage' \in Stages
      BY <1>1, <1>7 DEF EnterUnlessCancelled, Enter, Stages
    <2>2. ProgressInv'
      BY <1>1, <1>7, <2>1, ProgressMoves
    <2> QED BY <1>1, <1>3, <1>7, <2>1, <2>2, StageEnds
  <1> QED BY <1>5, <1>6, <1>7 DEF CorrectionReturns

\* The correction is over.
LEMMA CorrectionEndsStep ==
  ASSUME DocumentInv, UNCHANGED mode, CorrectionEnds
  PROVE  DocumentInv'
PROOF
  <1>1. /\ stage = "correction" /\ status = "running" /\ ret = NoValue /\ stack = << >>
        /\ ~ window.open /\ EnterUnlessCancelled("terminology")
        /\ mode.correction = "off" \/ Unanswered = {}
        /\ UNCHANGED <<mode, answers, window, stack, ret, requests, concurrency, wasLimited,
                       cancelled, trouble>>
    BY DEF CorrectionEnds, Idle, Running, accounting
  <1>2. TypeInv /\ ProgressInv /\ FatalInv
    BY DEF DocumentInv
  <1>3. trouble # "fatal"
    BY <1>1, <1>2 DEF FatalInv
  <1>4. /\ status' \in {"running", "cancelled"} /\ stage' \in {"correction", "terminology"}
        /\ stage' \in Stages
    BY <1>1 DEF EnterUnlessCancelled, Enter, Stages
  <1>5. mode.correction = "strict" => StageDone("correction")
    BY <1>1, <1>2, AllAnsweredDone
  <1>6. ProgressInv'
    BY <1>1, <1>4, <1>5, ProgressMoves
  <1> QED BY <1>1, <1>3, <1>4, <1>6, StageEnds

\* The terms of the document are taken from the store, or asked for.
LEMMA PreflightStarts ==
  ASSUME DocumentInv, UNCHANGED mode, PreflightCached \/ Preflight
  PROVE  DocumentInv'
PROOF
  <1>1. /\ stage = "terminology" /\ status = "running" /\ ret = NoValue /\ stack = << >>
        /\ ~ window.open
        /\ UNCHANGED <<mode, stage, window, ret, requests, concurrency, wasLimited, cancelled,
                       status, trouble>>
    BY DEF PreflightCached, Preflight, Idle, Running, accounting
  <1>2. TypeInv /\ FatalInv
    BY DEF DocumentInv
  <1>3. 1 \in BatchNo
    BY <1>1, <1>2, ModeFacts
  <1>4. CASE PreflightCached
    <2> DEFINE lines == AllLines(1)
    <2>1. lines = From(1, Lines[1]) /\ Answer(1, lines) /\ stack' = << >>
      BY <1>1, <1>4 DEF PreflightCached, AllLines
    <2>2. ret.kind \in {"ok", "none"}
      BY <1>1 DEF NoValue
    <2> HIDE DEF lines
    <2> QED BY <1>1, <1>3, <2>1, <2>2, StageAnswer
  <1>5. CASE Preflight
    <2>1. Call(1, "terminology") /\ UNCHANGED answers
      BY <1>5 DEF Preflight
    <2>2. Callee' = 1
      BY <1>1 DEF Callee
    <2>3. "terminology" \in {"correction", "terminology"}
      OBVIOUS
    <2>4. CallInv'
      BY <1>1, <1>3, <2>1, <2>2, <2>3, StageCall
    <2>5. FatalInv'
      BY <1>1, <1>2, FatalKeeps
    <2>6. trouble' \in {"none", "bad", "fatal"}
      BY <1>1, <1>2 DEF TypeInv
    <2>7. status' \in {"running", "cancelled"} \/ (status' = "failed" /\ trouble' # "none")
      BY <1>1
    <2> QED BY <1>1, <2>1, <2>4, <2>5, <2>6, <2>7, StageKeeps
  <1> QED BY <1>4, <1>5

\* The preflight has an answer, fails the run, or is done without.
LEMMA PreflightReturnsStep ==
  ASSUME DocumentInv, UNCHANGED mode, PreflightReturns
  PROVE  DocumentInv'
PROOF
  <1>1. /\ stage = "terminology" /\ status = "running" /\ ret # NoValue /\ stack = << >>
        /\ ~ window.open /\ ret' = NoValue /\ stack' = << >>
        /\ UNCHANGED <<mode, window, requests, concurrency, wasLimited, asked, cancelled,
                       trouble>>
    BY DEF PreflightReturns, CallReturned, accounting
  <1>2. TypeInv /\ ProgressInv /\ FatalInv
    BY DEF DocumentInv
  <1>3. /\ 1 \in BatchNo
        /\ ret.kind = "ok" => ret.lines = From(1, Lines[1])
        /\ ret.kind \notin {"ok", "cancelled"} /\ ~ Forgiven(ret.kind) => trouble # "none"
    BY <1>1, EndedCall DEF Callee
  <1>4. CASE ret.kind = "ok" /\ Answer(1, ret.lines) /\ UNCHANGED <<stage, status>>
    <2> DEFINE lines == ret.lines
    <2>1. lines = From(1, Lines[1]) /\ Answer(1, lines)
      BY <1>3, <1>4
    <2> HIDE DEF lines
    <2> QED BY <1>1, <1>3, <1>4, <2>1, StageAnswer
  <1>5. CASE /\ ret.kind = "budget" \/ (ret.kind # "ok" /\ mode.preflight = "strict")
             /\ status' = IF ret.kind = "cancelled" THEN "cancelled" ELSE "failed"
             /\ UNCHANGED <<stage, answers>>
    <2>1. status' = "failed" => trouble' # "none"
      BY <1>1, <1>3, <1>5 DEF Forgiven
    <2>2. trouble' \in {"none", "bad", "fatal"}
      BY <1>1, <1>2 DEF TypeInv
    <2>3. CallInv'
      BY <1>1, NoCall
    <2>4. FatalInv'
      BY <1>1, <1>2, <1>5, FatalStops
    <2>5. status' \in {"running", "cancelled"} \/ (status' = "failed" /\ trouble' # "none")
      BY <1>5, <2>1
    <2> QED BY <1>1, <1>5, <2>2, <2>3, <2>4, <2>5, StageKeeps
  <1>6. CASE mode.preflight = "optional" /\ Enter("translation") /\ UNCHANGED <<answers, status>>
    <2>1. stage' = "translation" /\ stage' \in Stages
      BY <1>6 DEF Enter, Stages
    <2>2. ProgressInv'
      <3>1. mode.correction = "strict" => StageDone("correction")
        BY <1>1, <1>2 DEF ProgressInv
      <3> QED BY <1>1, <1>6, <2>1, <3>1, ProgressMoves
    <2>3. trouble = "fatal" => ~ CanReserve(1)
      BY <1>1, <1>2, <1>6 DEF FatalInv
    <2>4. status' \in {"running", "cancelled", "done"}
      BY <1>1, <1>6
    <2> QED BY <1>1, <1>6, <2>1, <2>2, <2>3, <2>4, StageEnds
  <1> QED BY <1>4, <1>5, <1>6 DEF PreflightReturns

\* The preflight is over.
LEMMA PreflightEndsStep ==
  ASSUME DocumentInv, UNCHANGED mode, PreflightEnds
  PROVE  DocumentInv'
PROOF
  <1>1. /\ stage = "terminology" /\ status = "running" /\ ret = NoValue /\ stack = << >>
        /\ ~ window.open /\ stage' = "translation"
        /\ mode.preflight = "off" \/ Unanswered = {}
        /\ UNCHANGED <<mode, answers, window, stack, ret, requests, concurrency, wasLimited,
                       cancelled, status, trouble>>
    BY DEF PreflightEnds, Idle, Running, Enter, accounting
  <1>2. TypeInv /\ ProgressInv /\ FatalInv
    BY DEF DocumentInv
  <1>3. trouble = "fatal" => ~ CanReserve(1)
    BY <1>1, <1>2, FatalMeansNoRequest DEF NoValue
  <1>4. ProgressInv'
    <2>1. mode.correction = "strict" => StageDone("correction")
      BY <1>1, <1>2 DEF ProgressInv
    <2>2. mode.preflight = "strict" => StageDone("terminology")
      BY <1>1, <1>2, AllAnsweredDone
    <2> QED BY <1>1, <2>1, <2>2, ProgressMoves
  <1>5. stage' \in Stages /\ status' \in {"running", "cancelled", "done"}
    BY <1>1 DEF Stages
  <1> QED BY <1>1, <1>3, <1>4, <1>5, StageEnds

\* All batches of the translation or the review are committed.
LEMMA WindowsEndStep ==
  ASSUME DocumentInv, UNCHANGED mode, WindowsEnd
  PROVE  DocumentInv'
PROOF
  <1> DEFINE next == IF stage = "translation" THEN "review" ELSE "validation"
  <1>1. /\ stage \in {"translation", "review"} /\ status = "running" /\ ret = NoValue
        /\ stack = << >> /\ ~ window.open /\ EnterUnlessCancelled(next) /\ Unanswered = {}
        /\ UNCHANGED <<mode, answers, window, stack, ret, requests, concurrency, wasLimited,
                       cancelled, trouble>>
    BY DEF WindowsEnd, Idle, Running, accounting
  <1>2. TypeInv /\ ProgressInv /\ FatalInv
    BY DEF DocumentInv
  <1>3. trouble = "fatal" => ~ CanReserve(1)
    BY <1>1, <1>2, FatalMeansNoRequest DEF NoValue
  <1>4. /\ status' \in {"running", "cancelled"} /\ stage' \in {stage, next}
        /\ stage' \in Stages
    BY <1>1 DEF EnterUnlessCancelled, Enter, Stages
  <1>5. ProgressInv'
    <2>1. StageDone(stage)
      BY <1>1, <1>2, AllAnsweredDone
    <2>2. /\ mode.correction = "strict" => StageDone("correction")
          /\ mode.preflight = "strict" => StageDone("terminology")
          /\ StageDone("translation")
      BY <1>1, <1>2, <2>1 DEF ProgressInv
    <2>3. stage' = "validation" => StageDone("review")
      BY <1>1, <1>4, <2>1
    <2> QED BY <1>1, <1>4, <2>2, <2>3, ProgressMoves
  <1>6. stage' # "correction"
    BY <1>1, <1>4
  <1> QED BY <1>1, <1>3, <1>4, <1>5, <1>6, StageEnds

\* The output passes the final validation, is to be repaired, or fails the run.
LEMMA ValidateStep ==
  ASSUME DocumentInv, UNCHANGED mode, Validate
  PROVE  DocumentInv'
PROOF
  <1> DEFINE f == [Frame(1, 1, 1, TRUE, "invalid") EXCEPT !.at = "repair"]
  <1>1. /\ stage = "validation" /\ status = "running" /\ ret = NoValue /\ stack = << >>
        /\ ~ window.open
        /\ UNCHANGED <<mode, stage, window, ret, requests, concurrency, wasLimited, cancelled>>
        /\ \/ Answer(1, AllLines(1)) /\ UNCHANGED <<stack, status, trouble>>
           \/ Note("invalid") /\ RepairLimit > 0 /\ stack' = << f >>
              /\ UNCHANGED <<answers, status>>
           \/ Note("invalid") /\ status' = "failed" /\ UNCHANGED <<answers, stack>>
    BY DEF Validate, Idle, Running, accounting
  <1>2. TypeInv /\ FatalInv
    BY DEF DocumentInv
  <1>3. 1 \in BatchNo
    BY <1>1, <1>2, ModeFacts
  <1>4. CASE Answer(1, AllLines(1)) /\ UNCHANGED <<stack, status, trouble>>
    <2> DEFINE lines == AllLines(1)
    <2>1. lines = From(1, Lines[1]) /\ Answer(1, lines) /\ stack' = << >>
      BY <1>1, <1>4 DEF AllLines
    <2>2. ret.kind \in {"ok", "none"}
      BY <1>1 DEF NoValue
    <2> HIDE DEF lines
    <2> QED BY <1>1, <1>3, <1>4, <2>1, <2>2, StageAnswer
  <1>5. CASE Note("invalid")
    <2>1. trouble' \in {"none", "bad", "fatal"} /\ trouble' # "none"
          /\ (trouble' = "fatal" => trouble = "fatal")
      BY <1>1, <1>2, <1>5, NoteFacts, NotForgiven DEF IsOperational
    <2>2. CASE RepairLimit > 0 /\ stack' = << f >> /\ UNCHANGED <<answers, status>>
      <3> DEFINE d == Context'
      <3>1. Callee' = 1
        BY <1>1 DEF Callee
      <3>2. /\ d.b = 1 /\ d.lines = Lines[1] /\ d.stage = stage
            /\ d.retries \in Nat /\ d.repairs = RepairLimit /\ d.repairs \in Nat
            /\ d.troubled
        BY <1>1, <1>2, <2>1, <3>1, NextContext
      <3>3. Lines[1] = 1
        <4>1. Lines = << 1 >>
          BY <1>1, <1>2, ModesAssumption DEF TypeInv, Lines
        <4> QED BY <4>1
      <3> HIDE DEF d
      <3>4. /\ f \in Frames /\ f.b = 1 /\ f.lo = 1 /\ f.hi = 1 /\ f.cut = 1 /\ f.attempt = 1
            /\ f.error = "invalid" /\ f.at = "repair" /\ f.record
        <4> DEFINE g == Frame(1, 1, 1, TRUE, "invalid")
        <4>1. /\ g \in Frames /\ g.b = 1 /\ g.lo = 1 /\ g.hi = 1 /\ g.cut = 1 /\ g.attempt = 1
              /\ g.error = "invalid" /\ g.record
          BY EmptySeq DEF Frame, Frames, Error, Outcome
        <4> HIDE DEF g
        <4>2. /\ [g EXCEPT !.at = "repair"] \in Frames
              /\ \A k \in {"b", "lo", "hi", "cut", "attempt", "error", "record"} :
                   [g EXCEPT !.at = "repair"][k] = g[k]
              /\ [g EXCEPT !.at = "repair"].at = "repair"
          BY <4>1 DEF Frames
        <4> QED BY <4>1, <4>2 DEF g
      <3> HIDE DEF f
      <3>5. FrameOK(f, d) /\ WholeBatch(f, d)
        BY <1>1, <2>2, <3>2, <3>3, <3>4, WholeFrame DEF IsRepairable
      <3>6. Chain(stack', d)
        BY <2>2, <3>5, ChainOne
      <3>7. CallInv'
        BY <1>1, <1>3, <3>1, <3>6, CallStarts DEF d
      <3>8. FatalInv'
        BY <1>1, <1>2, <2>1, <2>2, FatalKeeps
      <3>9. status' \in {"running", "cancelled"} \/ (status' = "failed" /\ trouble' # "none")
        BY <1>1, <2>2
      <3> QED BY <1>1, <2>1, <2>2, <3>7, <3>8, <3>9, StageKeeps
    <2>3. CASE status' = "failed" /\ UNCHANGED <<answers, stack>>
      <3>1. CallInv'
        BY <1>1, <2>3, NoCall
      <3>2. FatalInv'
        BY <1>1, <1>2, <2>3, FatalStops
      <3>3. status' \in {"running", "cancelled"} \/ (status' = "failed" /\ trouble' # "none")
        BY <2>1, <2>3
      <3> QED BY <1>1, <2>1, <2>3, <3>1, <3>2, <3>3, StageKeeps
    <2>4. CASE Answer(1, AllLines(1)) /\ UNCHANGED <<stack, status, trouble>>
      BY <1>4, <2>4
    <2> QED BY <1>1, <2>2, <2>3, <2>4
  <1> QED BY <1>1, <1>4, <1>5

\* The repaired lines pass the validation, or the run fails.
LEMMA ValidationReturnsStep ==
  ASSUME DocumentInv, UNCHANGED mode, ValidationReturns
  PROVE  DocumentInv'
PROOF
  <1>1. /\ stage = "validation" /\ status = "running" /\ ret # NoValue /\ stack = << >>
        /\ ~ window.open /\ ret' = NoValue /\ stack' = << >>
        /\ UNCHANGED <<mode, stage, window, requests, concurrency, wasLimited, cancelled,
                       trouble>>
    BY DEF ValidationReturns, CallReturned, accounting
  <1>2. TypeInv /\ FatalInv
    BY DEF DocumentInv
  <1>3. /\ 1 \in BatchNo
        /\ ret.kind = "ok" => ret.lines = From(1, Lines[1])
        /\ ret.kind \notin {"ok", "cancelled"} => trouble # "none"
    BY <1>1, EndedCall, NotForgiven DEF Callee
  <1>4. CASE ret.kind = "ok"
    <2> DEFINE lines == ret.lines
    <2>1. lines = From(1, Lines[1]) /\ Answer(1, lines) /\ UNCHANGED status
      BY <1>3, <1>4 DEF ValidationReturns
    <2> HIDE DEF lines
    <2> QED BY <1>1, <1>3, <1>4, <2>1, StageAnswer
  <1>5. CASE ret.kind # "ok"
    <2>1. /\ status' = IF ret.kind = "cancelled" THEN "cancelled" ELSE "failed"
          /\ UNCHANGED answers
      BY <1>5 DEF ValidationReturns
    <2>2. status' \in {"running", "cancelled"} \/ (status' = "failed" /\ trouble' # "none")
      BY <1>1, <1>3, <1>5, <2>1
    <2>3. trouble' \in {"none", "bad", "fatal"}
      BY <1>1, <1>2 DEF TypeInv
    <2>4. CallInv'
      BY <1>1, NoCall
    <2>5. FatalInv'
      BY <1>1, <1>2, <2>1, FatalStops
    <2> QED BY <1>1, <2>1, <2>2, <2>3, <2>4, <2>5, StageKeeps
  <1> QED BY <1>4, <1>5

\* The run is done.
LEMMA ValidationEndsStep ==
  ASSUME DocumentInv, UNCHANGED mode, ValidationEnds
  PROVE  DocumentInv'
PROOF
  <1>1. /\ stage = "validation" /\ status = "running" /\ ret = NoValue /\ stack = << >>
        /\ ~ window.open /\ Unanswered = {} /\ status' \in {"cancelled", "done"}
        /\ UNCHANGED <<mode, stage, answers, window, stack, ret, requests, concurrency,
                       wasLimited, cancelled, trouble>>
    BY DEF ValidationEnds, Idle, Running, accounting
  <1>2. TypeInv /\ ProgressInv /\ FatalInv
    BY DEF DocumentInv
  <1>3. trouble = "fatal" => ~ CanReserve(1)
    BY <1>1, <1>2, FatalMeansNoRequest DEF NoValue
  <1>4. ProgressInv'
    <2>1. StageDone("validation")
      BY <1>1, <1>2, AllAnsweredDone
    <2>2. /\ mode.correction = "strict" => StageDone("correction")
          /\ mode.preflight = "strict" => StageDone("terminology")
          /\ StageDone("translation") /\ StageDone("review")
      BY <1>1, <1>2 DEF ProgressInv
    <2> QED BY <1>1, <2>1, <2>2, ProgressMoves
  <1>5. stage' \in Stages /\ status' \in {"running", "cancelled", "done"}
    BY <1>1 DEF Stages
  <1> QED BY <1>1, <1>3, <1>4, <1>5, StageEnds

\* Cancelling is noticed later.
LEMMA CancelStep ==
  ASSUME DocumentInv, UNCHANGED <<mode, stage>>, Cancel
  PROVE  DocumentInv'
PROOF
  <1>1. UNCHANGED <<mode, stage, answers, window, stack, ret, requests, concurrency, wasLimited,
                    status, trouble>> /\ cancelled' = TRUE
    BY DEF Cancel, accounting
  <1>2. TypeInv /\ CallInv /\ FatalInv
    BY DEF DocumentInv
  <1>3. TypeInv'
    BY <1>1, <1>2 DEF TypeInv, Configured
  <1>4. Callee' = Callee /\ BatchNo' = BatchNo /\ Unanswered' = Unanswered
        /\ Context' = Context
    BY <1>1 DEF Callee, Caller, NextBatch, First, BatchNo, Unanswered, Context, Lines, answer,
                Retries, RepairLimit
  <1>5. CallInv'
    <2>1. Forgiven(ret.kind)' = Forgiven(ret.kind)
      BY <1>1 DEF Forgiven
    <2> QED BY <1>1, <1>2, <1>4, <2>1 DEF CallInv, InCall
  <1>6. FatalInv'
    BY <1>1, <1>2 DEF FatalInv, CanReserve
  <1> QED BY <1>1, <1>3, <1>5, <1>6, InnerKeeps

\* Nothing happens.
LEMMA StutterStep == ASSUME DocumentInv, UNCHANGED vars PROVE DocumentInv'
PROOF
  <1>1. UNCHANGED <<mode, stage, answers, window, stack, ret, requests, concurrency, wasLimited,
                    cancelled, status, trouble>>
    BY DEF vars, accounting
  <1>2. TypeInv /\ CallInv /\ FatalInv
    BY DEF DocumentInv
  <1>3. TypeInv'
    BY <1>1, <1>2 DEF TypeInv, Configured
  <1>4. Callee' = Callee /\ BatchNo' = BatchNo /\ Unanswered' = Unanswered
        /\ Context' = Context
    BY <1>1 DEF Callee, Caller, NextBatch, First, BatchNo, Unanswered, Context, Lines, answer,
                Retries, RepairLimit
  <1>5. CallInv'
    <2>1. Forgiven(ret.kind)' = Forgiven(ret.kind)
      BY <1>1 DEF Forgiven
    <2> QED BY <1>1, <1>2, <1>4, <2>1 DEF CallInv, InCall
  <1>6. FatalInv'
    BY <1>1, <1>2 DEF FatalInv, CanReserve
  <1> QED BY <1>1, <1>3, <1>5, <1>6, InnerKeeps

-----------------------------------------------------------------------------
(* The theorems *)

\* What a run starts with, fresh or resumed.
LEMMA DocumentInit == Init => DocumentInv
PROOF
  <1> SUFFICES ASSUME Init PROVE DocumentInv
    OBVIOUS
  <1>1. mode \in Mode /\ mode \in Modes
    BY ModesAssumption DEF Init
  <1>2. Configured \in Nat \ {0} /\ mode.maxRequests \in Nat
    BY <1>1 DEF Mode, Configured
  <1>3. TypeInv
    <2>1. requests \in 0..mode.maxRequests /\ concurrency \in 1..Configured
      BY <1>2 DEF Init
    <2> QED BY <1>1, <2>1 DEF Init, TypeInv, Stages
  <1>4. AnswersInv
    <2>1. answers = [s \in Stages |-> [b \in Batches(s) |->
                       IF b <= mode.resumed[s] THEN From(1, mode.batches[s][b]) ELSE << >>]]
      BY DEF Init, Batches
    <2> QED BY <2>1 DEF AnswersInv
  <1>5. WindowInv
    BY NoRepliesYet DEF Init, WindowInv, NoWindow
  <1>6. CallInv
    BY DEF Init, CallInv, InCall
  <1>7. ProgressInv
    BY DEF Init, ProgressInv
  <1>8. FatalInv
    BY DEF Init, FatalInv
  <1> QED BY <1>3, <1>4, <1>5, <1>6, <1>7, <1>8 DEF DocumentInv

\* No step of the run breaks it.
LEMMA DocumentNext == DocumentInv /\ [Next]_vars => DocumentInv'
PROOF
  <1> SUFFICES ASSUME DocumentInv, [Next]_vars PROVE DocumentInv'
    OBVIOUS
  <1>1. CASE StageStep
    <2>1. UNCHANGED mode
      BY <1>1 DEF StageStep
    <2>2. CASE CorrectionCached \/ CorrectionAsked \/ CorrectionRefused
      BY <2>1, <2>2, CorrectionStep
    <2>3. CASE PreflightStopped \/ PreflightAsked
      BY <2>1, <2>3, PreflightStep
    <2>4. CASE PreflightCached \/ Preflight
      BY <2>1, <2>4, PreflightStarts
    <2>5. CASE CorrectBatch \/ CorrectionReturns \/ CorrectionEnds
      BY <2>1, <2>5, CorrectBatchStep, CorrectionReturnsStep, CorrectionEndsStep
    <2>6. CASE PreflightReturns \/ PreflightEnds \/ WindowsEnd
      BY <2>1, <2>6, PreflightReturnsStep, PreflightEndsStep, WindowsEndStep
    <2>7. CASE Validate \/ ValidationReturns \/ ValidationEnds
      BY <2>1, <2>7, ValidateStep, ValidationReturnsStep, ValidationEndsStep
    <2> QED BY <1>1, <2>2, <2>3, <2>4, <2>5, <2>6, <2>7 DEF StageStep
  <1>2. CASE RecoveryStep
    <2>1. UNCHANGED <<mode, stage>>
      BY <1>2 DEF RecoveryStep
    <2>2. CASE OpenWindow \/ OpenWindowFails \/ CallBatch \/ SendWindow
      BY <2>1, <2>2, OpenWindowStep, OpenWindowFailsStep, CallBatchStep, SendWindowStep
    <2>3. CASE TakeResponse \/ ReconcileNames \/ CallReturns \/ CloseWindow
      BY <2>1, <2>3, TakeResponseStep, ReconcileNamesStep, CallReturnsStep, CloseWindowStep
    <2>4. CASE AttemptStopped
      BY <2>1, <2>4, AttemptStoppedStep
    <2>5. CASE AttemptCached \/ AttemptAsked \/ AttemptRefused
      BY <2>1, <2>5, AttemptStep
    <2>6. CASE LeftReturns \/ RightReturns
      BY <2>1, <2>6, PartStep
    <2>7. CASE RepairStopped \/ RepairAsked \/ RepairUnasked
      BY <2>1, <2>7, RepairStep
    <2> QED BY <1>2, <2>2, <2>3, <2>4, <2>5, <2>6, <2>7 DEF RecoveryStep
  <1>3. CASE Cancel /\ UNCHANGED <<mode, stage>>
    BY <1>3, CancelStep
  <1>4. CASE UNCHANGED vars
    BY <1>4, StutterStep
  <1> QED BY <1>1, <1>2, <1>3, <1>4 DEF Next, Step, Finished

\* The invariant holds of every run: calls in progress are nested parts of
\* one batch, with the lines of the batch; what they return is what their
\* callers wait for; a stage is left only when it is done or not needed.
THEOREM DocumentInvariant == Spec => []DocumentInv
PROOF
  <1>1. Init => DocumentInv
    BY DocumentInit
  <1>2. DocumentInv /\ [Next]_vars => DocumentInv'
    BY DocumentNext
  <1> QED BY <1>1, <1>2, PTL DEF Spec

\* The variables keep their types: every frame works on lines of a batch of
\* the document, within the attempts of the mode, and the requests and the
\* concurrency stay within their limits.
THEOREM DocumentTypes == Spec => []TypeOK
PROOF
  <1>1. DocumentInv => TypeOK
    <2> SUFFICES ASSUME DocumentInv PROVE TypeOK
      OBVIOUS
    <2>1. TypeInv /\ AnswersInv /\ CallInv
      BY DEF DocumentInv
    <2>2. \A s \in Stages : DOMAIN answers[s] = DOMAIN mode.batches[s]
      <3>1. ASSUME NEW s \in Stages PROVE DOMAIN answers[s] = DOMAIN mode.batches[s]
        <4>1. mode.batches[s] \in Seq(Nat \ {0}) /\ DOMAIN answers[s] = Batches(s)
          BY <2>1, ModeFacts DEF AnswersInv
        <4> QED BY <4>1, LenProperties DEF Batches
      <3> QED BY <3>1
    <2>3. ASSUME NEW i \in 1..Len(stack) PROVE FrameType(stack[i])
      <3> DEFINE f == stack[i]
      <3>1. stack # << >>
        BY <2>3, EmptySeq
      <3>2. Callee \in BatchNo /\ FrameOK(f, Context)
        BY <2>1, <3>1 DEF CallInv, InCall, Chain
      <3>3. Retries \in Nat /\ RepairLimit \in Nat
        BY <2>1, ModeFacts
      <3> HIDE DEF f
      <3>4. /\ f \in Frames /\ f.b = Callee /\ f.hi <= Lines[Callee]
            /\ 1 <= f.lo /\ f.lo <= f.cut /\ f.cut <= f.hi
            /\ f.attempt \in Nat /\ 1 <= f.attempt
            /\ f.attempt <= IF f.at = "repair" THEN RepairLimit ELSE Retries + 1
        BY <3>2 DEF FrameOK, Context, Frames
      <3>5. f.attempt \in 1..(Retries + 1 + RepairLimit)
        BY <3>3, <3>4
      <3>6. FrameType(f)
        BY <3>2, <3>4, <3>5 DEF FrameType, Frames
      <3> QED BY <3>6 DEF f
    <2>4. ret.kind \in Error \cup {"ok", "none"}
      BY <2>1 DEF CallInv, ValueOK, NoValue
    <2> QED BY <2>1, <2>2, <2>3, <2>4 DEF TypeInv, TypeOK
  <1> QED BY <1>1, DocumentInvariant, PTL

\* A run that is done has the answers of every batch that it needs, with all
\* lines of the batch in order: however often it was retried, split, joined,
\* repaired, aligned or resumed.
THEOREM DocumentsAreComplete == Spec => []DoneIsComplete
PROOF
  <1>1. DocumentInv => DoneIsComplete
    <2> SUFFICES ASSUME DocumentInv, status = "done", NEW s \in Stages, Required(s),
                        NEW b \in DOMAIN answers[s]
                 PROVE  answers[s][b] = From(1, mode.batches[s][b])
      BY DEF DoneIsComplete
    <2>1. AnswersInv /\ ProgressInv
      BY DEF DocumentInv
    <2>2. StageDone(s)
      BY <2>1 DEF ProgressInv, Stages, Required
    <2>3. b \in Batches(s) /\ answers[s][b] \in {<< >>, From(1, mode.batches[s][b])}
      BY <2>1 DEF AnswersInv
    <2> QED BY <2>2, <2>3 DEF StageDone
  <1> QED BY <1>1, DocumentInvariant, PTL

\* A run only fails after a request went wrong or was refused, where the run
\* cannot do without its answer: splits, windows and stages add no failure of
\* their own.
THEOREM FailuresHaveCauses == Spec => []NoSpuriousFailure
PROOF
  <1>1. DocumentInv => NoSpuriousFailure
    BY DEF DocumentInv, ProgressInv, NoSpuriousFailure
  <1> QED BY <1>1, DocumentInvariant, PTL

\* Once an error of the provider or the budget is fatal, no retry, split,
\* repair, alignment, window or later stage sends a request.
THEOREM FatalIsFinal == Spec => NoRequestAfterFatal
PROOF
  <1>1. DocumentInv /\ [Next]_vars => [trouble = "fatal" => requests' = requests]_vars
    <2> SUFFICES ASSUME DocumentInv, Next, trouble = "fatal", requests' # requests
                 PROVE  FALSE
      BY DEF vars, accounting
    <2>1. TypeInv /\ WindowInv /\ FatalInv
      BY DEF DocumentInv
    <2>2. ~ (status = "running" /\ ret = NoValue /\ CanReserve(1))
      BY <2>1, FatalMeansNoRequest DEF NoValue
    <2>3. CASE SendWindow
      <3> DEFINE n == Cardinality(window.pending)
      <3>1. /\ status = "running" /\ ret = NoValue /\ window.open /\ window.pending # {}
            /\ CanReserve(n)
        BY <2>3 DEF SendWindow, InWindow, Running
      <3>2. window.pending \in SUBSET BatchNo
        BY <2>1 DEF WindowInv
      <3>3. n \in Nat /\ n # 0
        BY <2>1, <3>1, <3>2, PendingCount
      <3> HIDE DEF n
      <3> QED BY <2>1, <2>2, <3>1, <3>3, ReserveOne
    <2>4. CASE AttemptAsked \/ RepairAsked
      BY <2>2, <2>4 DEF AttemptAsked, RepairAsked, In, Running
    <2>5. CASE CorrectionAsked \/ PreflightAsked
      BY <2>2, <2>5 DEF CorrectionAsked, PreflightAsked, In, Running
    <2>6. CASE RecoveryStep /\ ~ SendWindow /\ ~ AttemptAsked /\ ~ RepairAsked
      BY <2>6 DEF RecoveryStep, OpenWindow, OpenWindowFails, CallBatch, TakeResponse,
           ReconcileNames, CallReturns, CloseWindow, SendNothing, AttemptStopped, AttemptCached,
           AttemptRefused, LeftReturns, RightReturns, RepairStopped, RepairUnasked, accounting
    <2>7. CASE StageStep /\ ~ CorrectionAsked /\ ~ PreflightAsked
      BY <2>7 DEF StageStep, CorrectBatch, CorrectionCached, CorrectionRefused,
           CorrectionReturns, CorrectionEnds, PreflightCached, Preflight, PreflightStopped,
           PreflightReturns, PreflightEnds, WindowsEnd, Validate, ValidationReturns,
           ValidationEnds, accounting
    <2>8. CASE Cancel \/ Finished
      BY <2>8 DEF Cancel, Finished, vars, accounting
    <2> QED BY <2>3, <2>4, <2>5, <2>6, <2>7, <2>8 DEF Next, Step
  <1> QED BY <1>1, DocumentInvariant, PTL DEF Spec, NoRequestAfterFatal

-----------------------------------------------------------------------------
(* The budget of requests *)

\* The splits in s whose right part is still to be called, by their cuts.
Cuts(s) == {s[i].cut : i \in {j \in 1..Len(s) : s[j].at = "left"}}
Owed(s) == Cardinality(Cuts(s))

\* What k parts of a split can ask, and a call of batch b of the window with
\* all that splitting it down to single lines makes of it.
Paid(k)  == k * (Retries + 1)
Alone(b) == Paid(2 * Lines[b] - 1) + RepairLimit
Together == IF Parallel THEN 1 ELSE 0

\* What was asked for the batch before the call in progress, and what the call
\* can ask.
Before ==
  IF ~ window.open THEN 0
  ELSE IF window.calls = {} /\ window.pending = {} THEN Together + Alone(Callee)
  ELSE Together
Whole ==
  IF window.open THEN Alone(Callee)
  ELSE IF stage = "validation" THEN RepairLimit ELSE Retries + 1

\* x requests are no more than the calls s and their value v account for.  The
\* lines before line l make 2 * (l - 1) parts, with the splits that wait for
\* their right part; those that wait for their left part come on top.
Within(x, s, v, p, w) ==
  IF v # NoValue
  THEN x <= p + IF s = << >> THEN w ELSE Paid(2 * High(Head(s)) - 1 + Owed(s))
  ELSE /\ s # << >>
       /\ LET f == Head(s) IN
          /\ f.at = "attempt" => x <= p + Paid(2 * (f.lo - 1) + Owed(s)) + f.attempt - 1
          /\ f.at = "repair"  => x + RepairLimit <= p + w + f.attempt - 1
          /\ f.at \in {"correction", "terminology"} => x <= f.attempt - 1

Spent == InCall => Within(asked[stage][Callee], stack, ret, Before, Whole)

Waiting == window.calls \cup window.pending
Busy(b) == InCall /\ b = Callee

\* What was asked for the batches of the window that are not called now: a
\* batch waits for its call, or for its answer, or for its names.
WindowPaid ==
  /\ window.names # {} => stage = "translation" /\ mode.align # "none"
  /\ window.pending # {} => Parallel
  /\ window.calls \cap window.pending = {}
  /\ InCall /\ window.open /\ Waiting = {} => window.again /\ window.names # {}
  /\ \A b \in BatchNo : ~ Busy(b) =>
       /\ b \in window.calls => asked[stage][b] = 0
       /\ b \in window.pending => asked[stage][b] <= IF window.sent THEN 1 ELSE 0
       /\ b \in window.names \ Waiting /\ ~ (window.again /\ b = First(window.names)) =>
            asked[stage][b] <= Together + Alone(b)

\* Batches are answered in their order: nothing was asked for one that the
\* stage has not come to, nor for those behind it.
Untouched ==
  \A b \in BatchNo :
    answer[b] = << >> /\ b \notin Waiting /\ ~ (Busy(b) /\ ~ window.open) =>
      \A c \in BatchNo : b <= c =>
        answer[c] = << >> /\ asked[stage][c] = 0 /\ c \notin Waiting \cup window.names

\* The stages that are still to come.
Later ==
  CASE stage = "correction"  -> {"terminology", "translation", "review", "validation"}
    [] stage = "terminology" -> {"translation", "review", "validation"}
    [] stage = "translation" -> {"review", "validation"}
    [] stage = "review"      -> {"validation"}
    [] OTHER                 -> {}

\* Nothing was asked in them; of what they have from a resumed run there is
\* the beginning.
Ahead ==
  \A s \in Later : \A b \in Batches(s) :
    /\ asked[s][b] = 0
    /\ answers[s][b] = << >> => \A c \in Batches(s) : b <= c => answers[s][c] = << >>

AskedType ==
  DOMAIN asked = Stages /\ \A s \in Stages : asked[s] \in [Batches(s) -> Nat]

BudgetInv ==
  /\ AskedType /\ RequestsBounded
  /\ status = "running" => Spent /\ WindowPaid /\ Untouched /\ Ahead

-----------------------------------------------------------------------------
(* Splits that wait, and what their parts can ask *)

\* The more parts the more requests: Retries + 1 for each.
LEMMA PaidFacts ==
  ASSUME Retries \in Nat
  PROVE  /\ Paid(0) = 0
         /\ \A k \in Nat : Paid(k) \in Nat /\ Paid(k + 1) = Paid(k) + Retries + 1
         /\ \A j, k \in Nat : j <= k => Paid(j) <= Paid(k)
PROOF
  <1> DEFINE a == Retries + 1
  <1>1. a \in Nat
    OBVIOUS
  <1>2. \A k : Paid(k) = k * a
    BY DEF Paid
  <1> HIDE DEF a
  <1>3. ASSUME NEW k \in Nat PROVE Paid(k) \in Nat /\ Paid(k + 1) = Paid(k) + a
    BY <1>1, <1>2
  <1>4. ASSUME NEW j \in Nat, NEW k \in Nat, j <= k PROVE Paid(j) <= Paid(k)
    <2> DEFINE m == k - j
    <2>1. m \in Nat /\ k = j + m
      BY <1>4
    <2> HIDE DEF m
    <2>2. j * a \in Nat /\ m * a \in Nat /\ (j + m) * a = j * a + m * a
      BY <1>1, <2>1
    <2> QED BY <1>2, <2>1, <2>2
  <1>5. Paid(0) = 0
    BY <1>1, <1>2
  <1>6. \A k \in Nat : Paid(k + 1) = Paid(k) + Retries + 1
    <2>1. ASSUME NEW n \in Nat PROVE n + a = n + Retries + 1
      BY DEF a
    <2> QED BY <1>3, <2>1
  <1> QED BY <1>3, <1>4, <1>5, <1>6

\* A call works on a part of what each call below it works on.
LEMMA ChainRises ==
  ASSUME NEW c, NEW s, Chain(s, c), s # << >>, NEW i \in 1..Len(s)
  PROVE  Head(s).hi <= s[i].hi
PROOF
  <1> DEFINE Bad == {j \in 1..Len(s) : ~ (s[1].hi <= s[j].hi)}
  <1>1. s \in Seq(Frames) /\ Len(s) \in Nat /\ Head(s) = s[1]
    BY HeadTailProperties, LenProperties DEF Chain
  <1>2. \A j \in 1..Len(s) : s[j].hi \in Nat /\ s[j].cut \in Nat /\ s[j].cut <= s[j].hi
    BY DEF Chain, FrameOK, Frames
  <1>3. ASSUME Bad # {} PROVE FALSE
    <2> DEFINE j == First(Bad)
    <2>1. Bad \in SUBSET Nat
      BY <1>1
    <2>2. j \in Bad /\ \A b \in Bad : j <= b
      <3> HIDE DEF Bad
      <3> QED BY <1>3, <2>1, FirstIn
    <2> HIDE DEF j
    <2>3. j \in 1..Len(s) /\ j # 1
      BY <1>1, <1>2, <2>2
    <2>4. j - 1 \in 1..(Len(s) - 1) /\ j - 1 \in 1..Len(s) /\ (j - 1) + 1 = j
      BY <1>1, <2>3
    <2>5. PartOf(s[j - 1], s[j])
      BY <2>4 DEF Chain
    <2>6. s[j - 1].hi <= s[j].hi
      BY <1>2, <2>3, <2>4, <2>5 DEF PartOf, High
    <2>7. s[1].hi <= s[j - 1].hi
      <3>1. j - 1 \notin Bad
        BY <2>2, <2>3
      <3> QED BY <2>4, <3>1
    <2>8. s[1].hi \in Nat
      BY <1>1, <1>2, <2>3
    <2> QED BY <1>2, <2>2, <2>3, <2>4, <2>6, <2>7, <2>8
  <1> QED BY <1>1, <1>3

\* The calls below wait with lines that are behind those of the innermost.
LEMMA CutsAbove ==
  ASSUME NEW c, c.lines \in Nat, NEW s, Chain(s, c), s # << >>, NEW k \in Cuts(Tail(s))
  PROVE  k \in Nat /\ Head(s).hi <= k /\ k < c.lines
PROOF
  <1> DEFINE t == Tail(s)
  <1>1. s \in Seq(Frames) /\ Len(s) \in Nat /\ Len(s) # 0 /\ Len(t) = Len(s) - 1
        /\ \A i \in 1..Len(t) : t[i] = s[i + 1]
    BY HeadTailProperties, LenProperties, EmptySeq DEF Chain
  <1>2. PICK i \in 1..Len(t) : t[i].at = "left" /\ t[i].cut = k
    BY DEF Cuts
  <1>3. i \in 1..Len(s) /\ i \in 1..(Len(s) - 1) /\ i + 1 \in 1..Len(s) /\ t[i] = s[i + 1]
    BY <1>1
  <1>4. PartOf(s[i], s[i + 1]) /\ FrameOK(s[i + 1], c)
    BY <1>3 DEF Chain
  <1>5. s[i].hi = k
    BY <1>2, <1>3, <1>4 DEF PartOf, High
  <1>6. k \in Nat /\ k < c.lines
    BY <1>2, <1>3, <1>4 DEF FrameOK, Frames
  <1> QED BY <1>3, <1>5, <1>6, ChainRises

\* No more splits wait than there are lines behind the innermost call.
LEMMA OwedTop ==
  ASSUME NEW c, c.lines \in Nat, NEW s, Chain(s, c), s # << >>
  PROVE  /\ Owed(Tail(s)) \in Nat /\ Owed(Tail(s)) + Head(s).hi <= c.lines
         /\ Owed(s) = IF Head(s).at = "left" THEN Owed(Tail(s)) + 1 ELSE Owed(Tail(s))
PROOF
  <1> DEFINE t == Tail(s)
             f == Head(s)
             S == f.hi..(c.lines - 1)
  <1>1. s \in Seq(Frames) /\ Len(s) \in Nat /\ Len(s) # 0 /\ Len(t) = Len(s) - 1
        /\ f = s[1] /\ \A i \in 1..Len(t) : t[i] = s[i + 1]
    BY HeadTailProperties, LenProperties, EmptySeq DEF Chain
  <1>2. FrameOK(f, c)
    BY ChainTop
  <1>3. f.hi \in Nat /\ f.cut \in Nat /\ f.hi <= c.lines /\ (f.at = "left" => f.cut < f.hi)
    BY <1>2 DEF FrameOK, Frames
  <1>4. Cuts(t) \subseteq S
    <2>1. \A k \in Cuts(t) : k \in Nat /\ f.hi <= k /\ k < c.lines
      BY CutsAbove
    <2> QED BY <1>3, <2>1
  <1>5. IsFiniteSet(S) /\ Cardinality(S) \in Nat /\ Cardinality(S) + f.hi = c.lines
    <2> DEFINE lo == f.hi
               hi == c.lines - 1
    <2>1. lo \in Int /\ hi \in Int
      BY <1>3
    <2> HIDE DEF lo, hi
    <2>2. /\ IsFiniteSet(lo..hi)
          /\ Cardinality(lo..hi) = IF lo > hi THEN 0 ELSE hi - lo + 1
      BY <2>1, FS_Interval
    <2> QED BY <1>3, <2>2 DEF lo, hi
  <1>6. IsFiniteSet(Cuts(t)) /\ Cardinality(Cuts(t)) <= Cardinality(S)
    BY <1>4, <1>5, FS_Subset
  <1>7. Cardinality(Cuts(t)) \in Nat
    BY <1>6, FS_CardinalityType
  <1>8. Cuts(s) = IF f.at = "left" THEN Cuts(t) \cup {f.cut} ELSE Cuts(t)
    <2>1. ASSUME NEW k \in Cuts(s) PROVE k \in Cuts(t) \/ (f.at = "left" /\ k = f.cut)
      <3>1. PICK i \in 1..Len(s) : s[i].at = "left" /\ s[i].cut = k
        BY DEF Cuts
      <3>2. CASE i # 1
        <4>1. i - 1 \in 1..Len(t) /\ t[i - 1] = s[i]
          BY <1>1, <3>2
        <4> QED BY <3>1, <4>1 DEF Cuts
      <3> QED BY <1>1, <3>1, <3>2
    <2>2. ASSUME NEW k \in Cuts(t) PROVE k \in Cuts(s)
      <3>1. PICK i \in 1..Len(t) : t[i].at = "left" /\ t[i].cut = k
        BY DEF Cuts
      <3>2. i + 1 \in 1..Len(s) /\ t[i] = s[i + 1]
        BY <1>1
      <3> QED BY <3>1, <3>2 DEF Cuts
    <2>3. f.at = "left" => f.cut \in Cuts(s)
      <3>1. 1 \in 1..Len(s)
        BY <1>1
      <3> QED BY <1>1, <3>1 DEF Cuts
    <2> QED BY <2>1, <2>2, <2>3
  <1>9. f.at = "left" => f.cut \notin Cuts(t)
    BY <1>3, <1>4
  <1>10. f.at = "left" => Cardinality(Cuts(s)) = Cardinality(Cuts(t)) + 1
    BY <1>6, <1>8, <1>9, FS_AddElement
  <1>11. Owed(t) \in Nat /\ Owed(t) + f.hi <= c.lines
    BY <1>3, <1>5, <1>6, <1>7 DEF Owed
  <1>12. Owed(s) = IF f.at = "left" THEN Owed(t) + 1 ELSE Owed(t)
    BY <1>8, <1>10 DEF Owed
  <1> QED BY <1>11, <1>12

\* Without calls no split waits.
LEMMA OwedNone == Owed(<< >>) = 0
PROOF
  <1>1. 1..Len(<< >>) = {}
    OBVIOUS
  <1>2. Cuts(<< >>) = {}
    BY <1>1 DEF Cuts
  <1> QED BY <1>2, FS_EmptySet DEF Owed

-----------------------------------------------------------------------------
(* What a step of a call adds to its requests *)

\* Room for all that a call judged by d can ask.
Room(d, p, w) ==
  /\ Retries \in Nat /\ RepairLimit \in Nat /\ p \in Nat /\ w \in Nat
  /\ d.retries = Retries /\ d.repairs = RepairLimit /\ d.lines \in Nat
  /\ d.stage \in {"translation", "review"} => Paid(2 * d.lines - 1) + RepairLimit <= w
  /\ d.stage = "validation" => RepairLimit <= w
  /\ d.stage \in {"correction", "terminology"} => Retries + 1 <= w

\* One more call on top of others.
LEMMA PushTop ==
  ASSUME NEW s \in Seq(Frames), NEW f \in Frames
  PROVE  << f >> \o s # << >> /\ Head(<< f >> \o s) = f /\ Tail(<< f >> \o s) = s
PROOF
  <1> DEFINE u == << f >> \o s
             n == Len(s)
  <1>1. << f >> \in Seq(Frames) /\ Len(<< f >>) = 1 /\ << f >>[1] = f /\ n \in Nat
    BY LenProperties
  <1>2. u \in Seq(Frames) /\ Len(u) = 1 + n
        /\ \A i \in 1..(1 + n) : u[i] = IF i <= 1 THEN << f >>[i] ELSE s[i - 1]
    BY <1>1, ConcatProperties
  <1>3. u[1] = f /\ \A i \in 1..n : u[i + 1] = s[i]
    BY <1>1, <1>2
  <1> HIDE DEF u, n
  <1>4. u # << >>
    BY <1>1, <1>2, EmptySeq
  <1>5. Head(u) = u[1] /\ Tail(u) \in Seq(Frames) /\ Len(Tail(u)) = n
        /\ \A i \in 1..n : Tail(u)[i] = u[i + 1]
    BY <1>1, <1>2, <1>4, HeadTailProperties
  <1>6. Tail(u) = s
    BY <1>3, <1>5, SeqEqual DEF n
  <1> QED BY <1>3, <1>4, <1>5, <1>6 DEF u

\* Two more: the part, and the split that waits for it.
LEMMA PushTopTwo ==
  ASSUME NEW s \in Seq(Frames), NEW f \in Frames, NEW g \in Frames
  PROVE  /\ << f, g >> \o s # << >> /\ Head(<< f, g >> \o s) = f
         /\ Tail(<< f, g >> \o s) = << g >> \o s
PROOF
  <1> DEFINE p == << f >>
             q == << g >>
             r == << f, g >>
  <1>1. /\ p \in Seq(Frames) /\ Len(p) = 1 /\ p[1] = f
        /\ q \in Seq(Frames) /\ Len(q) = 1 /\ q[1] = g
        /\ r \in Seq(Frames) /\ Len(r) = 2 /\ r[1] = f /\ r[2] = g
    OBVIOUS
  <1> HIDE DEF p, q, r
  <1>2. /\ p \o q \in Seq(Frames) /\ Len(p \o q) = 2
        /\ \A i \in 1..2 : (p \o q)[i] = IF i <= 1 THEN p[i] ELSE q[i - 1]
    BY <1>1, ConcatProperties
  <1>3. p \o q = r
    <2>1. \A i \in 1..2 : (p \o q)[i] = r[i]
      BY <1>1, <1>2
    <2> QED BY <1>1, <1>2, <2>1, SeqEqual
  <1>4. (p \o q) \o s = p \o (q \o s)
    BY <1>1, ConcatAssociative, SMTT(30)
  <1>5. q \o s \in Seq(Frames)
    BY <1>1, ConcatProperties
  <1> QED BY <1>3, <1>4, <1>5, PushTop DEF p, q, r

\* The innermost call, in numbers.
LEMMA TopFacts ==
  ASSUME NEW d, Chain(stack, d), stack # << >>, d.lines \in Nat
  PROVE  /\ Top \in Frames /\ Tail(stack) \in Seq(Frames)
         /\ Top.lo \in Nat /\ Top.cut \in Nat /\ Top.hi \in Nat /\ Top.attempt \in Nat
         /\ 1 <= Top.lo /\ Top.lo <= Top.cut /\ Top.cut <= Top.hi /\ Top.hi <= d.lines
         /\ 1 <= Top.attempt
         /\ Top.attempt <= IF Top.at = "repair" THEN d.repairs ELSE d.retries + 1
         /\ Top.at \in {"left", "right"} => Top.cut < Top.hi
         /\ Owed(Tail(stack)) \in Nat /\ Owed(Tail(stack)) + Top.hi <= d.lines
         /\ Owed(stack) = IF Top.at = "left" THEN Owed(Tail(stack)) + 1 ELSE Owed(Tail(stack))
         /\ Tail(stack) = << >> => Top.hi = d.lines /\ Owed(Tail(stack)) = 0
         /\ Tail(stack) # << >> => /\ Top.hi = High(Head(Tail(stack))) /\ ~ Top.record
                                   /\ d.stage \in {"translation", "review"}
PROOF
  <1> DEFINE s == stack
             f == Head(s)
             t == Tail(s)
  <1>1. FrameOK(f, d) /\ Chain(t, d) /\ Fits(f, t, d)
    BY ChainTop
  <1>2. f \in Frames /\ t \in Seq(Frames)
    BY <1>1 DEF FrameOK, Chain
  <1>3. f.lo \in Nat /\ f.cut \in Nat /\ f.hi \in Nat /\ f.attempt \in Nat
    BY <1>2 DEF Frames
  <1>4. /\ 1 <= f.lo /\ f.lo <= f.cut /\ f.cut <= f.hi /\ f.hi <= d.lines /\ 1 <= f.attempt
        /\ f.attempt <= IF f.at = "repair" THEN d.repairs ELSE d.retries + 1
        /\ f.at \in {"left", "right"} => f.cut < f.hi
    BY <1>1 DEF FrameOK
  <1>5. /\ Owed(t) \in Nat /\ Owed(t) + f.hi <= d.lines
        /\ Owed(s) = IF f.at = "left" THEN Owed(t) + 1 ELSE Owed(t)
    BY OwedTop
  <1>6. t = << >> => f.hi = d.lines /\ Owed(t) = 0
    BY <1>1, OwedNone DEF Fits, WholeBatch
  <1>7. t # << >> => f.hi = High(Head(t)) /\ ~ f.record /\ Head(t).at \in {"left", "right"}
    BY <1>1 DEF Fits, PartOf
  <1>8. t # << >> => d.stage \in {"translation", "review"}
    <2>1. ASSUME t # << >> PROVE FrameOK(Head(t), d)
      BY <1>1, <2>1, ChainTop
    <2> QED BY <1>7, <2>1 DEF FrameOK
  <1> QED BY <1>2, <1>3, <1>4, <1>5, <1>6, <1>7, <1>8 DEF Top

\* A call that returns has asked what its caller waits for, or all at most.
LEMMA ReturnWithin ==
  ASSUME NEW d, Chain(stack, d), stack # << >>, NEW p, NEW w, Room(d, p, w), NEW y \in Nat,
         y <= p + Paid(2 * Top.hi - 1 + Owed(Tail(stack))) \/ Tail(stack) = << >>,
         Tail(stack) = << >> => y <= p + w,
         stack' = Tail(stack), ret' # NoValue
  PROVE  Within(y, stack', ret', p, w)
PROOF
  <1>1. d.lines \in Nat
    BY DEF Room
  <1>2. Tail(stack) # << >> => Top.hi = High(Head(Tail(stack)))
    BY <1>1, TopFacts
  <1> QED BY <1>2 DEF Within

\* What a whole batch has asked when all its parts are over leaves room for
\* the repairs.
LEMMA WholeFits ==
  ASSUME NEW d, Chain(stack, d), stack # << >>, NEW p, NEW w, Room(d, p, w), NEW y \in Nat,
         d.stage \in {"translation", "review"},
         y <= p + Paid(2 * Top.hi - 1 + Owed(Tail(stack))), Tail(stack) = << >>
  PROVE  y + RepairLimit <= p + w
PROOF
  <1>1. d.lines \in Nat
    BY DEF Room
  <1>2. Top.hi = d.lines /\ Owed(Tail(stack)) = 0 /\ 1 <= Top.hi /\ Top.hi \in Nat
    <2>1. Top.lo \in Nat /\ 1 <= Top.lo /\ Top.cut \in Nat /\ Top.lo <= Top.cut
          /\ Top.cut <= Top.hi /\ Top.hi \in Nat
      BY <1>1, TopFacts
    <2>2. Tail(stack) = << >> => Top.hi = d.lines /\ Owed(Tail(stack)) = 0
      BY <1>1, TopFacts
    <2> QED BY <2>1, <2>2
  <1>3. 2 * Top.hi - 1 + Owed(Tail(stack)) = 2 * d.lines - 1 /\ 2 * d.lines - 1 \in Nat
    BY <1>2
  <1>4. Paid(2 * d.lines - 1) \in Nat
    BY <1>3, PaidFacts DEF Room
  <1>5. y <= p + Paid(2 * d.lines - 1)
    BY <1>3
  <1> QED BY <1>4, <1>5 DEF Room

\* A call that gives up returns, or its repairs begin.
LEMMA GiveUpWithin ==
  ASSUME NEW d, Chain(stack, d), stack # << >>, NEW p, NEW w, Room(d, p, w), NEW y \in Nat,
         d.stage \in {"translation", "review"}, NEW e \in Error, GiveUp(Top, e),
         y <= p + Paid(2 * Top.hi - 1 + Owed(Tail(stack)))
  PROVE  Within(y, stack', ret', p, w)
PROOF
  <1> DEFINE f == Top
             g == [f EXCEPT !.at = "repair", !.attempt = 1, !.error = e]
  <1>1. d.lines \in Nat /\ RepairLimit \in Nat /\ p \in Nat /\ w \in Nat
    BY DEF Room
  <1>2. f \in Frames /\ Tail(stack) \in Seq(Frames) /\ (Tail(stack) # << >> => ~ f.record)
    BY <1>1, TopFacts
  <1>3. Tail(stack) = << >> => y + RepairLimit <= p + w
    BY WholeFits
  <1>4. CASE Return(Err(e)) \/ Return(Err("cancelled"))
    <2>1. stack' = Tail(stack) /\ ret' \in {Err(e), Err("cancelled")}
      BY <1>4 DEF Return
    <2>2. ret' # NoValue
      <3>1. e # "none"
        BY DEF Error, Outcome
      <3> QED BY <2>1, <3>1 DEF Err, NoValue
    <2>3. Tail(stack) = << >> => y <= p + w
      BY <1>1, <1>3
    <2> QED BY <2>1, <2>2, <2>3, ReturnWithin
  <1>5. CASE f.record /\ Goto(g)
    <2>1. g \in Frames /\ g.at = "repair" /\ g.attempt = 1
      BY <1>2 DEF Frames
    <2>2. Tail(stack) = << >>
      BY <1>2, <1>5
    <2>3. stack' = << g >> \o Tail(stack) /\ ret' = NoValue
      BY <1>5 DEF Goto
    <2> HIDE DEF g
    <2>4. stack' # << >> /\ Head(stack') = g
      BY <1>2, <2>1, <2>3, PushTop
    <2>5. y + RepairLimit <= p + w + g.attempt - 1
      BY <1>1, <1>3, <2>1, <2>2
    <2> QED BY <2>1, <2>3, <2>4, <2>5 DEF Within
  <1> QED BY <1>4, <1>5 DEF GiveUp, FinishFailure

\* A split adds its own parts to those that are paid.
LEMMA SplitWithin ==
  ASSUME NEW d, Chain(stack, d), stack # << >>, NEW p, NEW w, Room(d, p, w), NEW y \in Nat,
         NEW forced \in BOOLEAN, Split(Top, forced), Chain(stack', d),
         y <= p + Paid(2 * (Top.lo - 1) + Owed(Tail(stack)) + 1)
  PROVE  Within(y, stack', ret', p, w)
PROOF
  <1> DEFINE f == Top
             t == Tail(stack)
  <1>1. d.lines \in Nat
    BY DEF Room
  <1>2. /\ f \in Frames /\ t \in Seq(Frames) /\ f.lo \in Nat /\ f.hi \in Nat /\ 1 <= f.lo
        /\ Owed(t) \in Nat
    BY <1>1, TopFacts
  <1>3. PICK cut \in f.lo..(f.hi - 1) : SplitAt(f, cut, forced)
    BY DEF Split
  <1> DEFINE q == Frame(f.b, f.lo, cut, FALSE, "ok")
             g == [f EXCEPT !.at = "left", !.cut = cut, !.forced = forced]
  <1>4. q \in Frames /\ q.lo = f.lo /\ q.at = "attempt" /\ q.attempt = 1
    BY <1>2, EmptySeq DEF Frame, Frames
  <1>5. g \in Frames /\ g.at = "left"
    <2>1. cut \in Nat
      BY <1>2, <1>3
    <2> QED BY <1>2, <2>1 DEF Frames
  <1>6. stack' = << q, g >> \o t /\ ret' = NoValue
    BY <1>3 DEF SplitAt
  <1> HIDE DEF q, g, f, t
  <1>7. stack' # << >> /\ Head(stack') = q /\ Tail(stack') = << g >> \o t
    BY <1>2, <1>4, <1>5, <1>6, PushTopTwo
  <1>8. /\ Tail(stack') # << >> /\ Head(Tail(stack')) = g /\ Tail(Tail(stack')) = t
    BY <1>2, <1>5, <1>7, PushTop
  <1> DEFINE u == stack'
             v == Tail(u)
  <1>9. Chain(u, d) /\ u # << >> /\ v # << >>
    BY <1>7, <1>8
  <1> HIDE DEF u
  <1>10. Chain(v, d)
    BY <1>9, ChainTop
  <1>11. Owed(u) = IF Head(u).at = "left" THEN Owed(v) + 1 ELSE Owed(v)
    BY <1>1, <1>9, OwedTop
  <1> HIDE DEF v
  <1>12. Owed(v) = IF Head(v).at = "left" THEN Owed(Tail(v)) + 1 ELSE Owed(Tail(v))
    BY <1>1, <1>9, <1>10, OwedTop
  <1>13. Owed(u) = Owed(t) + 1
    BY <1>4, <1>5, <1>7, <1>8, <1>11, <1>12 DEF u, v
  <1>14. 2 * (q.lo - 1) + Owed(u) = 2 * (f.lo - 1) + Owed(t) + 1
         /\ 2 * (f.lo - 1) + Owed(t) + 1 \in Nat
    BY <1>2, <1>4, <1>13
  <1>15. Paid(2 * (f.lo - 1) + Owed(t) + 1) \in Nat /\ p \in Nat
    BY <1>14, PaidFacts DEF Room
  <1>16. y <= p + Paid(2 * (q.lo - 1) + Owed(u)) + q.attempt - 1
    <2>1. y <= p + Paid(2 * (q.lo - 1) + Owed(u))
      BY <1>14 DEF f, t
    <2> QED BY <1>4, <1>14, <1>15, <2>1
  <1> QED BY <1>4, <1>6, <1>7, <1>16 DEF Within, u

\* One more attempt is within what one more part can ask.
LEMMA AttemptSpent ==
  ASSUME NEW d, Chain(stack, d), stack # << >>, Top.at = "attempt",
         NEW p, NEW w, Room(d, p, w), NEW x \in Nat, NEW y \in Nat, y <= x + 1,
         Within(x, stack, NoValue, p, w)
  PROVE  /\ y <= p + Paid(2 * (Top.lo - 1) + Owed(Tail(stack))) + Top.attempt
         /\ y <= p + Paid(2 * (Top.lo - 1) + Owed(Tail(stack)) + 1)
         /\ y <= p + Paid(2 * Top.hi - 1 + Owed(Tail(stack)))
PROOF
  <1> DEFINE o == Owed(Tail(stack))
             k == 2 * (Top.lo - 1) + o
             m == 2 * Top.hi - 1 + o
  <1>1. d.lines \in Nat /\ Retries \in Nat /\ p \in Nat /\ d.retries = Retries
    BY DEF Room
  <1>2. /\ Top.lo \in Nat /\ Top.cut \in Nat /\ Top.hi \in Nat /\ Top.attempt \in Nat
        /\ 1 <= Top.lo /\ Top.lo <= Top.cut /\ Top.cut <= Top.hi
        /\ Top.attempt <= Retries + 1 /\ o \in Nat /\ Owed(stack) = o
    BY <1>1, TopFacts
  <1>3. x <= p + Paid(k) + Top.attempt - 1
    BY <1>2 DEF Within, Top
  <1>4. k \in Nat /\ k + 1 \in Nat /\ m \in Nat /\ k + 1 <= m
    <2>1. ASSUME NEW lo \in Nat, NEW cut \in Nat, NEW hi \in Nat, NEW i \in Nat,
                 1 <= lo, lo <= cut, cut <= hi
          PROVE  /\ 2 * (lo - 1) + i \in Nat /\ 2 * hi - 1 + i \in Nat
                 /\ 2 * (lo - 1) + i + 1 \in Nat /\ 2 * (lo - 1) + i + 1 <= 2 * hi - 1 + i
      BY <2>1
    <2> QED BY <1>2, <2>1
  <1> HIDE DEF k, m
  <1>5. Paid(k) \in Nat /\ Paid(k + 1) = Paid(k) + Retries + 1 /\ Paid(k + 1) <= Paid(m)
        /\ Paid(m) \in Nat
    BY <1>1, <1>4, PaidFacts
  <1>6. y <= p + Paid(k) + Top.attempt
    BY <1>1, <1>2, <1>3, <1>5
  <1>7. y <= p + Paid(k + 1)
    BY <1>1, <1>2, <1>5, <1>6
  <1>8. y <= p + Paid(m)
    BY <1>1, <1>5, <1>7
  <1> QED BY <1>6, <1>7, <1>8 DEF k, m

\* A call whose part or parts are over.
LEMMA EndWithin ==
  ASSUME NEW d, Chain(stack, d), stack # << >>, NEW p, NEW w, Room(d, p, w), NEW y \in Nat,
         d.stage \in {"translation", "review"},
         y <= p + Paid(2 * Top.hi - 1 + Owed(Tail(stack))),
         NEW v, v # NoValue, Return(v)
  PROVE  Within(y, stack', ret', p, w)
PROOF
  <1>1. stack' = Tail(stack) /\ ret' # NoValue
    BY DEF Return
  <1>2. Tail(stack) = << >> => y <= p + w
    <2>1. RepairLimit \in Nat /\ p \in Nat /\ w \in Nat
      BY DEF Room
    <2> QED BY <2>1, WholeFits
  <1> QED BY <1>1, <1>2, ReturnWithin

\* After an attempt, whatever follows it.
LEMMA AttemptWithin ==
  ASSUME NEW d, Chain(stack, d), stack # << >>, Top.at = "attempt", Chain(stack', d),
         NEW p, NEW w, Room(d, p, w), d.stage \in {"translation", "review"},
         NEW x \in Nat, NEW y \in Nat, y <= x + 1, Within(x, stack, NoValue, p, w),
         NEW e \in Error \cup {"ok"}, AfterAttempt(Top, e)
  PROVE  Within(y, stack', ret', p, w)
PROOF
  <1> DEFINE f == Top
             g == [f EXCEPT !.attempt = @ + 1, !.error = e]
  <1>1. d.lines \in Nat /\ p \in Nat
    BY DEF Room
  <1>2. /\ y <= p + Paid(2 * (f.lo - 1) + Owed(Tail(stack))) + f.attempt
        /\ y <= p + Paid(2 * (f.lo - 1) + Owed(Tail(stack)) + 1)
        /\ y <= p + Paid(2 * f.hi - 1 + Owed(Tail(stack)))
    BY AttemptSpent
  <1>3. CASE e = "ok" \/ Return(Err(e))
    <2>1. PICK v \in {Ok(From(f.lo, f.hi)), Err(e)} : Return(v)
      BY <1>3 DEF AfterAttempt
    <2>2. v # NoValue
      <3>1. e # "none"
        BY DEF Error, Outcome
      <3> QED BY <2>1, <3>1 DEF Ok, Err, NoValue
    <2> QED BY <1>2, <2>1, <2>2, EndWithin
  <1>4. CASE Split(f, FALSE)
    BY <1>2, <1>4, SplitWithin
  <1>5. CASE e \in Error /\ GiveUp(f, e)
    BY <1>2, <1>5, GiveUpWithin
  <1>6. CASE Goto(g)
    <2>1. f \in Frames /\ Tail(stack) \in Seq(Frames) /\ f.attempt \in Nat /\ f.lo \in Nat
          /\ 1 <= f.lo /\ Owed(Tail(stack)) \in Nat
      BY <1>1, TopFacts
    <2>2. g \in Frames /\ g.at = "attempt" /\ g.lo = f.lo /\ g.attempt = f.attempt + 1
      <3>1. f.at = "attempt" /\ f.attempt + 1 \in Nat
        BY <2>1
      <3> HIDE DEF f
      <3> QED BY <2>1, <3>1 DEF Frames
    <2>3. stack' = << g >> \o Tail(stack) /\ ret' = NoValue
      BY <1>6 DEF Goto
    <2> HIDE DEF g, f
    <2>4. stack' # << >> /\ Head(stack') = g /\ Tail(stack') = Tail(stack)
      BY <2>1, <2>2, <2>3, PushTop
    <2>5. Owed(stack') = Owed(Tail(stack))
      <3> DEFINE u == stack'
      <3>1. Chain(u, d) /\ u # << >>
        BY <2>4
      <3> HIDE DEF u
      <3>2. Owed(u) = IF Head(u).at = "left" THEN Owed(Tail(u)) + 1 ELSE Owed(Tail(u))
        BY <1>1, <3>1, OwedTop
      <3> QED BY <2>2, <2>4, <3>2 DEF u
    <2>6. y <= p + Paid(2 * (g.lo - 1) + Owed(stack')) + g.attempt - 1
      <3> DEFINE k == 2 * (f.lo - 1) + Owed(Tail(stack))
      <3>1. k \in Nat /\ 2 * (g.lo - 1) + Owed(stack') = k
        BY <2>1, <2>2, <2>5
      <3>2. y <= p + Paid(k) + f.attempt
        BY <1>2
      <3> HIDE DEF k
      <3>3. Paid(k) \in Nat
        BY <3>1, PaidFacts DEF Room
      <3>4. y <= p + Paid(k) + g.attempt - 1
        BY <1>1, <2>1, <2>2, <3>2, <3>3
      <3> QED BY <3>1, <3>4
    <2> QED BY <2>2, <2>3, <2>4, <2>6 DEF Within
  <1> QED BY <1>3, <1>4, <1>5, <1>6 DEF AfterAttempt, Error

\* What was asked when a part returns is no more than its split accounts for.
LEMMA PartSpent ==
  ASSUME NEW d, Chain(stack, d), stack # << >>, Top.at \in {"left", "right"},
         NEW p, NEW w, Room(d, p, w), NEW x \in Nat, ret # NoValue,
         Within(x, stack, ret, p, w)
  PROVE  /\ x <= p + Paid(2 * Top.hi - 1 + Owed(Tail(stack)))
         /\ Top.at = "left" => x <= p + Paid(2 * Top.cut + Owed(Tail(stack)))
PROOF
  <1> DEFINE o == Owed(Tail(stack))
             k == 2 * Top.cut + o
             m == 2 * Top.hi - 1 + o
  <1>1. d.lines \in Nat /\ Retries \in Nat /\ p \in Nat
    BY DEF Room
  <1>2. /\ Top.cut \in Nat /\ Top.hi \in Nat /\ Top.cut < Top.hi /\ o \in Nat
        /\ Owed(stack) = IF Top.at = "left" THEN o + 1 ELSE o
    BY <1>1, TopFacts
  <1>3. x <= p + Paid(2 * High(Top) - 1 + Owed(stack))
    BY DEF Within, Top
  <1>4. k \in Nat /\ m \in Nat /\ k <= m
    <2>1. ASSUME NEW cut \in Nat, NEW hi \in Nat, NEW i \in Nat, cut < hi
          PROVE  /\ 2 * cut + i \in Nat /\ 2 * hi - 1 + i \in Nat
                 /\ 2 * cut + i <= 2 * hi - 1 + i
      BY <2>1
    <2> QED BY <1>2, <2>1
  <1>5. CASE Top.at = "left"
    <2>1. 2 * High(Top) - 1 + Owed(stack) = k
      <3> HIDE DEF o
      <3> QED BY <1>2, <1>5 DEF High
    <2> HIDE DEF k, m
    <2>2. Paid(k) <= Paid(m) /\ Paid(k) \in Nat /\ Paid(m) \in Nat
      BY <1>1, <1>4, PaidFacts
    <2>3. x <= p + Paid(k)
      BY <1>3, <2>1
    <2>4. x <= p + Paid(m)
      BY <1>1, <2>2, <2>3
    <2> QED BY <2>3, <2>4 DEF k, m
  <1>6. CASE Top.at = "right"
    <2>1. 2 * High(Top) - 1 + Owed(stack) = m
      <3> HIDE DEF o
      <3> QED BY <1>2, <1>6 DEF High
    <2> QED BY <1>3, <1>6, <2>1
  <1> QED BY <1>5, <1>6

\* The right part goes on where the left one ended.
LEMMA LeftWithin ==
  ASSUME NEW d, Chain(stack, d), stack # << >>, Top.at = "left", Chain(stack', d),
         NEW p, NEW w, Room(d, p, w), NEW x \in Nat, ret # NoValue,
         Within(x, stack, ret, p, w),
         NEW q \in Frames, q.lo = Top.cut + 1, q.at = "attempt", q.attempt = 1,
         NEW g \in Frames, g.at = "right",
         stack' = << q, g >> \o Tail(stack), ret' = NoValue
  PROVE  Within(x, stack', ret', p, w)
PROOF
  <1> DEFINE t == Tail(stack)
             u == stack'
             v == Tail(u)
             k == 2 * Top.cut + Owed(t)
  <1>1. d.lines \in Nat /\ Retries \in Nat /\ p \in Nat
    BY DEF Room
  <1>2. t \in Seq(Frames) /\ Top.cut \in Nat /\ Owed(t) \in Nat
    BY <1>1, TopFacts
  <1>3. x <= p + Paid(k)
    BY PartSpent
  <1> HIDE DEF k
  <1>4. u # << >> /\ Head(u) = q /\ v = << g >> \o t
    BY <1>2, PushTopTwo
  <1> HIDE DEF u
  <1>5. v # << >> /\ Head(v) = g /\ Tail(v) = t
    BY <1>2, <1>4, PushTop
  <1>6. Chain(u, d)
    BY DEF u
  <1>7. Chain(v, d)
    BY <1>4, <1>6, ChainTop
  <1>8. Owed(u) = IF Head(u).at = "left" THEN Owed(v) + 1 ELSE Owed(v)
    BY <1>1, <1>4, <1>6, OwedTop
  <1> HIDE DEF v
  <1>9. Owed(v) = IF Head(v).at = "left" THEN Owed(Tail(v)) + 1 ELSE Owed(Tail(v))
    BY <1>1, <1>5, <1>7, OwedTop
  <1>10. Owed(u) = Owed(t)
    BY <1>4, <1>5, <1>8, <1>9
  <1>11. k \in Nat /\ 2 * (q.lo - 1) + Owed(u) = k
    <2>1. ASSUME NEW cut \in Nat, NEW i \in Nat
          PROVE  2 * cut + i \in Nat /\ 2 * ((cut + 1) - 1) + i = 2 * cut + i
      OBVIOUS
    <2> HIDE DEF t
    <2> QED BY <1>2, <1>10, <2>1 DEF k
  <1>12. Paid(k) \in Nat
    BY <1>1, <1>11, PaidFacts
  <1>13. x <= p + Paid(2 * (q.lo - 1) + Owed(u)) + q.attempt - 1
    BY <1>1, <1>3, <1>11, <1>12
  <1> QED BY <1>4, <1>13 DEF Within, u

\* A split that has failed returns or gives up.
LEMMA SplitFailedWithin ==
  ASSUME NEW d, Chain(stack, d), stack # << >>, Top.at \in {"left", "right"},
         NEW p, NEW w, Room(d, p, w), d.stage \in {"translation", "review"},
         NEW x \in Nat, ret # NoValue, Within(x, stack, ret, p, w),
         NEW e \in Error, SplitFailed(Top, e)
  PROVE  Within(x, stack', ret', p, w)
PROOF
  <1>1. x <= p + Paid(2 * Top.hi - 1 + Owed(Tail(stack)))
    BY PartSpent
  <1>2. CASE Return(Err(e))
    <2> DEFINE v == Err(e)
    <2>1. v # NoValue
      BY DEF Err, NoValue, Error, Outcome
    <2>2. Return(v)
      BY <1>2
    <2> HIDE DEF v
    <2> QED BY <1>1, <2>1, <2>2, EndWithin
  <1>3. CASE GiveUp(Top, e)
    BY <1>1, <1>3, GiveUpWithin
  <1> QED BY <1>2, <1>3 DEF SplitFailed, Return

\* A repair that goes on or returns: there are RepairLimit of them.
LEMMA RepairWithin ==
  ASSUME NEW d, Chain(stack, d), stack # << >>, Top.at = "repair",
         NEW p, NEW w, Room(d, p, w), NEW x \in Nat, NEW y \in Nat, y <= x + 1,
         Within(x, stack, NoValue, p, w),
         \/ \E e : AfterRepair(Top, e)
         \/ Return(Err("cancelled"))
  PROVE  Within(y, stack', ret', p, w)
PROOF
  <1> DEFINE f == Top
             g == [f EXCEPT !.attempt = @ + 1]
  <1>1. /\ d.lines \in Nat /\ p \in Nat /\ w \in Nat /\ RepairLimit \in Nat
        /\ d.repairs = RepairLimit
    BY DEF Room
  <1>2. /\ f \in Frames /\ Tail(stack) \in Seq(Frames) /\ f.attempt \in Nat /\ 1 <= f.attempt
        /\ f.attempt <= RepairLimit
    BY <1>1, TopFacts
  <1>3. Tail(stack) = << >>
    <2>1. f.record
      <3>1. FrameOK(Head(stack), d)
        BY ChainTop
      <3> QED BY <3>1 DEF FrameOK, Top
    <2> QED BY <1>1, <2>1, TopFacts
  <1>4. x + RepairLimit <= p + w + f.attempt - 1
    BY DEF Within, Top
  <1>5. CASE Return(Ok(From(f.lo, f.hi))) \/ Return(Err(f.error)) \/ Return(Err("cancelled"))
    <2>1. stack' = Tail(stack)
          /\ ret' \in {Ok(From(f.lo, f.hi)), Err(f.error), Err("cancelled")}
      BY <1>5 DEF Return
    <2>2. ret' # NoValue
      <3>1. f.error # "none"
        <4>1. f.error \in Error \cup {"ok"}
          BY <1>2 DEF Frames
        <4> QED BY <4>1 DEF Error, Outcome
      <3> QED BY <2>1, <3>1 DEF Ok, Err, NoValue
    <2>3. y <= p + w
      BY <1>1, <1>2, <1>4
    <2> QED BY <1>3, <2>1, <2>2, <2>3, ReturnWithin
  <1>6. CASE Goto(g)
    <2>1. g \in Frames /\ g.at = "repair" /\ g.attempt = f.attempt + 1
      <3>1. f.at = "repair" /\ f.attempt + 1 \in Nat
        BY <1>2
      <3> HIDE DEF f
      <3> QED BY <1>2, <3>1 DEF Frames
    <2>2. stack' = << g >> \o Tail(stack) /\ ret' = NoValue
      BY <1>6 DEF Goto
    <2> HIDE DEF g
    <2>3. stack' # << >> /\ Head(stack') = g
      BY <1>2, <2>1, <2>2, PushTop
    <2>4. y + RepairLimit <= p + w + g.attempt - 1
      BY <1>1, <1>2, <1>4, <2>1
    <2> QED BY <2>1, <2>2, <2>3, <2>4 DEF Within
  <1> QED BY <1>5, <1>6 DEF AfterRepair

\* The optional stages: an attempt is followed by another, or by the value.
LEMMA AgainWithin ==
  ASSUME NEW d, Chain(stack, d), stack # << >>, Top.at \in {"correction", "terminology"},
         NEW p, NEW w, Room(d, p, w), NEW x \in Nat, NEW y \in Nat, y <= x + 1,
         Within(x, stack, NoValue, p, w),
         \/ \E v : v # NoValue /\ Return(v)
         \/ \E e \in Error : Again(Top, e)
  PROVE  Within(y, stack', ret', p, w)
PROOF
  <1> DEFINE f == Top
             g == [f EXCEPT !.attempt = @ + 1]
  <1>1. /\ d.lines \in Nat /\ p \in Nat /\ w \in Nat /\ Retries \in Nat
        /\ d.retries = Retries
    BY DEF Room
  <1>2. /\ f \in Frames /\ Tail(stack) \in Seq(Frames) /\ f.attempt \in Nat
        /\ f.attempt <= Retries + 1
    BY <1>1, TopFacts
  <1>3. d.stage \in {"correction", "terminology"} /\ Tail(stack) = << >>
    <2>1. FrameOK(Head(stack), d)
      BY ChainTop
    <2>2. d.stage \in {"correction", "terminology"}
      BY <2>1 DEF FrameOK, Top
    <2> QED BY <1>1, <2>2, TopFacts
  <1>4. x <= f.attempt - 1 /\ Retries + 1 <= w
    BY <1>3 DEF Within, Top, Room
  <1>5. CASE \E v : v # NoValue /\ Return(v)
    <2>1. stack' = Tail(stack) /\ ret' # NoValue
      BY <1>5 DEF Return
    <2>2. y <= p + w
      BY <1>1, <1>2, <1>4
    <2> QED BY <1>3, <2>1, <2>2, ReturnWithin
  <1>6. CASE Goto(g)
    <2>1. g \in Frames /\ g.at = f.at /\ g.attempt = f.attempt + 1
      <3>1. f.attempt + 1 \in Nat
        BY <1>2
      <3> HIDE DEF f
      <3> QED BY <1>2, <3>1 DEF Frames
    <2>2. stack' = << g >> \o Tail(stack) /\ ret' = NoValue
      BY <1>6 DEF Goto
    <2> HIDE DEF g
    <2>3. stack' # << >> /\ Head(stack') = g
      BY <1>2, <2>1, <2>2, PushTop
    <2>4. y <= g.attempt - 1
      BY <1>2, <1>4, <2>1
    <2> QED BY <2>1, <2>2, <2>3, <2>4 DEF Within
  <1>7. \A e \in Error : Err(e) # NoValue
    BY DEF Err, NoValue, Error, Outcome
  <1> QED BY <1>5, <1>6, <1>7 DEF Again

-----------------------------------------------------------------------------
(* The budget in the steps of a call *)

\* The budget of a batch is a number, and it has room for the request of a
\* window.
LEMMA CostType ==
  ASSUME TypeInv, NEW b \in BatchNo
  PROVE  /\ Cost(stage, Lines[b]) \in Nat
         /\ stage \in {"translation", "review"} /\ Parallel => 1 <= Cost(stage, Lines[b])
PROOF
  <1> DEFINE n == Lines[b]
             a == (2 * n - 1) * (Retries + 1)
  <1>1. Retries \in Nat /\ RepairLimit \in Nat /\ n \in Nat \ {0}
    BY ModeFacts
  <1>2. a \in Nat
    <2>1. 2 * n - 1 \in Nat
      BY <1>1
    <2> QED BY <1>1, <2>1
  <1> HIDE DEF a
  <1>3. Cost(stage, n) = CASE stage = "translation" -> (IF Parallel THEN 1 ELSE 0)
                                                       + Calls * (a + RepairLimit)
                           [] stage = "review"      -> 1 + (Retries + 1) + RepairLimit
                           [] stage = "validation"  -> RepairLimit
                           [] OTHER                 -> Retries + 1
    BY DEF Cost, a
  <1>4. Calls = 1 \/ Calls = 2
    BY DEF Calls
  <1>5. Calls * (a + RepairLimit) \in Nat
    BY <1>1, <1>2, <1>4
  <1> QED BY <1>1, <1>3, <1>5

\* What a call in progress may still ask fits into the budget of its batch.
LEMMA Allowance ==
  ASSUME DocumentInv, WindowPaid, InCall
  PROVE  /\ Before \in Nat /\ Whole \in Nat /\ Together \in Nat
         /\ Before + Whole <= Cost(stage, Lines[Callee])
         /\ stage \in {"translation", "review"} =>
              Whole = Paid(2 * Lines[Callee] - 1) + RepairLimit
         /\ stage = "validation" => Whole = RepairLimit
         /\ stage \in {"correction", "terminology"} => Whole = Retries + 1
PROOF
  <1> DEFINE n == Lines[Callee]
             k == 2 * n - 1
  <1>1. TypeInv /\ WindowInv /\ CallInv
    BY DEF DocumentInv
  <1>2. Callee \in BatchNo /\ (window.open \/ stage \in {"correction", "terminology", "validation"})
    BY <1>1 DEF CallInv
  <1>3. Retries \in Nat /\ RepairLimit \in Nat /\ n \in Nat \ {0}
    BY <1>1, <1>2, ModeFacts
  <1>4. k \in Nat
    BY <1>3
  <1>5. Paid(k) \in Nat /\ Paid(k) = k * (Retries + 1)
    BY <1>3, <1>4, PaidFacts DEF Paid
  <1>6. Together \in {0, 1} /\ Together = IF Parallel THEN 1 ELSE 0
    BY DEF Together
  <1>7. CASE window.open
    <2>1. stage \in {"translation", "review"}
      BY <1>1, <1>7 DEF WindowInv
    <2> DEFINE a == Paid(k) + RepairLimit
    <2>2. Alone(Callee) = a /\ Whole = a
      BY <1>7 DEF Alone, Whole
    <2>3. a \in Nat
      BY <1>3, <1>5
    <2>4. Before = IF window.calls = {} /\ window.pending = {} THEN Together + a ELSE Together
      BY <1>7, <2>2 DEF Before
    <2>5. CASE stage = "translation"
      <3>1. Cost(stage, n) = Together + Calls * a
        BY <1>5, <1>6, <2>5 DEF Cost
      <3>2. Calls = 1 \/ Calls = 2
        BY DEF Calls
      <3>3. window.calls = {} /\ window.pending = {} => Calls = 2
        BY <1>7 DEF WindowPaid, Waiting, Calls
      <3> HIDE DEF a
      <3>4. CASE Calls = 2
        BY <1>6, <2>2, <2>3, <2>4, <2>5, <3>1, <3>4 DEF a
      <3>5. CASE Calls = 1
        BY <1>6, <2>2, <2>3, <2>4, <2>5, <3>1, <3>3, <3>5 DEF a
      <3> QED BY <3>2, <3>4, <3>5
    <2>6. CASE stage = "review"
      <3>1. n = 1
        <4>1. \A i \in DOMAIN mode.batches.review : mode.batches.review[i] = 1
          BY <1>1, ModesAssumption DEF TypeInv
        <4>2. mode.batches["review"] \in Seq(Nat \ {0})
          BY <1>1, <2>6, ModeFacts DEF TypeInv
        <4>3. Callee \in DOMAIN mode.batches["review"]
          BY <1>2, <2>6, <4>2, LenProperties DEF BatchNo, Lines
        <4> QED BY <2>6, <4>1, <4>3 DEF Lines
      <3>2. Paid(k) = Retries + 1
        BY <1>3, <1>5, <3>1
      <3>3. Cost(stage, n) = 1 + (Retries + 1) + RepairLimit
        BY <2>6 DEF Cost
      <3>4. Before = Together
        BY <1>7, <2>4, <2>6 DEF WindowPaid, Waiting
      <3>5. Before + Whole <= Cost(stage, n)
        BY <1>3, <1>6, <2>2, <3>2, <3>3, <3>4
      <3> QED BY <1>6, <2>2, <2>3, <2>6, <3>4, <3>5
    <2> QED BY <2>1, <2>5, <2>6
  <1>8. CASE ~ window.open
    <2>1. Before = 0 /\ stage \in {"correction", "terminology", "validation"}
      BY <1>2, <1>8 DEF Before
    <2>2. Whole = IF stage = "validation" THEN RepairLimit ELSE Retries + 1
      BY <1>8 DEF Whole
    <2>3. Cost(stage, n) = IF stage = "validation" THEN RepairLimit ELSE Retries + 1
      BY <2>1 DEF Cost
    <2> QED BY <1>3, <1>6, <2>1, <2>2, <2>3
  <1> QED BY <1>7, <1>8

\* What a step of a call can rely on.
LEMMA InnerSetup ==
  ASSUME DocumentInv, DocumentInv', BudgetInv, status = "running", InCall,
         UNCHANGED <<mode, stage, answers, window>>, trouble # "none" => trouble' # "none"
  PROVE  /\ Chain(stack, Context') /\ Chain(stack', Context') /\ Room(Context', Before, Whole)
         /\ Context'.stage = stage /\ stage \in Stages /\ Callee \in BatchNo
         /\ asked[stage][Callee] \in Nat
         /\ Within(asked[stage][Callee], stack, ret, Before, Whole)
         /\ stack # << >> => Top.b = Callee
PROOF
  <1>1. TypeInv /\ CallInv /\ WindowPaid /\ AskedType
    BY DEF DocumentInv, BudgetInv
  <1>2. /\ Chain(stack, Context') /\ (stack # << >> => FrameOK(Top, Context'))
        /\ Context'.retries = Retries /\ Retries \in Nat
        /\ Context'.repairs = RepairLimit /\ RepairLimit \in Nat
        /\ Context'.stage = stage /\ Context'.lines \in Nat
    BY InnerContext
  <1>3. Context'.b = Callee /\ Context'.lines = Lines[Callee]
    BY <1>1, SameCall
  <1>4. Callee \in BatchNo /\ stage \in Stages /\ BatchNo = Batches(stage)
    BY <1>1, ModeFacts DEF CallInv, TypeInv
  <1>5. asked[stage][Callee] \in Nat
    BY <1>1, <1>4 DEF AskedType
  <1>6. Within(asked[stage][Callee], stack, ret, Before, Whole)
    BY DEF BudgetInv, Spent
  <1>7. Chain(stack', Context')
    <2> DEFINE d == Context'
               s == stack'
    <2>1. s # << >> => Chain(s, d)
      BY DEF DocumentInv, CallInv, InCall
    <2> HIDE DEF d, s
    <2>2. s = << >> => Chain(s, d)
      BY ChainEmpty
    <2> QED BY <2>1, <2>2 DEF d, s
  <1>8. Room(Context', Before, Whole)
    <2>1. /\ Before \in Nat /\ Whole \in Nat
          /\ stage \in {"translation", "review"} =>
               Whole = Paid(2 * Lines[Callee] - 1) + RepairLimit
          /\ stage = "validation" => Whole = RepairLimit
          /\ stage \in {"correction", "terminology"} => Whole = Retries + 1
      BY <1>1, Allowance
    <2>2. Lines[Callee] \in Nat \ {0}
      BY <1>1, <1>4, ModeFacts
    <2>3. Paid(2 * Lines[Callee] - 1) \in Nat
      <3>1. 2 * Lines[Callee] - 1 \in Nat
        BY <2>2
      <3> QED BY <1>2, <3>1, PaidFacts
    <2> DEFINE d == Context'
    <2>4. /\ d.retries = Retries /\ d.repairs = RepairLimit /\ d.stage = stage
          /\ d.lines = Lines[Callee]
      BY <1>2, <1>3
    <2> HIDE DEF d
    <2>5. Room(d, Before, Whole)
      BY <1>2, <2>1, <2>2, <2>3, <2>4 DEF Room
    <2> QED BY <2>5 DEF d
  <1>9. stack # << >> => Top.b = Callee
    BY <1>2, <1>3 DEF FrameOK
  <1> QED BY <1>2, <1>4, <1>5, <1>6, <1>7, <1>8, <1>9

\* The call in progress asks one more request at most, and stays within its
\* budget.
LEMMA InnerBudget ==
  ASSUME DocumentInv, BudgetInv, status = "running", InCall, InCall',
         UNCHANGED <<mode, stage, answers, window, status>>,
         NEW y \in Nat, y = asked[stage][Callee] \/ y <= Before + Whole,
         DOMAIN asked' = Stages,
         \A s \in Stages : /\ asked'[s] \in [Batches(s) -> Nat]
                           /\ \A b \in Batches(s) :
                                asked'[s][b] = IF s = stage /\ b = Callee THEN y ELSE asked[s][b],
         Within(y, stack', ret', Before, Whole)
  PROVE  BudgetInv'
PROOF
  <1>1. /\ TypeInv /\ CallInv /\ WindowInv /\ AskedType /\ RequestsBounded
        /\ WindowPaid /\ Untouched /\ Ahead
    BY DEF DocumentInv, BudgetInv
  <1>2. stage \in Stages /\ BatchNo = Batches(stage) /\ Callee \in BatchNo /\ BatchNo \subseteq Nat
    BY <1>1, ModeFacts DEF TypeInv, CallInv
  <1>3. /\ Lines' = Lines /\ BatchNo' = BatchNo /\ answer' = answer /\ Waiting' = Waiting
        /\ Together' = Together /\ (\A s : Batches(s)' = Batches(s))
        /\ Retries' = Retries /\ RepairLimit' = RepairLimit
    <2>1. Lines' = Lines /\ answer' = answer /\ Waiting' = Waiting
      BY DEF Lines, answer, Waiting
    <2>2. Together' = Together /\ Retries' = Retries /\ RepairLimit' = RepairLimit
      BY DEF Together, Parallel, Retries, RepairLimit
    <2>3. \A s : Batches(s)' = Batches(s)
      BY DEF Batches
    <2>4. BatchNo' = BatchNo
      BY <2>1 DEF BatchNo
    <2> QED BY <2>1, <2>2, <2>3, <2>4
  <1>4. Callee' = Callee
    BY <1>3 DEF Callee, Caller, NextBatch, Unanswered, First
  <1>5. \A b : Busy(b) <=> b = Callee
    BY DEF Busy
  <1>6. \A b : Busy(b)' <=> b = Callee
    BY <1>4 DEF Busy
  <1>7. \A b : Alone(b)' = Alone(b)
    BY <1>3 DEF Alone, Paid
  <1>8. Before' = Before /\ Whole' = Whole
    BY <1>3, <1>4, <1>7 DEF Before, Whole
  <1>9. AskedType'
    BY <1>3 DEF AskedType
  <1>10. RequestsBounded'
    <2>1. Before + Whole <= Cost(stage, Lines[Callee])
      BY <1>1, Allowance
    <2>2. Before \in Nat /\ Whole \in Nat
      BY <1>1, Allowance
    <2>3. \A s \in Stages : DOMAIN asked[s] = Batches(s) /\ DOMAIN asked'[s] = Batches(s)
      BY <1>1 DEF AskedType
    <2>4. ASSUME NEW s \in Stages, NEW b \in Batches(s)
          PROVE  asked'[s][b] <= Cost(s, mode.batches[s][b])
      <3>1. asked[s][b] <= Cost(s, mode.batches[s][b])
        BY <1>1, <2>3 DEF RequestsBounded
      <3>2. CASE s = stage /\ b = Callee
        <4>1. asked'[s][b] = y
          BY <3>2
        <4>2. Cost(s, mode.batches[s][b]) = Cost(stage, Lines[Callee])
          BY <3>2 DEF Lines
        <4>3. y = asked[stage][Callee] => y <= Cost(stage, Lines[Callee])
          BY <3>1, <3>2, <4>2
        <4>4. y <= Before + Whole => y <= Cost(stage, Lines[Callee])
          <5>1. Cost(stage, Lines[Callee]) \in Int
            BY <1>1, <1>2, CostType
          <5> QED BY <2>1, <2>2, <5>1
        <4> QED BY <4>1, <4>2, <4>3, <4>4
      <3>3. CASE ~ (s = stage /\ b = Callee)
        BY <3>1, <3>3
      <3> QED BY <3>2, <3>3
    <2>5. \A s, n : Cost(s, n)' = Cost(s, n)
      BY <1>3 DEF Cost, Calls, Parallel
    <2> QED BY <2>3, <2>4, <2>5 DEF RequestsBounded
  <1>11. Spent'
    <2>1. (asked[stage][Callee])' = y
      BY <1>2, <1>4
    <2> QED BY <1>3, <1>8, <2>1 DEF Spent, Within, Paid
  <1>12. \A b \in BatchNo : b # Callee => asked'[stage][b] = asked[stage][b]
    BY <1>2
  <1>13. WindowPaid'
    BY <1>1, <1>3, <1>5, <1>6, <1>7, <1>12 DEF WindowPaid, Parallel, First
  <1>14. Untouched'
    <2> SUFFICES ASSUME NEW b \in BatchNo, answer[b] = << >>, b \notin Waiting,
                        ~ (b = Callee /\ ~ window.open), NEW c \in BatchNo, b <= c
                 PROVE  answer[c] = << >> /\ asked'[stage][c] = 0 /\ c \notin Waiting \cup window.names
      BY <1>3, <1>6 DEF Untouched
    <2>1. answer[c] = << >> /\ asked[stage][c] = 0 /\ c \notin Waiting \cup window.names
      BY <1>1, <1>5 DEF Untouched
    <2>2. c # Callee
      <3>1. CASE window.open
        <4>1. Waiting \cup window.names # {}
          BY <1>1, <3>1 DEF WindowPaid
        <4>2. Waiting \subseteq Nat /\ window.names \subseteq Nat
              /\ window.calls \subseteq Nat /\ window.pending \subseteq Nat
          BY <1>1, <1>2 DEF WindowInv, Waiting
        <4>3. Callee \in Waiting \cup window.names
          BY <3>1, <4>1, <4>2, FirstIn DEF Callee, Caller, Waiting
        <4> QED BY <2>1, <4>3
      <3>2. CASE ~ window.open /\ stage = "correction"
        <4>1. Callee = First(Unanswered)
          BY <3>2 DEF Callee, NextBatch
        <4>2. b \in Unanswered /\ Unanswered \in SUBSET Nat
          BY <1>2 DEF Unanswered
        <4>3. Callee <= b
          BY <4>1, <4>2, FirstIn
        <4> QED BY <1>2, <3>2, <4>3
      <3>3. CASE ~ window.open /\ stage # "correction"
        <4>1. stage \in {"terminology", "validation"} /\ Callee = 1
          BY <1>1, <3>3 DEF CallInv, Callee
        <4>2. BatchNo = {1}
          BY <1>1, <1>2, <4>1, ModeFacts
        <4> QED BY <3>3, <4>1, <4>2
      <3> QED BY <3>1, <3>2, <3>3
    <2> QED BY <1>12, <2>1, <2>2
  <1>15. Ahead'
    <2>1. Later' = Later /\ stage \notin Later /\ Later \subseteq Stages
      BY DEF Later, Stages
    <2>2. ASSUME NEW s \in Later, NEW b \in Batches(s)
          PROVE  /\ asked'[s][b] = 0
                 /\ answers'[s][b] = << >> =>
                      \A c \in Batches(s) : b <= c => answers'[s][c] = << >>
      <3>1. asked'[s][b] = asked[s][b]
        BY <2>1
      <3> QED BY <1>1, <3>1 DEF Ahead
    <2> QED BY <1>3, <2>1, <2>2 DEF Ahead
  <1> QED BY <1>9, <1>10, <1>11, <1>13, <1>14, <1>15 DEF BudgetInv

\* There is room for the request of an attempt or of a repair.
LEMMA SendFits ==
  ASSUME NEW d, Chain(stack, d), stack # << >>,
         Top.at \in {"attempt", "repair", "correction", "terminology"},
         NEW p, NEW w, Room(d, p, w), NEW x \in Nat, Within(x, stack, NoValue, p, w)
  PROVE  x + 1 <= p + w
PROOF
  <1>1. /\ d.lines \in Nat /\ p \in Nat /\ w \in Nat /\ Retries \in Nat /\ RepairLimit \in Nat
        /\ d.retries = Retries /\ d.repairs = RepairLimit
    BY DEF Room
  <1>2. FrameOK(Top, d)
    BY ChainTop DEF Top
  <1>3. Top.attempt \in Nat /\ Top.attempt <= IF Top.at = "repair" THEN RepairLimit ELSE Retries + 1
    BY <1>1, TopFacts
  <1>4. CASE Top.at = "attempt"
    <2> DEFINE o == Owed(Tail(stack))
               m == 2 * Top.hi - 1 + o
               n == 2 * d.lines - 1
    <2>1. x + 1 <= p + Paid(m)
      BY <1>4, AttemptSpent
    <2>2. Top.hi \in Nat /\ o \in Nat /\ o + Top.hi <= d.lines /\ 1 <= Top.hi
      <3>1. /\ Top.lo \in Nat /\ Top.cut \in Nat /\ Top.hi \in Nat /\ 1 <= Top.lo
            /\ Top.lo <= Top.cut /\ Top.cut <= Top.hi /\ o \in Nat /\ o + Top.hi <= d.lines
        BY <1>1, TopFacts
      <3> HIDE DEF o
      <3> QED BY <3>1
    <2>3. m \in Nat /\ n \in Nat /\ m <= n
      <3>1. ASSUME NEW hi \in Nat, NEW i \in Nat, NEW k \in Nat, i + hi <= k, 1 <= hi
            PROVE  /\ 2 * hi - 1 + i \in Nat /\ 2 * k - 1 \in Nat
                   /\ 2 * hi - 1 + i <= 2 * k - 1
        BY <3>1
      <3> HIDE DEF o
      <3> QED BY <1>1, <2>2, <3>1
    <2>4. Paid(n) + RepairLimit <= w
      BY <1>2, <1>4 DEF FrameOK, Room
    <2> HIDE DEF m, n
    <2>5. Paid(m) \in Nat /\ Paid(n) \in Nat /\ Paid(m) <= Paid(n)
      BY <1>1, <2>3, PaidFacts
    <2> QED BY <1>1, <2>1, <2>4, <2>5
  <1>5. CASE Top.at = "repair"
    <2>1. x + RepairLimit <= p + w + Top.attempt - 1
      BY <1>5 DEF Within, Top
    <2> QED BY <1>1, <1>3, <1>5, <2>1
  <1>6. CASE Top.at \in {"correction", "terminology"}
    <2>1. x <= Top.attempt - 1
      BY <1>6 DEF Within, Top
    <2>2. Retries + 1 <= w
      BY <1>2, <1>6 DEF FrameOK, Room
    <2> QED BY <1>1, <1>3, <1>6, <2>1, <2>2
  <1> QED BY <1>4, <1>5, <1>6

\* A request is counted for its batch, and for no other.
LEMMA SendAsks ==
  ASSUME TypeInv, AskedType, NEW b \in BatchNo, Send(b)
  PROVE  /\ DOMAIN asked' = Stages
         /\ \A s \in Stages :
              /\ asked'[s] \in [Batches(s) -> Nat]
              /\ \A c \in Batches(s) :
                   asked'[s][c] = IF s = stage /\ c = b THEN asked[stage][b] + 1 ELSE asked[s][c]
PROOF
  <1>1. stage \in Stages /\ BatchNo = Batches(stage)
    BY ModeFacts DEF TypeInv
  <1>2. asked' = [asked EXCEPT ![stage] = [asked[stage] EXCEPT ![b] = asked[stage][b] + 1]]
    BY DEF Send
  <1>3. DOMAIN asked = Stages /\ \A s \in Stages : asked[s] \in [Batches(s) -> Nat]
    BY DEF AskedType
  <1>4. DOMAIN asked' = Stages
    BY <1>2, <1>3
  <1>5. ASSUME NEW s \in Stages
        PROVE  /\ asked'[s] \in [Batches(s) -> Nat]
               /\ \A c \in Batches(s) :
                    asked'[s][c] = IF s = stage /\ c = b THEN asked[stage][b] + 1 ELSE asked[s][c]
    <2>1. CASE s = stage
      <3>1. asked'[s] = [asked[s] EXCEPT ![b] = asked[s][b] + 1]
        BY <1>1, <1>2, <1>3, <2>1
      <3>2. asked[s] \in [Batches(s) -> Nat] /\ asked[s][b] + 1 \in Nat
        BY <1>1, <1>3, <2>1
      <3> QED BY <2>1, <3>1, <3>2
    <2>2. CASE s # stage
      <3>1. asked'[s] = asked[s]
        BY <1>1, <1>2, <1>3, <2>2
      <3> QED BY <1>3, <2>2, <3>1
    <2> QED BY <2>1, <2>2
  <1> QED BY <1>4, <1>5

\* A step of the call in progress that sends a request for it, or none.
LEMMA InnerStep ==
  ASSUME DocumentInv, DocumentInv', BudgetInv, status = "running", stack # << >>,
         UNCHANGED <<mode, stage, answers, window, status>>,
         trouble # "none" => trouble' # "none",
         \/ UNCHANGED asked /\ Within(asked[stage][Callee], stack', ret', Before, Whole)
         \/ /\ Send(Top.b) /\ ret = NoValue
            /\ Top.at \in {"attempt", "repair", "correction", "terminology"}
            /\ Within(asked[stage][Callee] + 1, stack', ret', Before, Whole)
  PROVE  BudgetInv'
PROOF
  <1> DEFINE d == Context'
             x == asked[stage][Callee]
  <1>1. InCall /\ TypeInv /\ AskedType
    BY DEF InCall, DocumentInv, BudgetInv
  <1>2. InCall'
    BY DEF Within, InCall, NoValue
  <1>3. /\ Chain(stack, d) /\ Room(d, Before, Whole) /\ stage \in Stages /\ Callee \in BatchNo
        /\ x \in Nat /\ Within(x, stack, ret, Before, Whole) /\ Top.b = Callee
    BY <1>1, InnerSetup
  <1> HIDE DEF d
  <1>4. stage \in Stages /\ BatchNo = Batches(stage)
    BY <1>1, ModeFacts DEF TypeInv
  <1>5. CASE UNCHANGED asked /\ Within(x, stack', ret', Before, Whole)
    <2>1. /\ DOMAIN asked' = Stages
          /\ \A s \in Stages : /\ asked'[s] \in [Batches(s) -> Nat]
                               /\ \A b \in Batches(s) :
                                    asked'[s][b] = IF s = stage /\ b = Callee THEN x ELSE asked[s][b]
      BY <1>1, <1>5 DEF AskedType
    <2> QED BY <1>1, <1>2, <1>3, <1>5, <2>1, InnerBudget
  <1>6. CASE /\ Send(Callee) /\ ret = NoValue
             /\ Top.at \in {"attempt", "repair", "correction", "terminology"}
             /\ Within(x + 1, stack', ret', Before, Whole)
    <2> DEFINE y == x + 1
    <2>1. /\ DOMAIN asked' = Stages
          /\ \A s \in Stages : /\ asked'[s] \in [Batches(s) -> Nat]
                               /\ \A b \in Batches(s) :
                                    asked'[s][b] = IF s = stage /\ b = Callee THEN y ELSE asked[s][b]
      BY <1>1, <1>3, <1>6, SendAsks
    <2>2. y <= Before + Whole
      BY <1>3, <1>6, SendFits
    <2>3. y \in Nat
      BY <1>3
    <2> HIDE DEF y
    <2>4. Within(y, stack', ret', Before, Whole)
      BY <1>6 DEF y
    <2> QED BY <1>1, <1>2, <2>1, <2>2, <2>3, <2>4, InnerBudget
  <1> QED BY <1>3, <1>5, <1>6

\* The steps of a translation or a review, until its answer.
LEMMA AttemptBudget ==
  ASSUME DocumentInv, DocumentInv', BudgetInv, UNCHANGED <<mode, stage>>,
         AttemptStopped \/ AttemptCached \/ AttemptAsked \/ AttemptRefused
  PROVE  BudgetInv'
PROOF
  <1> DEFINE d == Context'
             x == asked[stage][Callee]
  <1>1. /\ stack # << >> /\ Top.at = "attempt" /\ status = "running" /\ ret = NoValue
        /\ UNCHANGED <<mode, stage, answers, window, status>>
    BY DEF AttemptStopped, AttemptCached, AttemptAsked, AttemptRefused, In, Running
  <1>2. PICK e \in Error \cup {"ok"} :
          \/ UNCHANGED <<asked, trouble>> /\ Return(Err("cancelled"))
          \/ UNCHANGED <<asked, trouble>> /\ Split(Top, TRUE)
          \/ UNCHANGED asked /\ Note("budget") /\ Return(Err("budget"))
          \/ UNCHANGED asked /\ Note(e) /\ AfterAttempt(Top, e)
          \/ Send(Top.b) /\ Note(e) /\ AfterAttempt(Top, e)
    BY DEF AttemptStopped, AttemptCached, AttemptAsked, AttemptRefused, accounting, Cached,
           Outcome, Error
  <1>3. TypeInv /\ InCall
    BY <1>1 DEF DocumentInv, InCall
  <1>4. trouble # "none" => trouble' # "none"
    BY <1>2, <1>3, NoteFacts
  <1>5. /\ Chain(stack, d) /\ Chain(stack', d) /\ Room(d, Before, Whole) /\ d.stage = stage
        /\ x \in Nat /\ Within(x, stack, NoValue, Before, Whole)
    BY <1>1, <1>3, <1>4, InnerSetup
  <1> HIDE DEF d, x
  <1>6. d.stage \in {"translation", "review"}
    <2>1. FrameOK(Top, d)
      BY <1>1, <1>5, ChainTop DEF Top
    <2> QED BY <1>1, <2>1 DEF FrameOK
  <1>7. ASSUME NEW y \in Nat, y <= x + 1 PROVE
          /\ y <= Before + Paid(2 * (Top.lo - 1) + Owed(Tail(stack)) + 1)
          /\ y <= Before + Paid(2 * Top.hi - 1 + Owed(Tail(stack)))
    BY <1>1, <1>5, <1>7, AttemptSpent
  <1>8. x \in Nat /\ x <= x + 1 /\ x + 1 \in Nat /\ x + 1 <= x + 1
    BY <1>5
  <1>9. \A c \in Error : Err(c) # NoValue
    BY DEF Err, NoValue, Error, Outcome
  <1>10. ASSUME NEW c \in {"cancelled", "budget"}, Return(Err(c))
         PROVE  Within(x, stack', ret', Before, Whole)
    <2> DEFINE v == Err(c)
    <2>1. v # NoValue
      BY <1>9 DEF Error, Outcome
    <2>2. Return(v)
      BY <1>10
    <2> HIDE DEF v
    <2> QED BY <1>1, <1>5, <1>6, <1>7, <1>8, <2>1, <2>2, EndWithin
  <1>11. Split(Top, TRUE) => Within(x, stack', ret', Before, Whole)
    BY <1>1, <1>5, <1>7, <1>8, SplitWithin
  <1>12. ASSUME AfterAttempt(Top, e), NEW y \in Nat, y <= x + 1
         PROVE  Within(y, stack', ret', Before, Whole)
    BY <1>1, <1>5, <1>6, <1>12, AttemptWithin
  <1>13. \/ UNCHANGED asked /\ Within(x, stack', ret', Before, Whole)
         \/ Send(Top.b) /\ Within(x + 1, stack', ret', Before, Whole)
    BY <1>2, <1>8, <1>10, <1>11, <1>12
  <1> QED BY <1>1, <1>4, <1>13, InnerStep DEF x

\* A part of a split returns.
LEMMA PartBudget ==
  ASSUME DocumentInv, DocumentInv', BudgetInv, UNCHANGED <<mode, stage>>,
         LeftReturns \/ RightReturns
  PROVE  BudgetInv'
PROOF
  <1> DEFINE d == Context'
             x == asked[stage][Callee]
             e == ret.kind
  <1>1. /\ stack # << >> /\ Top.at \in {"left", "right"} /\ status = "running" /\ ret # NoValue
        /\ UNCHANGED <<mode, stage, answers, window, status, asked, trouble>>
    BY DEF LeftReturns, RightReturns, accounting
  <1>2. TypeInv /\ InCall /\ CallInv
    BY <1>1 DEF DocumentInv, InCall
  <1>3. /\ Chain(stack, d) /\ Chain(stack', d) /\ Room(d, Before, Whole) /\ d.stage = stage
        /\ x \in Nat /\ Within(x, stack, ret, Before, Whole)
    BY <1>1, <1>2, InnerSetup
  <1>4. e \in Error \cup {"ok"}
    BY <1>1, <1>2 DEF CallInv, ValueOK
  <1> HIDE DEF d, x
  <1>5. d.stage \in {"translation", "review"} /\ d.lines \in Nat
    <2>1. FrameOK(Top, d)
      BY <1>1, <1>3, ChainTop DEF Top
    <2> QED BY <1>1, <1>3, <2>1 DEF FrameOK, Room
  <1>6. x <= Before + Paid(2 * Top.hi - 1 + Owed(Tail(stack)))
    BY <1>1, <1>3, PartSpent
  <1>7. ASSUME NEW c \in Error, SplitFailed(Top, c)
        PROVE  Within(x, stack', ret', Before, Whole)
    BY <1>1, <1>3, <1>5, <1>7, SplitFailedWithin
  <1>8. ASSUME NEW lines, Return(Ok(lines)) PROVE Within(x, stack', ret', Before, Whole)
    <2> DEFINE v == Ok(lines)
    <2>1. v # NoValue
      BY DEF Ok, NoValue
    <2>2. Return(v)
      BY <1>8
    <2> HIDE DEF v
    <2> QED BY <1>1, <1>3, <1>5, <1>6, <2>1, <2>2, EndWithin
  <1>9. CASE LeftReturns /\ e = "ok"
    <2> DEFINE f == Top
               q == Frame(f.b, f.cut + 1, f.hi, FALSE, "ok")
               g == [f EXCEPT !.at = "right", !.left = ret.lines]
    <2>1. f.at = "left" /\ ret' = NoValue /\ stack' = << q, g >> \o Tail(stack)
      BY <1>9 DEF LeftReturns
    <2>2. f \in Frames /\ f.cut \in Nat /\ f.hi \in Nat /\ f.b \in Nat /\ f.lo \in Nat
      <3>1. f \in Frames
        BY <1>1, <1>3, <1>5, TopFacts
      <3> QED BY <3>1 DEF Frames
    <2>3. ret.lines \in Seq(Nat)
      <3> DEFINE h == Head(stack)
      <3>1. Chain(stack, Context)
        BY <1>2 DEF CallInv
      <3>2. FrameOK(h, Context) /\ h = f
        <4> DEFINE c == Context
        <4>1. Chain(stack, c)
          BY <3>1
        <4> HIDE DEF c
        <4>2. FrameOK(Head(stack), c)
          BY <1>1, <4>1, ChainTop
        <4> QED BY <4>2 DEF c, Top
      <3>3. ret.lines = From(h.lo, h.cut)
        BY <1>1, <1>2, <1>9, <2>1, <3>2 DEF CallInv, ValueOK, Low, High
      <3>4. h.lo \in Nat /\ h.cut \in Nat /\ h.lo <= h.cut + 1
        BY <2>2, <3>2 DEF FrameOK
      <3> HIDE DEF h
      <3>5. From(h.lo, h.cut) \in Seq(Nat)
        BY <3>4, FromFacts
      <3> QED BY <3>3, <3>5
    <2>4. q \in Frames /\ q.lo = f.cut + 1 /\ q.at = "attempt" /\ q.attempt = 1
      BY <2>2, EmptySeq DEF Frame, Frames
    <2>5. g \in Frames /\ g.at = "right"
      BY <2>2, <2>3 DEF Frames
    <2> HIDE DEF q, g
    <2>6. Within(x, stack', ret', Before, Whole)
      BY <1>1, <1>3, <2>1, <2>4, <2>5, LeftWithin
    <2> QED BY <1>1, <2>6, InnerStep DEF x
  <1>10. CASE (\E c \in Error : SplitFailed(Top, c)) \/ (\E lines : Return(Ok(lines)))
    <2>1. Within(x, stack', ret', Before, Whole)
      BY <1>7, <1>8, <1>10
    <2> QED BY <1>1, <2>1, InnerStep DEF x
  <1>11. CASE LeftReturns /\ e # "ok"
    <2>1. SplitFailed(Top, e) /\ e \in Error
      BY <1>4, <1>11 DEF LeftReturns
    <2> QED BY <1>10, <2>1
  <1>12. CASE RightReturns
    <2>1. "invalid" \in Error
      BY DEF Error, Outcome
    <2>2. (\E c \in Error : SplitFailed(Top, c)) \/ (\E lines : Return(Ok(lines)))
      BY <1>4, <1>12, <2>1 DEF RightReturns
    <2> QED BY <1>10, <2>2
  <1> QED BY <1>9, <1>11, <1>12

\* The repairs of a call.
LEMMA RepairBudget ==
  ASSUME DocumentInv, DocumentInv', BudgetInv, UNCHANGED <<mode, stage>>,
         RepairStopped \/ RepairAsked \/ RepairUnasked
  PROVE  BudgetInv'
PROOF
  <1> DEFINE d == Context'
             x == asked[stage][Callee]
  <1>1. /\ stack # << >> /\ Top.at = "repair" /\ status = "running" /\ ret = NoValue
        /\ UNCHANGED <<mode, stage, answers, window, status>>
    BY DEF RepairStopped, RepairAsked, RepairUnasked, In, Running
  <1>2. \/ UNCHANGED <<asked, trouble>> /\ Return(Err("cancelled"))
        \/ \E e : /\ UNCHANGED asked \/ Send(Top.b)
                  /\ Note(e) /\ AfterRepair(Top, e)
    BY DEF RepairStopped, RepairAsked, RepairUnasked, accounting
  <1>3. TypeInv /\ InCall
    BY <1>1 DEF DocumentInv, InCall
  <1>4. trouble # "none" => trouble' # "none"
    BY <1>2, <1>3, NoteFacts
  <1>5. /\ Chain(stack, d) /\ Room(d, Before, Whole)
        /\ x \in Nat /\ Within(x, stack, NoValue, Before, Whole)
    BY <1>1, <1>3, <1>4, InnerSetup
  <1> HIDE DEF d, x
  <1>6. ASSUME NEW y \in Nat, y <= x + 1 PROVE Within(y, stack', ret', Before, Whole)
    BY <1>1, <1>2, <1>5, <1>6, RepairWithin
  <1>7. Within(x, stack', ret', Before, Whole) /\ Within(x + 1, stack', ret', Before, Whole)
    <2>1. x \in Nat /\ x <= x + 1 /\ x + 1 \in Nat /\ x + 1 <= x + 1
      BY <1>5
    <2> QED BY <1>6, <2>1
  <1>8. UNCHANGED asked \/ Send(Top.b)
    BY <1>2
  <1> QED BY <1>1, <1>4, <1>7, <1>8, InnerStep DEF x

\* The attempts of the correction and of the preflight.
LEMMA OptionalBudget ==
  ASSUME DocumentInv, DocumentInv', BudgetInv, UNCHANGED mode,
         \/ CorrectionCached \/ CorrectionAsked \/ CorrectionRefused
         \/ PreflightStopped \/ PreflightAsked
  PROVE  BudgetInv'
PROOF
  <1> DEFINE d == Context'
             x == asked[stage][Callee]
  <1>1. /\ stack # << >> /\ Top.at \in {"correction", "terminology"} /\ status = "running"
        /\ ret = NoValue /\ UNCHANGED <<mode, stage, answers, window, status>>
    BY DEF CorrectionCached, CorrectionAsked, CorrectionRefused, PreflightStopped,
           PreflightAsked, In, Running
  <1>2. TypeInv /\ InCall
    BY <1>1 DEF DocumentInv, InCall
  <1>3. stage = Top.at /\ (stage = "terminology" => Top.b = 1)
    <2> DEFINE c == Context
    <2>1. Chain(stack, c)
      BY <1>2 DEF DocumentInv, CallInv
    <2>2. c.stage = stage /\ c.b = Callee
      BY DEF Context
    <2> HIDE DEF c
    <2>3. FrameOK(Top, c)
      BY <1>1, <2>1, ChainTop DEF Top
    <2>4. stage = Top.at /\ Top.b = Callee
      BY <1>1, <2>2, <2>3 DEF FrameOK
    <2>5. stage = "terminology" => Callee = 1
      BY DEF Callee, DocumentInv, WindowInv
    <2> QED BY <2>4, <2>5
  <1>4. PICK e \in Error \cup {"ok"} :
          /\ UNCHANGED asked \/ Send(Top.b)
          /\ UNCHANGED trouble \/ Note(e)
          /\ \/ AfterCorrection(Top, e)
             \/ AfterPreflight(Top, e)
             \/ Return(Err("cancelled")) \/ Return(Err("budget"))
    <2>1. CASE CorrectionCached \/ CorrectionAsked \/ CorrectionRefused
      BY <2>1 DEF CorrectionCached, CorrectionAsked, CorrectionRefused, accounting, Cached,
                  Outcome, Error
    <2>2. CASE PreflightStopped
      <3>1. "budget" \in Error
        BY DEF Error
      <3> QED BY <2>2, <3>1 DEF PreflightStopped, accounting
    <2>3. CASE PreflightAsked
      <3>1. Top.b = 1
        BY <1>3, <2>3 DEF PreflightAsked, In
      <3> QED BY <2>3, <3>1 DEF PreflightAsked, Outcome, Error
    <2> QED BY <2>1, <2>2, <2>3
  <1>5. trouble # "none" => trouble' # "none"
    BY <1>2, <1>4, NoteFacts
  <1>6. /\ Chain(stack, d) /\ Room(d, Before, Whole)
        /\ x \in Nat /\ Within(x, stack, NoValue, Before, Whole)
    BY <1>1, <1>2, <1>5, InnerSetup
  <1> HIDE DEF d, x
  <1>7. (\E v : v # NoValue /\ Return(v)) \/ (\E c \in Error : Again(Top, c))
    <2>1. \A c \in Error : Err(c) # NoValue
      BY DEF Err, NoValue, Error, Outcome
    <2>2. \A lines : Ok(lines) # NoValue
      BY DEF Ok, NoValue
    <2>3. {"cancelled", "budget", "invalid"} \subseteq Error
      BY DEF Error, Outcome
    <2>4. ASSUME AfterCorrection(Top, e)
          PROVE  \/ Return(Ok(From(Top.lo, Top.hi))) \/ Return(Err("cancelled"))
                 \/ Again(Top, "invalid")
      BY <2>4 DEF AfterCorrection
    <2>5. ASSUME AfterPreflight(Top, e)
          PROVE  \/ Return(Ok(From(Top.lo, Top.hi)))
                 \/ e \in Error /\ (Return(Err(e)) \/ Again(Top, e))
      BY <2>5 DEF AfterPreflight, IsOperational
    <2> QED BY <1>4, <2>1, <2>2, <2>3, <2>4, <2>5
  <1>8. ASSUME NEW y \in Nat, y <= x + 1 PROVE Within(y, stack', ret', Before, Whole)
    BY <1>1, <1>6, <1>7, <1>8, AgainWithin
  <1>9. Within(x, stack', ret', Before, Whole) /\ Within(x + 1, stack', ret', Before, Whole)
    <2>1. x \in Nat /\ x <= x + 1 /\ x + 1 \in Nat /\ x + 1 <= x + 1
      BY <1>6
    <2> QED BY <1>8, <2>1
  <1>10. UNCHANGED asked \/ Send(Top.b)
    BY <1>4
  <1> QED BY <1>1, <1>5, <1>9, <1>10, InnerStep DEF x

-----------------------------------------------------------------------------
(* The budget between the calls *)

\* Settings and budgets are those of the mode.
LEMMA SameMode ==
  ASSUME UNCHANGED mode
  PROVE  /\ Together' = Together /\ Retries' = Retries /\ RepairLimit' = RepairLimit
         /\ Parallel' = Parallel
         /\ \A s : Batches(s)' = Batches(s)
         /\ \A s, n : Cost(s, n)' = Cost(s, n)
         /\ \A k : Paid(k)' = Paid(k)
PROOF
  <1>1. Together' = Together /\ Retries' = Retries /\ RepairLimit' = RepairLimit
        /\ Parallel' = Parallel
    BY DEF Together, Parallel, Retries, RepairLimit
  <1>2. \A s : Batches(s)' = Batches(s)
    BY DEF Batches
  <1>3. \A s, n : Cost(s, n)' = Cost(s, n)
    BY <1>1 DEF Cost, Calls
  <1>4. \A k : Paid(k)' = Paid(k)
    BY <1>1 DEF Paid
  <1> QED BY <1>1, <1>2, <1>3, <1>4

\* Batches and the stages to come are those of the stage.
LEMMA SameStage ==
  ASSUME UNCHANGED <<mode, stage>>
  PROVE  /\ Lines' = Lines /\ BatchNo' = BatchNo /\ Later' = Later
         /\ \A b : Alone(b)' = Alone(b)
PROOF
  <1>1. Lines' = Lines
    BY DEF Lines
  <1>2. BatchNo' = BatchNo
    BY <1>1 DEF BatchNo
  <1>3. Later' = Later
    BY DEF Later
  <1>4. \A b : Alone(b)' = Alone(b)
    BY <1>1, SameMode DEF Alone, Paid
  <1> QED BY <1>1, <1>2, <1>3, <1>4

\* Without a request the budget is what it was.
LEMMA StaysBounded ==
  ASSUME BudgetInv, UNCHANGED <<mode, asked>>
  PROVE  AskedType' /\ RequestsBounded'
PROOF
  <1>1. AskedType /\ RequestsBounded
    BY DEF BudgetInv
  <1>2. AskedType'
    BY <1>1, SameMode DEF AskedType
  <1>3. RequestsBounded'
    BY <1>1, SameMode DEF RequestsBounded
  <1> QED BY <1>2, <1>3

\* A run that ends asks nothing more.
LEMMA StopsBudget ==
  ASSUME BudgetInv, UNCHANGED <<mode, asked>>, status' # "running"
  PROVE  BudgetInv'
BY StaysBounded DEF BudgetInv

\* The bounds of a batch are numbers.
LEMMA BudgetTypes ==
  ASSUME TypeInv, NEW b \in BatchNo
  PROVE  Together \in {0, 1} /\ Alone(b) \in Nat
PROOF
  <1>1. Retries \in Nat /\ RepairLimit \in Nat /\ Lines[b] \in Nat \ {0}
    BY ModeFacts
  <1>2. 2 * Lines[b] - 1 \in Nat
    BY <1>1
  <1>3. Paid(2 * Lines[b] - 1) \in Nat
    BY <1>1, <1>2, PaidFacts
  <1> QED BY <1>1, <1>3 DEF Together, Alone

\* A call that starts has asked what was asked before it.
LEMMA StartWithin ==
  ASSUME NEW d, d.lines \in Nat, NEW s, Chain(s, d), s # << >>,
         Head(s).at = "attempt", Head(s).lo = 1, Head(s).attempt = 1,
         Retries \in Nat, NEW p \in Nat, NEW w, NEW x \in Nat, x <= p
  PROVE  Within(x, s, NoValue, p, w)
PROOF
  <1> DEFINE k == 2 * (Head(s).lo - 1) + Owed(s)
  <1>1. Owed(s) \in Nat
    <2>1. Owed(Tail(s)) \in Nat /\ Owed(s) = Owed(Tail(s))
      BY OwedTop
    <2> QED BY <2>1
  <1>2. k \in Nat
    BY <1>1
  <1> HIDE DEF k
  <1>3. Paid(k) \in Nat
    BY <1>2, PaidFacts
  <1>4. x <= p + Paid(k) + Head(s).attempt - 1
    BY <1>3
  <1> QED BY <1>4 DEF Within, k

\* The window is the same, but for the mark of the batch that is called again.
SameWindow ==
  /\ window'.open = window.open /\ window'.calls = window.calls
  /\ window'.pending = window.pending /\ window'.names = window.names
  /\ window'.sent = window.sent /\ (window.again => window'.again)

\* A call starts: nothing else has changed.
LEMMA StartBudget ==
  ASSUME DocumentInv, BudgetInv, status = "running", ~ InCall, InCall',
         UNCHANGED <<mode, stage, answers, asked, status>>, SameWindow,
         window.open /\ Waiting = {} => window'.again /\ window.names # {}, Spent'
  PROVE  BudgetInv'
PROOF
  <1>1. /\ TypeInv /\ WindowInv /\ WindowPaid /\ Untouched /\ Ahead
    BY DEF DocumentInv, BudgetInv
  <1>2. /\ Lines' = Lines /\ BatchNo' = BatchNo /\ Later' = Later /\ Together' = Together
        /\ (\A b : Alone(b)' = Alone(b)) /\ (\A s : Batches(s)' = Batches(s))
        /\ Parallel' = Parallel
    BY SameMode, SameStage
  <1>3. Waiting' = Waiting /\ answer' = answer
    BY DEF Waiting, SameWindow, answer
  <1>4. \A b : ~ Busy(b)
    BY DEF Busy
  <1>5. WindowPaid'
    <2>1. /\ window'.names # {} => stage = "translation" /\ mode.align # "none"
          /\ window'.pending # {} => Parallel
          /\ window'.calls \cap window'.pending = {}
          /\ InCall' /\ window'.open /\ Waiting' = {} => window'.again /\ window'.names # {}
      BY <1>1, <1>3 DEF WindowPaid, SameWindow
    <2>2. ASSUME NEW b \in BatchNo
          PROVE  /\ b \in window'.calls => asked'[stage][b] = 0
                 /\ b \in window'.pending => asked'[stage][b] <= IF window'.sent THEN 1 ELSE 0
                 /\ b \in window'.names \ Waiting' /\ ~ (window'.again /\ b = First(window'.names)) =>
                      asked'[stage][b] <= Together + Alone(b)
      BY <1>1, <1>3, <1>4 DEF WindowPaid, SameWindow
    <2> QED BY <1>2, <2>1, <2>2 DEF WindowPaid, First
  <1>6. Untouched'
    <2> SUFFICES ASSUME NEW b \in BatchNo, answer[b] = << >>, b \notin Waiting,
                        NEW c \in BatchNo, b <= c
                 PROVE  answer[c] = << >> /\ asked[stage][c] = 0 /\ c \notin Waiting \cup window.names
      BY <1>2, <1>3 DEF Untouched, SameWindow
    <2> QED BY <1>1, <1>4 DEF Untouched
  <1>7. Ahead'
    BY <1>1, <1>2 DEF Ahead
  <1> QED BY <1>5, <1>6, <1>7, StaysBounded DEF BudgetInv

\* A batch is answered: what is behind it is still untouched.
LEMMA AnswerBudget ==
  ASSUME DocumentInv, BudgetInv, status = "running", ~ InCall',
         UNCHANGED <<mode, stage, asked, status>>,
         NEW b \in BatchNo, NEW lines, lines # << >>, Answer(b, lines),
         window'.calls \subseteq window.calls, window'.pending \subseteq window.pending,
         window'.names \subseteq window.names, Waiting \subseteq Waiting' \cup {b},
         WindowPaid', InCall => Callee = b,
         b \in Waiting \cup window.names \/ \A c \in BatchNo : c < b => answer[c] # << >>
  PROVE  BudgetInv'
PROOF
  <1>1. TypeInv /\ AnswersInv /\ Untouched /\ Ahead
    BY DEF DocumentInv, BudgetInv
  <1>2. /\ Lines' = Lines /\ BatchNo' = BatchNo /\ Later' = Later
        /\ (\A s : Batches(s)' = Batches(s))
    BY SameMode, SameStage
  <1>3. /\ stage \in Stages /\ BatchNo = Batches(stage) /\ BatchNo \subseteq Nat
        /\ stage \notin Later /\ Later \subseteq Stages
    BY <1>1, ModeFacts DEF TypeInv, Later, Stages
  <1>4. answers' = [answers EXCEPT ![stage] = [answers[stage] EXCEPT ![b] = lines]]
    BY DEF Answer
  <1>5. /\ \A c \in BatchNo : answer'[c] = IF c = b THEN lines ELSE answer[c]
        /\ \A s \in Stages : s # stage => answers'[s] = answers[s]
    BY <1>1, <1>3, <1>4 DEF AnswersInv, answer
  <1>6. Waiting' \subseteq Waiting
    BY DEF Waiting
  <1>7. Untouched'
    <2> SUFFICES ASSUME NEW c \in BatchNo, answer'[c] = << >>, c \notin Waiting',
                        NEW e \in BatchNo, c <= e
                 PROVE  answer'[e] = << >> /\ asked[stage][e] = 0
                        /\ e \notin Waiting' \cup window'.names
      BY <1>2 DEF Untouched
    <2>1. c # b /\ answer[c] = << >> /\ c \notin Waiting /\ ~ Busy(c)
      BY <1>5 DEF Busy
    <2>2. \A g \in BatchNo : c <= g =>
            answer[g] = << >> /\ asked[stage][g] = 0 /\ g \notin Waiting \cup window.names
      BY <1>1, <2>1 DEF Untouched
    <2>3. e # b
      <3> SUFFICES ASSUME e = b PROVE FALSE
        OBVIOUS
      <3>1. b \notin Waiting \cup window.names
        BY <2>2
      <3>2. c < b
        BY <1>3, <2>1
      <3> QED BY <2>1, <3>1, <3>2
    <2> QED BY <1>5, <1>6, <2>2, <2>3
  <1>8. Ahead'
    <2>1. \A s \in Later : answers'[s] = answers[s]
      BY <1>3, <1>5
    <2> QED BY <1>1, <1>2, <2>1 DEF Ahead
  <1>9. Spent'
    BY DEF Spent
  <1> QED BY <1>7, <1>8, <1>9, StaysBounded DEF BudgetInv

\* The next stage has asked nothing yet.
LEMMA StageBudget ==
  ASSUME DocumentInv, BudgetInv, status = "running", ~ InCall', ~ window.open,
         UNCHANGED <<mode, answers, window, asked, status>>, stage' \in Later
  PROVE  BudgetInv'
PROOF
  <1>1. TypeInv /\ WindowInv /\ Ahead
    BY DEF DocumentInv, BudgetInv
  <1>2. window' = NoWindow /\ Waiting' = {} /\ window'.names = {}
    BY <1>1 DEF WindowInv, NoWindow, Waiting
  <1>3. \A s : Batches(s)' = Batches(s)
    BY SameMode
  <1>4. BatchNo' = Batches(stage')
    BY DEF BatchNo, Batches, Lines
  <1>5. Later' \subseteq Later
    BY DEF Later
  <1>6. WindowPaid'
    BY <1>2 DEF WindowPaid, NoWindow
  <1>7. Untouched'
    <2> SUFFICES ASSUME NEW b \in Batches(stage'), answers[stage'][b] = << >>,
                        NEW c \in Batches(stage'), b <= c
                 PROVE  answers[stage'][c] = << >> /\ asked[stage'][c] = 0
      BY <1>2, <1>4 DEF Untouched, answer
    <2> QED BY <1>1 DEF Ahead
  <1>8. Ahead'
    BY <1>1, <1>3, <1>5 DEF Ahead
  <1>9. Spent'
    BY DEF Spent
  <1> QED BY <1>6, <1>7, <1>8, <1>9, StaysBounded DEF BudgetInv

\* What is next has not been asked for yet, nor has anything behind it.
LEMMA NextUntouched ==
  ASSUME DocumentInv, BudgetInv, status = "running", ~ InCall, ~ window.open,
         NEW b \in BatchNo, answer[b] = << >>, NEW c \in BatchNo, b <= c
  PROVE  answer[c] = << >> /\ asked[stage][c] = 0
PROOF
  <1>1. Untouched /\ WindowInv
    BY DEF DocumentInv, BudgetInv
  <1>2. b \notin Waiting
    BY <1>1 DEF WindowInv, NoWindow, Waiting
  <1> QED BY <1>1, <1>2 DEF Untouched, Busy

\* The window changes between calls, or is closed.
LEMMA QuietBudget ==
  ASSUME DocumentInv, BudgetInv, status = "running", ~ InCall, ~ InCall',
         UNCHANGED <<mode, stage, answers, asked, status>>,
         Waiting' = Waiting, window'.names \subseteq window.names, WindowPaid'
  PROVE  BudgetInv'
PROOF
  <1>1. Untouched /\ Ahead
    BY DEF BudgetInv
  <1>2. BatchNo' = BatchNo /\ Later' = Later /\ (\A s : Batches(s)' = Batches(s))
    BY SameMode, SameStage
  <1>3. \A b : ~ Busy(b)
    BY DEF Busy
  <1>4. Untouched'
    <2> SUFFICES ASSUME NEW b \in BatchNo, answer[b] = << >>, b \notin Waiting,
                        NEW c \in BatchNo, b <= c
                 PROVE  answer[c] = << >> /\ asked[stage][c] = 0 /\ c \notin Waiting \cup window'.names
      BY <1>2 DEF Untouched, answer
    <2>1. answer[c] = << >> /\ asked[stage][c] = 0 /\ c \notin Waiting \cup window.names
      BY <1>1, <1>3 DEF Untouched
    <2> QED BY <2>1
  <1>5. Ahead'
    BY <1>1, <1>2 DEF Ahead
  <1>6. Spent'
    BY DEF Spent
  <1> QED BY <1>4, <1>5, <1>6, StaysBounded DEF BudgetInv

\* The sizes of windows are numbers.
LEMMA SizesAreInt == ASSUME TypeInv PROVE WindowSizes \subseteq Int
PROOF
  <1>1. mode.multiplier \in Nat /\ mode.reviewers \in Nat /\ Configured \in Nat
        /\ concurrency \in Nat
    BY ModeFacts DEF TypeInv
  <1>2. Concurrency \in Nat
    BY <1>1 DEF Concurrency
  <1>3. Concurrency * mode.multiplier \in Int
    BY <1>1, <1>2
  <1> DEFINE k == IF Parallel THEN Concurrency ELSE 1
  <1>4. k \in Nat /\ 1..k \subseteq Int
    BY <1>2
  <1> QED BY <1>2, <1>3, <1>4 DEF WindowSizes

\* A window takes batches that nothing was asked for.
LEMMA OpenWindowBudget ==
  ASSUME DocumentInv, DocumentInv', BudgetInv, UNCHANGED <<mode, stage>>, OpenWindow
  PROVE  BudgetInv'
PROOF
  <1>1. /\ stage \in {"translation", "review"} /\ ~ window.open /\ status = "running"
        /\ Unanswered # {}
        /\ UNCHANGED <<mode, stage, stack, ret, asked, status>>
    BY DEF OpenWindow, BetweenWindows, accounting
  <1>2. ~ InCall /\ ~ InCall'
    BY <1>1, Quiet DEF InCall
  <1>3. TypeInv /\ AnswersInv /\ WindowInv /\ Untouched /\ Ahead /\ AskedType
    BY <1>1 DEF DocumentInv, BudgetInv
  <1>4. PICK n \in WindowSizes, cached \in SUBSET BatchNo :
          LET batches == {b \in BatchNo : NextBatch <= b /\ b < NextBatch + n}
              called  == {b \in batches \ cached : ~ Parallel \/ Lines[b] > RequestLines}
          IN  /\ Parallel \/ cached = {}
              /\ cached \subseteq batches
              /\ window' = [open    |-> TRUE,
                            calls   |-> called,
                            pending |-> (batches \ cached) \ called,
                            sent    |-> FALSE,
                            replies |-> NoReplies,
                            names   |-> IF stage = "translation" /\ mode.align # "none"
                                        THEN batches ELSE {},
                            again   |-> FALSE]
              /\ answers' = [answers EXCEPT ![stage] =
                               [b \in BatchNo |-> IF b \in cached THEN AllLines(b) ELSE @[b]]]
    <2> DEFINE opened(batches, cached) ==
          LET called == {b \in batches \ cached : ~ Parallel \/ Lines[b] > RequestLines}
          IN  /\ window' = [open    |-> TRUE,
                            calls   |-> called,
                            pending |-> (batches \ cached) \ called,
                            sent    |-> FALSE,
                            replies |-> NoReplies,
                            names   |-> IF stage = "translation" /\ mode.align # "none"
                                        THEN batches ELSE {},
                            again   |-> FALSE]
              /\ answers' = [answers EXCEPT ![stage] =
                               [b \in BatchNo |-> IF b \in cached THEN AllLines(b) ELSE @[b]]]
    <2>1. PICK batches \in Windows :
            \E cached \in {c \in SUBSET batches : Parallel \/ c = {}} : opened(batches, cached)
      BY DEF OpenWindow
    <2>2. PICK cached \in SUBSET batches : (Parallel \/ cached = {}) /\ opened(batches, cached)
      BY <2>1
    <2>3. PICK n \in WindowSizes : batches = {b \in BatchNo : NextBatch <= b /\ b < NextBatch + n}
      BY <2>1 DEF Windows
    <2>4. cached \in SUBSET BatchNo
      BY <2>2, <2>3
    <2> QED BY <2>2, <2>3, <2>4
  <1> DEFINE batches == {b \in BatchNo : NextBatch <= b /\ b < NextBatch + n}
             called  == {b \in batches \ cached : ~ Parallel \/ Lines[b] > RequestLines}
  <1>5. /\ window'.open /\ window'.calls = called /\ window'.pending = (batches \ cached) \ called
        /\ ~ window'.sent /\ ~ window'.again
        /\ window'.names = IF stage = "translation" /\ mode.align # "none" THEN batches ELSE {}
        /\ Waiting' = batches \ cached
    BY <1>4 DEF Waiting
  <1>6. /\ stage \in Stages /\ BatchNo = Batches(stage) /\ BatchNo \subseteq Nat /\ n \in Int
        /\ stage \notin Later /\ Later \subseteq Stages
    BY <1>3, ModeFacts, SizesAreInt DEF TypeInv, Later, Stages
  <1>7. /\ BatchNo' = BatchNo /\ Later' = Later /\ (\A s : Batches(s)' = Batches(s))
        /\ Together' = Together /\ (\A b : Alone(b)' = Alone(b)) /\ Parallel' = Parallel
    BY <1>1, SameMode, SameStage
  <1>8. /\ \A b \in BatchNo : answer'[b] = IF b \in cached THEN AllLines(b) ELSE answer[b]
        /\ \A s \in Stages : s # stage => answers'[s] = answers[s]
    BY <1>1, <1>3, <1>4, <1>6 DEF AnswersInv, answer
  <1>9. NextBatch \in Unanswered /\ \A b \in Unanswered : NextBatch <= b
    <2>1. Unanswered \in SUBSET Nat
      BY <1>6 DEF Unanswered
    <2> QED BY <1>1, <2>1, FirstIn DEF NextBatch
  <1>10. NextBatch \in BatchNo /\ answer[NextBatch] = << >>
    BY <1>9 DEF Unanswered
  <1>11. \A c \in BatchNo : NextBatch <= c => answer[c] = << >> /\ asked[stage][c] = 0
    BY <1>1, <1>2, <1>10, NextUntouched
  <1>12. WindowPaid'
    <2>1. /\ window'.names # {} => stage = "translation" /\ mode.align # "none"
          /\ window'.pending # {} => Parallel
          /\ window'.calls \cap window'.pending = {}
      BY <1>4, <1>5
    <2>2. ASSUME NEW b \in BatchNo
          PROVE  /\ b \in window'.calls => asked[stage][b] = 0
                 /\ b \in window'.pending => asked[stage][b] <= IF window'.sent THEN 1 ELSE 0
                 /\ b \in window'.names => asked[stage][b] <= Together + Alone(b)
      <3>1. b \in batches => asked[stage][b] = 0
        BY <1>11
      <3>2. Together \in {0, 1} /\ Alone(b) \in Nat
        BY <1>3, BudgetTypes
      <3>3. b \in window'.calls \/ b \in window'.pending \/ b \in window'.names => b \in batches
        BY <1>5
      <3> HIDE DEF batches, called
      <3>4. asked[stage][b] = 0 => asked[stage][b] <= Together + Alone(b)
        BY <3>2
      <3> QED BY <3>1, <3>3, <3>4
    <2> QED BY <1>1, <1>2, <1>7, <2>1, <2>2 DEF WindowPaid
  <1>13. Untouched'
    <2> SUFFICES ASSUME NEW b \in BatchNo, answer'[b] = << >>, b \notin Waiting',
                        NEW c \in BatchNo, b <= c
                 PROVE  answer'[c] = << >> /\ asked[stage][c] = 0
                        /\ c \notin Waiting' \cup window'.names
      BY <1>1, <1>7 DEF Untouched
    <2>1. b \notin cached
      <3>1. AllLines(b) # << >>
        <4> DEFINE k == Lines[b]
        <4>1. k \in Nat /\ 1 \in Nat /\ 1 <= k /\ 1 <= k + 1
          BY <1>3, ModeFacts
        <4> HIDE DEF k
        <4>2. From(1, k) # << >>
          BY <4>1, FromFacts
        <4> QED BY <4>2 DEF AllLines, k
      <3> QED BY <1>8, <3>1
    <2>2. b \notin batches /\ b \in Unanswered
      BY <1>5, <1>8, <2>1 DEF Unanswered
    <2>3. NextBatch <= b
      BY <1>9, <2>2
    <2>4. NextBatch \in Nat /\ b \in Nat /\ c \in Nat
      BY <1>6, <1>10
    <2>5. NextBatch <= c /\ ~ (c < NextBatch + n)
      BY <1>6, <2>2, <2>3, <2>4
    <2>6. c \notin batches
      BY <2>5
    <2> QED BY <1>4, <1>5, <1>8, <1>11, <2>5, <2>6
  <1>14. Ahead'
    <2>1. \A s \in Later : answers'[s] = answers[s]
      BY <1>6, <1>8
    <2> QED BY <1>1, <1>3, <1>7, <2>1 DEF Ahead
  <1>15. Spent'
    BY <1>2 DEF Spent
  <1> QED BY <1>1, <1>12, <1>13, <1>14, <1>15, StaysBounded DEF BudgetInv

\* A call that has only started stays within what was asked before it.
LEMMA CalledSpent ==
  ASSUME DocumentInv, DocumentInv', AskedType, UNCHANGED <<mode, stage, asked>>,
         ret' = NoValue, NEW b \in BatchNo, Callee' = b,
         stack' # << >>, Head(stack').at = "attempt", Head(stack').lo = 1,
         Head(stack').attempt = 1,
         NEW p \in Nat, Before' = p, asked[stage][b] <= p
  PROVE  Spent'
PROOF
  <1> DEFINE d == Context'
             s == stack'
             w == Whole'
             x == asked[stage][b]
  <1>1. TypeInv /\ Retries \in Nat
    BY ModeFacts DEF DocumentInv
  <1>2. InCall'
    BY DEF InCall
  <1>3. Chain(s, d)
    BY <1>2 DEF DocumentInv, CallInv
  <1>4. d.lines \in Nat
    <2>1. d.lines = Lines[Callee']
      BY <1>1, NextContext
    <2>2. Lines[b] \in Nat
      BY <1>1, ModeFacts
    <2> QED BY <2>1, <2>2
  <1>5. x \in Nat
    BY <1>1, ModeFacts DEF AskedType, TypeInv
  <1> HIDE DEF d, s, w, x
  <1>6. Within(x, s, NoValue, p, w)
    BY <1>1, <1>3, <1>4, <1>5, StartWithin DEF s, x
  <1>7. Retries' = Retries /\ RepairLimit' = RepairLimit
    BY SameMode
  <1> QED BY <1>6, <1>7 DEF Spent, Within, Paid, s, w, x

\* A batch that is called for has asked nothing yet.
LEMMA CallBatchBudget ==
  ASSUME DocumentInv, DocumentInv', BudgetInv, UNCHANGED <<mode, stage>>, CallBatch
  PROVE  BudgetInv'
PROOF
  <1> DEFINE b == First(window.calls)
  <1>1. /\ status = "running" /\ ret = NoValue /\ ret' = NoValue /\ stack = << >>
        /\ window.open /\ window.calls # {}
        /\ UNCHANGED <<mode, stage, answers, window, asked, status>>
    BY DEF CallBatch, InWindow, Running, accounting
  <1>2. TypeInv /\ WindowInv /\ WindowPaid /\ AskedType
    BY <1>1 DEF DocumentInv, BudgetInv
  <1>3. window.calls \in SUBSET BatchNo /\ BatchNo \subseteq Nat
    BY <1>2, ModeFacts DEF WindowInv
  <1>4. b \in window.calls /\ b \in BatchNo
    BY <1>1, <1>3, FirstIn
  <1>5. Callee' = b
    BY <1>1 DEF Callee, Caller, First
  <1>6. PICK f, g : /\ stack' = << f >> \/ stack' = << f, g >>
                    /\ f.at = "attempt" /\ f.lo = 1 /\ f.attempt = 1
    <2>1. CASE stack' = << Frame(b, 1, Lines[b], ~ Parallel, "ok") >>
      <3> DEFINE f == Frame(b, 1, Lines[b], ~ Parallel, "ok")
      <3>1. f.at = "attempt" /\ f.lo = 1 /\ f.attempt = 1
        BY DEF Frame
      <3> HIDE DEF b
      <3> QED BY <2>1, <3>1
    <2>2. ASSUME NEW cut \in 1..(Lines[b] - 1), NEW g, stack' = << Frame(b, 1, cut, FALSE, "ok"), g >>
          PROVE  \E f, h : /\ stack' = << f >> \/ stack' = << f, h >>
                           /\ f.at = "attempt" /\ f.lo = 1 /\ f.attempt = 1
      <3> DEFINE f == Frame(b, 1, cut, FALSE, "ok")
      <3>1. f.at = "attempt" /\ f.lo = 1 /\ f.attempt = 1
        BY DEF Frame
      <3>2. stack' = << f, g >>
        BY <2>2
      <3> HIDE DEF b, f
      <3> QED BY <3>1, <3>2
    <2>3. \/ stack' = << Frame(b, 1, Lines[b], ~ Parallel, "ok") >>
          \/ \E cut \in 1..(Lines[b] - 1) : \E g : stack' = << Frame(b, 1, cut, FALSE, "ok"), g >>
      BY DEF CallBatch
    <2> QED BY <2>1, <2>2, <2>3
  <1>7. stack' # << >> /\ Head(stack') = f
    BY <1>6
  <1>8. InCall' /\ ~ InCall
    BY <1>1, <1>7 DEF InCall
  <1>9. asked[stage][b] = 0
    BY <1>1, <1>2, <1>4, <1>8 DEF WindowPaid, Busy
  <1> HIDE DEF b
  <1>10. Before' = Together /\ Together \in Nat /\ asked[stage][b] <= Together
    <2>1. Before' = Together'
      BY <1>1 DEF Before
    <2>2. Together' = Together /\ Together \in {0, 1}
      BY <1>1, <1>2, <1>4, SameMode, BudgetTypes
    <2> QED BY <1>9, <2>1, <2>2
  <1>11. Spent'
    <2> DEFINE p == Together
    <2>1. p \in Nat /\ Before' = p /\ asked[stage][b] <= p
      BY <1>10
    <2> HIDE DEF p
    <2> QED BY <1>1, <1>2, <1>4, <1>5, <1>6, <1>7, <2>1, CalledSpent
  <1>12. Waiting # {}
    BY <1>1 DEF Waiting
  <1> QED BY <1>1, <1>8, <1>11, <1>12, StartBudget DEF SameWindow

\* A run that ends between two windows has asked nothing more.
LEMMA OpenWindowFailsBudget ==
  ASSUME BudgetInv, UNCHANGED <<mode, stage>>, OpenWindowFails
  PROVE  BudgetInv'
PROOF
  <1>1. status' # "running" /\ UNCHANGED asked
    BY DEF OpenWindowFails, accounting
  <1> QED BY <1>1, StopsBudget

\* A window that is closed accounts for nothing more.
LEMMA CloseWindowBudget ==
  ASSUME DocumentInv, BudgetInv, UNCHANGED <<mode, stage>>, CloseWindow
  PROVE  BudgetInv'
PROOF
  <1>1. /\ status = "running" /\ ret = NoValue /\ stack = << >>
        /\ window.calls = {} /\ window.pending = {} /\ window.names = {}
        /\ UNCHANGED <<mode, stage, answers, stack, ret, asked>>
        /\ status' # "running" \/ (window' = NoWindow /\ UNCHANGED status)
    BY DEF CloseWindow, AllAnswered, InWindow, Running, SendNothing
  <1>2. CASE window' = NoWindow /\ UNCHANGED status
    <2>1. ~ InCall /\ ~ InCall'
      BY <1>1 DEF InCall
    <2>2. Waiting' = Waiting /\ window'.names = {} /\ WindowPaid'
      BY <1>1, <1>2 DEF Waiting, WindowPaid, NoWindow
    <2> QED BY <1>1, <1>2, <2>1, <2>2, QuietBudget
  <1> QED BY <1>1, <1>2, StopsBudget

\* The batches of a window are requested together once, before anything else
\* is asked for them.
LEMMA SendWindowBudget ==
  ASSUME DocumentInv, BudgetInv, UNCHANGED <<mode, stage>>, SendWindow
  PROVE  BudgetInv'
PROOF
  <1>1. /\ status = "running" /\ ret = NoValue /\ stack = << >> /\ window.open
        /\ window.calls = {} /\ window.pending # {} /\ ~ window.sent
        /\ UNCHANGED <<mode, stage, answers, stack, ret>>
    BY DEF SendWindow, InWindow, Running
  <1>2. /\ TypeInv /\ WindowInv /\ WindowPaid /\ Untouched /\ Ahead /\ AskedType
        /\ RequestsBounded
    BY <1>1 DEF DocumentInv, BudgetInv
  <1>3. stage \in {"translation", "review"} /\ window.pending \in SUBSET BatchNo
    BY <1>1, <1>2 DEF WindowInv
  <1>4. /\ stage \in Stages /\ BatchNo = Batches(stage) /\ stage \notin Later
    BY <1>2, ModeFacts DEF TypeInv, Later
  <1>5. ~ InCall /\ ~ InCall' /\ \A b : ~ Busy(b)
    BY <1>1 DEF InCall, Busy
  <1>6. \A b \in window.pending : asked[stage][b] = 0
    <2>1. ASSUME NEW b \in window.pending PROVE asked[stage][b] = 0
      <3>1. asked[stage][b] <= 0
        BY <1>1, <1>2, <1>3, <1>5 DEF WindowPaid
      <3>2. asked[stage][b] \in Nat
        BY <1>2, <1>3, <1>4 DEF AskedType
      <3> QED BY <3>1, <3>2
    <2> QED BY <2>1
  <1>7. /\ BatchNo' = BatchNo /\ Later' = Later /\ Lines' = Lines
        /\ Together' = Together /\ Parallel' = Parallel
        /\ (\A s : Batches(s)' = Batches(s)) /\ (\A b : Alone(b)' = Alone(b))
        /\ (\A s, n : Cost(s, n)' = Cost(s, n))
    BY <1>1, SameMode, SameStage
  <1>8. CASE UNCHANGED asked /\ status' = "failed"
    BY <1>1, <1>8, StopsBudget
  <1>9. CASE asked' = [asked EXCEPT ![stage] = [b \in BatchNo |->
                         IF b \in window.pending THEN @[b] + 1 ELSE @[b]]]
    <2>1. DOMAIN asked' = Stages
      BY <1>2, <1>9 DEF AskedType
    <2>2. /\ \A b \in BatchNo : asked'[stage][b] = IF b \in window.pending THEN 1
                                                   ELSE asked[stage][b]
          /\ asked'[stage] \in [BatchNo -> Nat]
      <3>1. asked'[stage] = [b \in BatchNo |-> IF b \in window.pending THEN asked[stage][b] + 1
                                               ELSE asked[stage][b]]
        BY <1>2, <1>4, <1>9 DEF AskedType
      <3>2. asked[stage] \in [BatchNo -> Nat]
        BY <1>2, <1>4 DEF AskedType
      <3> QED BY <1>6, <3>1, <3>2
    <2>3. \A s \in Stages : s # stage => asked'[s] = asked[s]
      BY <1>2, <1>4, <1>9 DEF AskedType
    <2>4. AskedType'
      <3>1. \A s \in Stages : asked'[s] \in [Batches(s) -> Nat]
        BY <1>2, <1>4, <2>2, <2>3 DEF AskedType
      <3> QED BY <1>7, <2>1, <3>1 DEF AskedType
    <2>5. RequestsBounded'
      <3>1. ASSUME NEW s \in Stages, NEW b \in Batches(s)
            PROVE  asked'[s][b] <= Cost(s, mode.batches[s][b])
        <4>1. asked[s][b] <= Cost(s, mode.batches[s][b])
          BY <1>2 DEF AskedType, RequestsBounded
        <4>2. CASE s = stage /\ b \in window.pending
          <5>1. 1 <= Cost(stage, Lines[b])
            BY <1>1, <1>2, <1>3, <1>4, <4>2, CostType DEF WindowPaid
          <5> QED BY <1>4, <2>2, <4>2, <5>1 DEF Lines
        <4>3. CASE ~ (s = stage /\ b \in window.pending)
          BY <1>4, <2>2, <2>3, <4>1, <4>3
        <4> QED BY <4>2, <4>3
      <3>2. \A s \in Stages : DOMAIN asked'[s] = Batches(s)
        BY <1>7, <2>4 DEF AskedType
      <3> QED BY <1>1, <1>7, <3>1, <3>2 DEF RequestsBounded
    <2>6. CASE status' # "running"
      BY <2>4, <2>5, <2>6 DEF BudgetInv
    <2>7. CASE status' = "running"
      <3>1. PICK replies : window' = [window EXCEPT !.sent = TRUE, !.replies = replies]
        BY <1>1, <2>7 DEF SendWindow
      <3>2. /\ window'.open /\ window'.calls = {} /\ window'.pending = window.pending
            /\ window'.sent /\ window'.names = window.names /\ window'.again = window.again
            /\ Waiting' = Waiting
        BY <1>1, <1>2, <3>1 DEF WindowInv, Waiting
      <3>3. WindowPaid'
        <4>1. ASSUME NEW b \in BatchNo
              PROVE  /\ b \in window.pending => asked'[stage][b] <= 1
                     /\ b \in window.names \ Waiting /\ ~ (window.again /\ b = First(window.names)) =>
                          asked'[stage][b] <= Together + Alone(b)
          <5>1. b \notin Waiting => asked'[stage][b] = asked[stage][b]
            BY <2>2 DEF Waiting
          <5>2. b \in window.pending => asked'[stage][b] = 1
            BY <2>2
          <5> QED BY <1>2, <1>5, <5>1, <5>2 DEF WindowPaid
        <4> QED BY <1>1, <1>2, <1>5, <1>7, <3>2, <4>1 DEF WindowPaid, First
      <3>4. Untouched'
        <4> SUFFICES ASSUME NEW b \in BatchNo, answer[b] = << >>, b \notin Waiting,
                            NEW c \in BatchNo, b <= c
                     PROVE  answer[c] = << >> /\ asked'[stage][c] = 0
                            /\ c \notin Waiting \cup window.names
          BY <1>1, <1>7, <3>2 DEF Untouched, answer
        <4>1. answer[c] = << >> /\ asked[stage][c] = 0 /\ c \notin Waiting \cup window.names
          BY <1>2, <1>5 DEF Untouched
        <4>2. c \notin window.pending
          BY <4>1 DEF Waiting
        <4> QED BY <2>2, <4>1, <4>2
      <3>5. Ahead'
        <4>1. \A s \in Later : asked'[s] = asked[s]
          BY <1>4, <2>3 DEF Later, Stages
        <4> QED BY <1>1, <1>2, <1>7, <4>1 DEF Ahead
      <3>6. Spent'
        BY <1>5 DEF Spent
      <3> QED BY <2>4, <2>5, <3>3, <3>4, <3>5, <3>6 DEF BudgetInv
    <2> QED BY <2>6, <2>7
  <1> QED BY <1>1, <1>8, <1>9 DEF SendWindow

\* A whole batch is called for: the window counts on what was asked before.
LEMMA WindowCallBudget ==
  ASSUME DocumentInv, DocumentInv', BudgetInv, status = "running", stack = << >>,
         ret = NoValue, ret' = NoValue, window.open,
         UNCHANGED <<mode, stage, answers, asked, status>>, SameWindow,
         Waiting = {} => window'.again /\ window.names # {},
         NEW b \in BatchNo, Callee' = b, NEW f, stack' = << f >>,
         f.at = "attempt", f.lo = 1, f.attempt = 1,
         NEW p \in Nat, Before' = p, asked[stage][b] <= p
  PROVE  BudgetInv'
PROOF
  <1>1. AskedType
    BY DEF BudgetInv
  <1>2. stack' # << >> /\ Head(stack') = f
    OBVIOUS
  <1>3. Spent'
    BY <1>1, <1>2, CalledSpent
  <1>4. ~ InCall /\ InCall'
    BY <1>2 DEF InCall
  <1> QED BY <1>3, <1>4, StartBudget

\* A response of the window is taken, or its batch called for: the window has
\* asked once for it.
LEMMA TakeResponseBudget ==
  ASSUME DocumentInv, DocumentInv', BudgetInv, UNCHANGED <<mode, stage>>, TakeResponse
  PROVE  BudgetInv'
PROOF
  <1> DEFINE b == First(window.pending)
  <1>1. /\ status = "running" /\ ret = NoValue /\ stack = << >> /\ window.open
        /\ window.pending # {} /\ window.sent
        /\ UNCHANGED <<mode, stage, ret, asked>>
    BY DEF TakeResponse, InWindow, Running
  <1>2. TypeInv /\ WindowInv /\ WindowPaid
    BY <1>1 DEF DocumentInv, BudgetInv
  <1>3. /\ window \in [open : BOOLEAN, calls : SUBSET BatchNo, pending : SUBSET BatchNo,
                       sent : BOOLEAN, replies : Replies, names : SUBSET BatchNo, again : BOOLEAN]
        /\ window.calls = {} /\ BatchNo \subseteq Nat
    BY <1>1, <1>2, ModeFacts DEF WindowInv
  <1>4. b \in window.pending /\ b \in BatchNo
    <2>1. window.pending \in SUBSET Nat
      BY <1>3
    <2> QED BY <1>1, <1>3, <2>1, FirstIn
  <1>5. ~ InCall /\ \A c : ~ Busy(c)
    BY <1>1 DEF InCall, Busy
  <1>6. Together = 1 /\ Together' = 1 /\ Alone(b) \in Nat
    BY <1>1, <1>2, <1>4, BudgetTypes, SameMode DEF WindowPaid, Together
  <1>7. asked[stage][b] <= 1 /\ asked[stage][b] <= Together + Alone(b)
    <2>1. asked[stage][b] <= 1
      BY <1>1, <1>2, <1>4, <1>5 DEF WindowPaid
    <2>2. asked[stage][b] \in Nat
      BY <1>1, <1>2, <1>4, ModeFacts DEF AskedType, BudgetInv, TypeInv
    <2> QED BY <1>6, <2>1, <2>2
  <1>8. PICK e \in Outcome \ {"cancelled"} :
          \/ /\ e = "ok" /\ Answer(b, AllLines(b)) /\ DropPending
             /\ UNCHANGED <<stack, status>>
          \/ /\ stack' = << Frame(b, 1, Lines[b], TRUE, IF e = "limited" THEN "ok" ELSE e) >>
             /\ UNCHANGED <<answers, window, status>>
          \/ status' = "failed"
    BY DEF TakeResponse, Outcome, IsRepairable
  <1>9. CASE e = "ok" /\ Answer(b, AllLines(b)) /\ DropPending /\ UNCHANGED <<stack, status>>
    <2> DEFINE lines == AllLines(b)
               pending == window.pending \ {b}
    <2>1. window' = [window EXCEPT !.pending = pending]
      BY <1>9 DEF DropPending
    <2> HIDE DEF pending
    <2>2. /\ window'.open /\ window'.calls = {} /\ window'.pending = pending
          /\ window'.sent /\ window'.names = window.names /\ window'.again = window.again
      BY <1>1, <1>3, <2>1
    <2>3. /\ window'.calls \subseteq window.calls /\ window'.pending \subseteq window.pending
          /\ window'.names \subseteq window.names /\ Waiting \subseteq Waiting' \cup {b}
      BY <1>3, <2>2 DEF Waiting, pending
    <2>4. lines # << >> /\ Answer(b, lines)
      <3> DEFINE n == Lines[b]
      <3>1. n \in Nat /\ 1 \in Nat /\ 1 <= n /\ 1 <= n + 1
        BY <1>2, <1>4, ModeFacts
      <3>2. From(1, n) # << >>
        <4> HIDE DEF n
        <4> QED BY <3>1, FromFacts
      <3> QED BY <1>9, <3>2 DEF AllLines
    <2>5. BatchNo' = BatchNo /\ (\A c : Alone(c)' = Alone(c)) /\ Parallel' = Parallel
      BY <1>1, SameMode, SameStage
    <2>6. ~ InCall'
      BY <1>1, <1>9 DEF InCall
    <2>7. WindowPaid'
      <3>1. ASSUME NEW c \in BatchNo
            PROVE  /\ c \in window'.pending => asked[stage][c] <= 1
                   /\ c \in window'.names \ Waiting' /\ ~ (window'.again /\ c = First(window'.names)) =>
                        asked[stage][c] <= Together + Alone(c)
        <4> HIDE DEF b
        <4> QED BY <1>1, <1>2, <1>5, <1>7, <2>2, <2>3, <3>1 DEF WindowPaid
      <3> QED BY <1>1, <1>2, <1>6, <2>2, <2>3, <2>5, <2>6, <3>1 DEF WindowPaid, First
    <2>8. b \in Waiting
      BY <1>4 DEF Waiting
    <2> HIDE DEF b, lines
    <2> QED BY <1>1, <1>4, <1>5, <1>9, <2>3, <2>4, <2>6, <2>7, <2>8, AnswerBudget
  <1>10. CASE /\ stack' = << Frame(b, 1, Lines[b], TRUE, IF e = "limited" THEN "ok" ELSE e) >>
              /\ UNCHANGED <<answers, window, status>>
    <2> DEFINE f == Frame(b, 1, Lines[b], TRUE, IF e = "limited" THEN "ok" ELSE e)
               p == 1
    <2>1. f.at = "attempt" /\ f.lo = 1 /\ f.attempt = 1
      BY DEF Frame
    <2>2. stack' = << f >>
      BY <1>10
    <2>3. Callee' = b
      BY <1>1, <1>3, <1>10 DEF Callee, Caller, First
    <2>4. p \in Nat /\ Before' = p /\ asked[stage][b] <= p
      BY <1>1, <1>6, <1>7, <1>10 DEF Before
    <2>5. SameWindow /\ Waiting # {}
      BY <1>1, <1>10 DEF SameWindow, Waiting
    <2> HIDE DEF b, f, p
    <2> QED BY <1>1, <1>4, <1>10, <2>1, <2>2, <2>3, <2>4, <2>5, WindowCallBudget
  <1>11. CASE status' = "failed"
    BY <1>1, <1>11, StopsBudget
  <1> QED BY <1>8, <1>9, <1>10, <1>11

\* The names of a batch are aligned, or it is called once more, on top of its
\* first call.
LEMMA ReconcileNamesBudget ==
  ASSUME DocumentInv, DocumentInv', BudgetInv, UNCHANGED <<mode, stage>>, ReconcileNames
  PROVE  BudgetInv'
PROOF
  <1> DEFINE b == First(window.names)
             names == window.names \ {b}
  <1>1. /\ status = "running" /\ ret = NoValue /\ ret' = NoValue /\ stack = << >>
        /\ window.open /\ window.calls = {} /\ window.pending = {} /\ window.names # {}
        /\ UNCHANGED <<mode, stage, answers, asked>>
    BY DEF ReconcileNames, AllAnswered, InWindow, Running, accounting
  <1>2. TypeInv /\ WindowInv /\ WindowPaid
    BY <1>1 DEF DocumentInv, BudgetInv
  <1>3. /\ window \in [open : BOOLEAN, calls : SUBSET BatchNo, pending : SUBSET BatchNo,
                       sent : BOOLEAN, replies : Replies, names : SUBSET BatchNo, again : BOOLEAN]
        /\ BatchNo \subseteq Nat
    BY <1>2, ModeFacts DEF WindowInv
  <1>4. b \in window.names /\ b \in BatchNo
    <2>1. window.names \in SUBSET Nat
      BY <1>3
    <2> QED BY <1>1, <1>3, <2>1, FirstIn
  <1>5. ~ InCall /\ (\A c : ~ Busy(c)) /\ Waiting = {}
    BY <1>1 DEF InCall, Busy, Waiting
  <1>6. \/ window' = [window EXCEPT !.names = names, !.again = FALSE] /\ UNCHANGED <<stack, status>>
        \/ /\ ~ window.again /\ window' = [window EXCEPT !.again = TRUE]
           /\ stack' = << Frame(b, 1, Lines[b], TRUE, "invalid") >> /\ UNCHANGED status
        \/ status' = "failed"
    BY DEF ReconcileNames
  <1>7. /\ Together' = Together /\ BatchNo' = BatchNo /\ (\A c : Alone(c)' = Alone(c))
        /\ Parallel' = Parallel
    BY <1>1, SameMode, SameStage
  <1>8. CASE window' = [window EXCEPT !.names = names, !.again = FALSE] /\ UNCHANGED <<stack, status>>
    <2>1. window'.open /\ window'.calls = {} /\ window'.pending = {} /\ ~ window'.again
          /\ window'.names = names
      <3> HIDE DEF names
      <3> QED BY <1>1, <1>3, <1>8
    <2>2. ~ InCall' /\ Waiting' = Waiting /\ window'.names \subseteq window.names
      BY <1>1, <1>5, <1>8, <2>1 DEF InCall, Waiting
    <2>3. \A c \in names : c # b /\ c \in window.names
      OBVIOUS
    <2> HIDE DEF names
    <2>4. \A c \in BatchNo : c \in names => asked[stage][c] <= Together + Alone(c)
      BY <1>2, <1>5, <2>3 DEF WindowPaid
    <2>5. WindowPaid'
      BY <1>1, <1>2, <1>7, <2>1, <2>2, <2>3, <2>4 DEF WindowPaid
    <2> HIDE DEF b
    <2> QED BY <1>1, <1>5, <1>8, <2>2, <2>5, QuietBudget
  <1>9. CASE /\ ~ window.again /\ window' = [window EXCEPT !.again = TRUE]
             /\ stack' = << Frame(b, 1, Lines[b], TRUE, "invalid") >> /\ UNCHANGED status
    <2> DEFINE f == Frame(b, 1, Lines[b], TRUE, "invalid")
               p == Together + Alone(b)
    <2>1. f.at = "attempt" /\ f.lo = 1 /\ f.attempt = 1
      BY DEF Frame
    <2>2. stack' = << f >>
      BY <1>9
    <2>3. SameWindow /\ window'.again
      BY <1>1, <1>3, <1>9 DEF SameWindow
    <2>4. Callee' = b
      BY <1>1, <2>3 DEF Callee, Caller, First, SameWindow
    <2>5. p \in Nat
      BY <1>2, <1>4, BudgetTypes
    <2>6. Before' = p
      BY <1>1, <1>7, <2>3, <2>4 DEF Before, SameWindow
    <2>7. asked[stage][b] <= p
      BY <1>2, <1>4, <1>5, <1>9 DEF WindowPaid
    <2> HIDE DEF b, f, p
    <2> QED BY <1>1, <1>4, <1>9, <2>1, <2>2, <2>3, <2>4, <2>5, <2>6, <2>7, WindowCallBudget
  <1>10. CASE status' = "failed"
    BY <1>1, <1>10, StopsBudget
  <1> QED BY <1>6, <1>8, <1>9, <1>10

\* A call of the window returns: what it asked is what its batch has paid.
LEMMA CallReturnsBudget ==
  ASSUME DocumentInv, BudgetInv, UNCHANGED <<mode, stage>>, CallReturns
  PROVE  BudgetInv'
PROOF
  <1> DEFINE b == Callee
             lines == ret.lines
  <1>1. /\ status = "running" /\ ret # NoValue /\ stack = << >> /\ window.open
        /\ ret' = NoValue /\ stack' = << >>
        /\ UNCHANGED <<mode, stage, asked>>
    BY DEF CallReturns, accounting
  <1>2. TypeInv /\ WindowInv /\ WindowPaid /\ Spent
    BY <1>1 DEF DocumentInv, BudgetInv
  <1>3. /\ window \in [open : BOOLEAN, calls : SUBSET BatchNo, pending : SUBSET BatchNo,
                       sent : BOOLEAN, replies : Replies, names : SUBSET BatchNo, again : BOOLEAN]
        /\ BatchNo \subseteq Nat
    BY <1>2, ModeFacts DEF WindowInv
  <1>4. InCall /\ ~ InCall'
    BY <1>1 DEF InCall
  <1>5. /\ b \in BatchNo /\ b = Caller /\ ret.kind \in Error \cup {"ok"}
        /\ ret.kind = "ok" => lines = From(1, Lines[b])
    BY <1>1, EndedCall DEF Callee
  <1>6. asked[stage][b] <= Before + Whole
    BY <1>1, <1>2, <1>4 DEF Spent, Within
  <1>7. CASE ret.kind # "ok"
    <2>1. status' # "running"
      BY <1>7 DEF CallReturns
    <2> QED BY <1>1, <2>1, StopsBudget
  <1>8. CASE ret.kind = "ok"
    <2>1. Answer(b, lines) /\ UNCHANGED status
      BY <1>5, <1>8 DEF CallReturns
    <2>2. lines # << >>
      <3> DEFINE n == Lines[b]
      <3>1. n \in Nat /\ 1 \in Nat /\ 1 <= n /\ 1 <= n + 1
        BY <1>2, <1>5, ModeFacts
      <3>2. From(1, n) # << >>
        <4> HIDE DEF n
        <4> QED BY <3>1, FromFacts
      <3> QED BY <1>5, <1>8, <3>2
    <2>3. /\ window'.open /\ window'.names = window.names /\ window'.again = window.again
          /\ window'.sent = window.sent
          /\ window'.calls = window.calls \ (IF window.calls # {} THEN {b} ELSE {})
          /\ window'.pending = window.pending
                                 \ (IF window.calls = {} /\ window.pending # {} THEN {b} ELSE {})
      <3> DEFINE calls   == window.calls \ {b}
                 pending == window.pending \ {b}
      <3>1. CASE window.calls # {}
        <4>1. b = First(window.calls)
          BY <1>5, <3>1 DEF Caller
        <4>2. window' = [window EXCEPT !.calls = calls]
          BY <1>8, <3>1, <4>1 DEF CallReturns
        <4> HIDE DEF calls, b
        <4>3. window'.calls = calls /\ window'.open /\ window'.names = window.names
              /\ window'.again = window.again /\ window'.sent = window.sent
              /\ window'.pending = window.pending
          BY <1>1, <1>3, <4>2
        <4> QED BY <3>1, <4>3 DEF calls
      <3>2. CASE window.calls = {} /\ window.pending # {}
        <4>1. b = First(window.pending)
          BY <1>5, <3>2 DEF Caller
        <4>2. window' = [window EXCEPT !.pending = pending]
          BY <1>8, <3>2, <4>1 DEF CallReturns, DropPending
        <4> HIDE DEF pending, b
        <4>3. window'.pending = pending /\ window'.open /\ window'.names = window.names
              /\ window'.again = window.again /\ window'.sent = window.sent
              /\ window'.calls = window.calls
          BY <1>1, <1>3, <4>2
        <4> QED BY <3>2, <4>3 DEF pending
      <3>3. CASE window.calls = {} /\ window.pending = {}
        BY <1>1, <1>8, <3>3 DEF CallReturns
      <3> QED BY <3>1, <3>2, <3>3
    <2>4. /\ window.calls # {} => b \in window.calls
          /\ window.calls = {} /\ window.pending # {} => b \in window.pending
          /\ Waiting = {} => b = First(window.names) /\ b \in window.names /\ window.again
      <3>1. /\ window.calls \in SUBSET Nat /\ window.pending \in SUBSET Nat
            /\ window.names \in SUBSET Nat
        BY <1>3
      <3>2. Waiting = {} => window.again /\ window.names # {}
        BY <1>1, <1>2, <1>4 DEF WindowPaid
      <3> QED BY <1>5, <3>1, <3>2, FirstIn DEF Caller, Waiting
    <2>5. /\ window'.calls \subseteq window.calls /\ window'.pending \subseteq window.pending
          /\ window'.names \subseteq window.names /\ Waiting \subseteq Waiting' \cup {b}
          /\ b \in Waiting \cup window.names
          /\ b \notin window'.calls /\ b \notin window'.pending
      <3> HIDE DEF b
      <3> QED BY <1>2, <2>3, <2>4 DEF Waiting, WindowPaid
    <2>6. b \in window.names \ Waiting' /\ ~ (window.again /\ b = First(window.names)) =>
            asked[stage][b] <= Together + Alone(b)
      <3>1. Waiting # {} => Before = Together /\ Whole = Alone(b)
        BY <1>1 DEF Before, Whole, Waiting
      <3> QED BY <1>6, <2>4, <3>1
    <2>7. /\ Together' = Together /\ BatchNo' = BatchNo /\ (\A c : Alone(c)' = Alone(c))
          /\ Parallel' = Parallel
      BY <1>1, SameMode, SameStage
    <2>8. \A c : Busy(c) => c = b
      BY DEF Busy
    <2> HIDE DEF b
    <2>9. WindowPaid'
      <3>1. ASSUME NEW c \in BatchNo
            PROVE  /\ c \in window'.calls => asked[stage][c] = 0
                   /\ c \in window'.pending => asked[stage][c] <= IF window.sent THEN 1 ELSE 0
                   /\ c \in window.names \ Waiting' /\ ~ (window.again /\ c = First(window.names)) =>
                        asked[stage][c] <= Together + Alone(c)
        <4>1. CASE c = b
          BY <2>5, <2>6, <4>1
        <4>2. CASE c # b
          BY <1>2, <2>5, <2>8, <4>2 DEF WindowPaid
        <4> QED BY <4>1, <4>2
      <3> QED BY <1>1, <1>2, <1>4, <2>3, <2>5, <2>7, <3>1 DEF WindowPaid, First
    <2>10. InCall => Callee = b
      BY DEF b
    <2> HIDE DEF lines
    <2> QED BY <1>1, <1>4, <1>5, <2>1, <2>2, <2>5, <2>9, <2>10, AnswerBudget
  <1> QED BY <1>7, <1>8

-----------------------------------------------------------------------------
(* The budget between the stages *)

\* A stage that asks without a window calls for its next batch, which nothing
\* was asked for yet.
LEMMA StageCallBudget ==
  ASSUME DocumentInv, DocumentInv', BudgetInv, Idle,
         UNCHANGED <<mode, stage, answers, window, asked, status>>,
         NEW b \in BatchNo, answer[b] = << >>, Callee' = b,
         \/ stack' = << >> /\ ret' # NoValue
         \/ /\ stack' # << >> /\ ret' = NoValue /\ Head(stack').attempt = 1
            /\ \/ Head(stack').at \in {"correction", "terminology"}
               \/ Head(stack').at = "repair" /\ stage = "validation"
  PROVE  BudgetInv'
PROOF
  <1>1. status = "running" /\ ~ window.open /\ ~ window'.open /\ ~ InCall /\ InCall'
    BY DEF Idle, Running, InCall
  <1>2. asked[stage][b] = 0
    <2>1. TypeInv
      BY DEF DocumentInv
    <2>2. b \in Nat
      BY <2>1, ModeFacts
    <2>3. b <= b
      BY <2>2
    <2> QED BY <1>1, <2>3, NextUntouched
  <1>3. TypeInv /\ Retries \in Nat /\ RepairLimit \in Nat
    BY ModeFacts DEF DocumentInv
  <1>4. Retries' = Retries /\ RepairLimit' = RepairLimit /\ Before' = 0
    BY <1>1, SameMode DEF Before
  <1>5. Whole' \in Nat /\ (stage = "validation" => Whole' = RepairLimit)
    BY <1>1, <1>3, <1>4 DEF Whole
  <1>6. Within(0, stack, ret, 0, Whole)'
    <2>1. CASE stack' = << >> /\ ret' # NoValue
      <3> DEFINE w == Whole'
      <3>1. w \in Nat
        BY <1>5
      <3> HIDE DEF w
      <3>2. 0 <= 0 + w
        BY <3>1
      <3> QED BY <2>1, <3>2 DEF Within, NoValue, w
    <2>2. CASE /\ stack' # << >> /\ ret' = NoValue /\ Head(stack').attempt = 1
               /\ Head(stack').at \in {"correction", "terminology"}
      BY <1>5, <2>2 DEF Within, NoValue
    <2>3. CASE /\ stack' # << >> /\ ret' = NoValue /\ Head(stack').attempt = 1
               /\ Head(stack').at = "repair" /\ stage = "validation"
      BY <1>3, <1>4, <1>5, <2>3 DEF Within, NoValue
    <2> QED BY <2>1, <2>2, <2>3
  <1>7. Spent'
    BY <1>2, <1>4, <1>6 DEF Spent
  <1> QED BY <1>1, <1>7, StartBudget DEF SameWindow

\* Its batch is answered, after all batches before it.
LEMMA StageAnswerBudget ==
  ASSUME DocumentInv, BudgetInv, status = "running", ~ window.open,
         UNCHANGED <<mode, stage, window, asked, status>>, stack' = << >>, ret' = NoValue,
         NEW b \in BatchNo, NEW lines, lines = From(1, Lines[b]), Answer(b, lines),
         InCall => Callee = b, \A c \in BatchNo : c < b => answer[c] # << >>
  PROVE  BudgetInv'
PROOF
  <1>1. TypeInv /\ WindowInv
    BY DEF DocumentInv
  <1>2. window = NoWindow /\ window' = NoWindow
    BY <1>1 DEF WindowInv
  <1>3. ~ InCall'
    BY DEF InCall
  <1>4. Waiting = {} /\ Waiting' = {} /\ WindowPaid'
    BY <1>2 DEF Waiting, WindowPaid, NoWindow
  <1>5. lines # << >>
    <2> DEFINE n == Lines[b]
    <2>1. n \in Nat /\ 1 \in Nat /\ 1 <= n /\ 1 <= n + 1
      BY <1>1, ModeFacts
    <2>2. From(1, n) # << >>
      <3> HIDE DEF n
      <3> QED BY <2>1, FromFacts
    <2> QED BY <2>2
  <1> QED BY <1>3, <1>4, <1>5, AnswerBudget

\* The next batch is the first one without an answer.
LEMMA NextIsFirst ==
  ASSUME TypeInv, Unanswered # {}
  PROVE  /\ NextBatch \in BatchNo /\ answer[NextBatch] = << >>
         /\ \A c \in BatchNo : c < NextBatch => answer[c] # << >>
PROOF
  <1>1. BatchNo \subseteq Nat
    BY ModeFacts
  <1>2. Unanswered \in SUBSET Nat
    BY <1>1 DEF Unanswered
  <1>3. NextBatch \in Unanswered /\ \A c \in Unanswered : NextBatch <= c
    BY <1>2, FirstIn DEF NextBatch
  <1>4. NextBatch \in BatchNo /\ answer[NextBatch] = << >>
    BY <1>3 DEF Unanswered
  <1>5. ASSUME NEW c \in BatchNo, c < NextBatch PROVE answer[c] # << >>
    <2>1. c \in Nat /\ NextBatch \in Nat
      BY <1>1, <1>4
    <2>2. ~ (NextBatch <= c)
      BY <1>5, <2>1
    <2> QED BY <1>3, <2>2 DEF Unanswered
  <1> QED BY <1>4, <1>5

\* Preflight and validation have one batch.
LEMMA OneBatch ==
  ASSUME TypeInv, stage \in {"terminology", "validation"}
  PROVE  /\ 1 \in BatchNo /\ (Unanswered # {} => answer[1] = << >>)
         /\ \A c \in BatchNo : ~ (c < 1)
PROOF
  <1>1. BatchNo = {1}
    BY ModeFacts
  <1> QED BY <1>1 DEF Unanswered

\* A batch of the correction is called for.
LEMMA CorrectBatchBudget ==
  ASSUME DocumentInv, DocumentInv', BudgetInv, UNCHANGED mode, CorrectBatch
  PROVE  BudgetInv'
PROOF
  <1>1. /\ Idle /\ stack = << >> /\ ret = NoValue /\ stage = "correction" /\ Unanswered # {}
        /\ ~ window.open
        /\ UNCHANGED <<mode, stage, answers, window, asked, status>>
        /\ \/ \E e \in {"cancelled", "budget"} : ret' = Err(e) /\ UNCHANGED stack
           \/ Call(NextBatch, "correction") /\ UNCHANGED ret
    BY DEF CorrectBatch, Idle, Running, accounting
  <1>2. TypeInv
    BY DEF DocumentInv
  <1>3. NextBatch \in BatchNo /\ answer[NextBatch] = << >>
    BY <1>1, <1>2, NextIsFirst
  <1>4. NextBatch' = NextBatch
    BY <1>1 DEF NextBatch, Unanswered, BatchNo, Lines, answer, First
  <1>5. Callee' = NextBatch
    BY <1>1, <1>4 DEF Callee
  <1>6. \/ stack' = << >> /\ ret' # NoValue
        \/ /\ stack' # << >> /\ ret' = NoValue /\ Head(stack').attempt = 1
           /\ Head(stack').at = "correction"
    <2>1. CASE \E e \in {"cancelled", "budget"} : ret' = Err(e) /\ UNCHANGED stack
      BY <1>1, <2>1 DEF Err, NoValue
    <2>2. CASE Call(NextBatch, "correction") /\ UNCHANGED ret
      BY <1>1, <2>2 DEF Call, Frame
    <2> QED BY <1>1, <2>1, <2>2
  <1> DEFINE b == NextBatch
  <1>7. b \in BatchNo /\ answer[b] = << >> /\ Callee' = b
    BY <1>3, <1>5
  <1> HIDE DEF b
  <1> QED BY <1>1, <1>6, <1>7, StageCallBudget

\* It is corrected, or the correction or the run ends.
LEMMA CorrectionReturnsBudget ==
  ASSUME DocumentInv, BudgetInv, UNCHANGED mode, CorrectionReturns
  PROVE  BudgetInv'
PROOF
  <1>1. /\ stage = "correction" /\ status = "running" /\ ret # NoValue /\ stack = << >>
        /\ ~ window.open /\ ret' = NoValue /\ stack' = << >>
        /\ UNCHANGED <<mode, window, asked>>
    BY DEF CorrectionReturns, CallReturned, accounting
  <1>2. TypeInv /\ ~ InCall'
    BY <1>1 DEF DocumentInv, InCall
  <1>3. CASE ret.kind = "ok" /\ Answer(NextBatch, ret.lines) /\ UNCHANGED <<stage, status>>
    <2> DEFINE b == NextBatch
               lines == ret.lines
    <2>1. Callee = b
      BY <1>1 DEF Callee
    <2>2. b \in BatchNo /\ lines = From(1, Lines[b]) /\ Answer(b, lines)
          /\ \A c \in BatchNo : c < b => answer[c] # << >>
      BY <1>1, <1>2, <1>3, <2>1, EndedCall, NextIsFirst
    <2> HIDE DEF b, lines
    <2> QED BY <1>1, <1>3, <2>1, <2>2, StageAnswerBudget
  <1>4. CASE status' # "running"
    BY <1>1, <1>4, StopsBudget
  <1>5. CASE stage' = "terminology" /\ UNCHANGED <<answers, status>>
    BY <1>1, <1>2, <1>5, StageBudget DEF Later
  <1>6. \/ ret.kind = "ok" /\ Answer(NextBatch, ret.lines) /\ UNCHANGED <<stage, status>>
        \/ status' # "running"
        \/ stage' = "terminology" /\ UNCHANGED <<answers, status>>
    BY DEF CorrectionReturns, EnterUnlessCancelled, Enter
  <1> QED BY <1>3, <1>4, <1>5, <1>6

\* The one batch of the preflight is cached, or called for.
LEMMA PreflightStartsBudget ==
  ASSUME DocumentInv, DocumentInv', BudgetInv, UNCHANGED mode, PreflightCached \/ Preflight
  PROVE  BudgetInv'
PROOF
  <1>1. /\ Idle /\ stage = "terminology" /\ Unanswered # {} /\ ~ window.open
        /\ status = "running" /\ stack = << >> /\ ret = NoValue /\ ret' = NoValue
        /\ UNCHANGED <<mode, stage, window, asked, status>>
    BY DEF PreflightCached, Preflight, Idle, Running, accounting
  <1>2. 1 \in BatchNo /\ answer[1] = << >> /\ \A c \in BatchNo : ~ (c < 1)
    BY <1>1, OneBatch DEF DocumentInv
  <1>3. CASE PreflightCached
    <2>1. Answer(1, AllLines(1)) /\ stack' = << >> /\ ~ InCall
      BY <1>1, <1>3 DEF PreflightCached, InCall
    <2> QED BY <1>1, <1>2, <2>1, StageAnswerBudget DEF AllLines
  <1>4. CASE Preflight
    <2>1. Call(1, "terminology") /\ UNCHANGED answers
      BY <1>4 DEF Preflight
    <2>2. stack' # << >> /\ Head(stack').attempt = 1 /\ Head(stack').at = "terminology"
      BY <2>1 DEF Call, Frame
    <2>3. Callee' = 1
      BY <1>1 DEF Callee
    <2> QED BY <1>1, <1>2, <2>1, <2>2, <2>3, StageCallBudget
  <1> QED BY <1>3, <1>4

\* The preflight returns, or the run goes on without it, or ends.
LEMMA PreflightReturnsBudget ==
  ASSUME DocumentInv, BudgetInv, UNCHANGED mode, PreflightReturns
  PROVE  BudgetInv'
PROOF
  <1>1. /\ stage = "terminology" /\ status = "running" /\ ret # NoValue /\ stack = << >>
        /\ ~ window.open /\ ret' = NoValue /\ stack' = << >> /\ Callee = 1
        /\ UNCHANGED <<mode, window, asked>>
    BY DEF PreflightReturns, CallReturned, accounting, Callee
  <1>2. 1 \in BatchNo /\ \A c \in BatchNo : ~ (c < 1)
    BY <1>1, OneBatch DEF DocumentInv
  <1>3. ~ InCall'
    BY <1>1 DEF InCall
  <1>4. CASE ret.kind = "ok" /\ Answer(1, ret.lines) /\ UNCHANGED <<stage, status>>
    <2>1. ret.lines = From(1, Lines[1])
      BY <1>1, <1>4, EndedCall
    <2> QED BY <1>1, <1>2, <1>4, <2>1, StageAnswerBudget
  <1>5. CASE status' # "running"
    BY <1>1, <1>5, StopsBudget
  <1>6. CASE stage' = "translation" /\ UNCHANGED <<answers, status>>
    BY <1>1, <1>3, <1>6, StageBudget DEF Later
  <1>7. \/ ret.kind = "ok" /\ Answer(1, ret.lines) /\ UNCHANGED <<stage, status>>
        \/ status' # "running"
        \/ stage' = "translation" /\ UNCHANGED <<answers, status>>
    BY DEF PreflightReturns, Enter
  <1> QED BY <1>4, <1>5, <1>6, <1>7

\* A stage that has all its answers is left, or the run ends.
LEMMA StageEndsBudget ==
  ASSUME DocumentInv, BudgetInv, UNCHANGED mode,
         CorrectionEnds \/ PreflightEnds \/ WindowsEnd \/ ValidationEnds
  PROVE  BudgetInv'
PROOF
  <1>1. /\ status = "running" /\ ~ window.open /\ stack = << >> /\ ret = NoValue
        /\ UNCHANGED <<mode, answers, window, stack, ret, asked>>
    BY DEF CorrectionEnds, PreflightEnds, WindowsEnd, ValidationEnds, Idle, Running, accounting
  <1>2. ~ InCall'
    BY <1>1 DEF InCall
  <1>3. status' # "running" \/ (stage' \in Later /\ UNCHANGED status)
    BY DEF CorrectionEnds, PreflightEnds, WindowsEnd, ValidationEnds, EnterUnlessCancelled,
           Enter, Later
  <1> QED BY <1>1, <1>2, <1>3, StageBudget, StopsBudget

\* The output is valid, or repaired, or the run ends.
LEMMA ValidateBudget ==
  ASSUME DocumentInv, DocumentInv', BudgetInv, UNCHANGED mode, Validate
  PROVE  BudgetInv'
PROOF
  <1>1. /\ Idle /\ stage = "validation" /\ Unanswered # {} /\ ~ window.open
        /\ status = "running" /\ stack = << >> /\ ret = NoValue /\ ret' = NoValue
        /\ UNCHANGED <<mode, stage, window, asked>>
    BY DEF Validate, Idle, Running, accounting
  <1>2. 1 \in BatchNo /\ answer[1] = << >> /\ \A c \in BatchNo : ~ (c < 1)
    BY <1>1, OneBatch DEF DocumentInv
  <1>3. CASE Answer(1, AllLines(1)) /\ UNCHANGED <<stack, status>>
    <2>1. ~ InCall /\ stack' = << >>
      BY <1>1, <1>3 DEF InCall
    <2> QED BY <1>1, <1>2, <1>3, <2>1, StageAnswerBudget DEF AllLines
  <1>4. CASE /\ stack' = << [Frame(1, 1, 1, TRUE, "invalid") EXCEPT !.at = "repair"] >>
             /\ UNCHANGED <<answers, status>>
    <2>1. stack' # << >> /\ Head(stack').attempt = 1 /\ Head(stack').at = "repair"
      BY <1>4 DEF Frame
    <2>2. Callee' = 1
      BY <1>1 DEF Callee
    <2> QED BY <1>1, <1>2, <1>4, <2>1, <2>2, StageCallBudget
  <1>5. CASE status' = "failed"
    BY <1>1, <1>5, StopsBudget
  <1> QED BY <1>3, <1>4, <1>5 DEF Validate

\* The repair returns.
LEMMA ValidationReturnsBudget ==
  ASSUME DocumentInv, BudgetInv, UNCHANGED mode, ValidationReturns
  PROVE  BudgetInv'
PROOF
  <1>1. /\ stage = "validation" /\ status = "running" /\ ret # NoValue /\ stack = << >>
        /\ ~ window.open /\ ret' = NoValue /\ stack' = << >> /\ Callee = 1
        /\ UNCHANGED <<mode, stage, window, asked>>
    BY DEF ValidationReturns, CallReturned, accounting, Callee
  <1>2. 1 \in BatchNo /\ \A c \in BatchNo : ~ (c < 1)
    BY <1>1, OneBatch DEF DocumentInv
  <1>3. CASE ret.kind = "ok"
    <2>1. Answer(1, ret.lines) /\ UNCHANGED status
      BY <1>3 DEF ValidationReturns
    <2>2. ret.lines = From(1, Lines[1])
      BY <1>1, <1>3, EndedCall
    <2> QED BY <1>1, <1>2, <2>1, <2>2, StageAnswerBudget
  <1>4. CASE ret.kind # "ok"
    <2>1. status' # "running"
      BY <1>4 DEF ValidationReturns
    <2> QED BY <1>1, <2>1, StopsBudget
  <1> QED BY <1>3, <1>4

\* A cancellation and a step that changes nothing ask nothing.
LEMMA SameBudget ==
  ASSUME BudgetInv, UNCHANGED <<mode, stage, answers, window, stack, ret, asked, status>>
  PROVE  BudgetInv'
PROOF
  <1>1. /\ Together' = Together /\ Parallel' = Parallel /\ Retries' = Retries
        /\ RepairLimit' = RepairLimit /\ BatchNo' = BatchNo /\ Later' = Later /\ Lines' = Lines
        /\ (\A s : Batches(s)' = Batches(s)) /\ (\A b : Alone(b)' = Alone(b))
        /\ (\A k : Paid(k)' = Paid(k))
    BY SameMode, SameStage
  <1>2. answer' = answer /\ Waiting' = Waiting /\ InCall' = InCall
    BY DEF answer, Waiting, InCall
  <1>3. Callee' = Callee
    BY <1>1, <1>2 DEF Callee, Caller, NextBatch, Unanswered, First
  <1>4. Before' = Before /\ Whole' = Whole /\ \A b : Busy(b)' = Busy(b)
    BY <1>1, <1>2, <1>3 DEF Before, Whole, Busy
  <1>5. status = "running" => Spent'
    BY <1>1, <1>2, <1>3, <1>4 DEF BudgetInv, Spent, Within
  <1>6. status = "running" => WindowPaid'
    BY <1>1, <1>2, <1>4 DEF BudgetInv, WindowPaid, First
  <1>7. status = "running" => Untouched'
    BY <1>1, <1>2, <1>4 DEF BudgetInv, Untouched
  <1>8. status = "running" => Ahead'
    BY <1>1 DEF BudgetInv, Ahead
  <1> QED BY <1>5, <1>6, <1>7, <1>8, StaysBounded DEF BudgetInv

-----------------------------------------------------------------------------
(* The budget of a run *)

\* At the beginning nothing was asked, and what is resumed are the first
\* batches of every stage.
LEMMA BudgetInit == Init => BudgetInv
PROOF
  <1> SUFFICES ASSUME Init PROVE BudgetInv
    OBVIOUS
  <1>1. TypeInv
    BY DocumentInit DEF DocumentInv
  <1>2. asked = [s \in Stages |-> [b \in Batches(s) |-> 0]]
    BY DEF Init, Batches
  <1>3. /\ answers = [s \in Stages |-> [b \in Batches(s) |->
                        IF b <= mode.resumed[s] THEN From(1, mode.batches[s][b]) ELSE << >>]]
        /\ window = NoWindow /\ stack = << >> /\ ret = NoValue /\ stage = "correction"
        /\ mode \in Modes
    BY DEF Init, Batches
  <1>4. AskedType
    BY <1>2 DEF AskedType
  <1>5. RequestsBounded
    <2>1. ASSUME NEW s \in Stages, NEW b \in Batches(s)
          PROVE  0 <= Cost(s, mode.batches[s][b])
      <3> DEFINE n == mode.batches[s][b]
                 r == Retries + 1
                 k == 2 * n - 1
      <3>1. n \in Nat \ {0} /\ Retries \in Nat /\ RepairLimit \in Nat
        BY <1>1, <2>1, ModeFacts
      <3>2. r \in Nat /\ k \in Nat
        BY <3>1
      <3>3. k * r \in Nat
        BY <3>2
      <3>4. Calls * (k * r + RepairLimit) \in Nat
        <4> DEFINE j == k * r
        <4>1. j \in Nat
          BY <3>3
        <4> HIDE DEF j
        <4>2. 1 * (j + RepairLimit) \in Nat /\ 2 * (j + RepairLimit) \in Nat
          BY <3>1, <4>1
        <4> QED BY <4>2 DEF Calls, j
      <3> HIDE DEF n
      <3>5. (IF Parallel THEN 1 ELSE 0) \in Nat
        OBVIOUS
      <3>6. 0 <= (IF Parallel THEN 1 ELSE 0) + Calls * (k * r + RepairLimit)
        <4> DEFINE i == IF Parallel THEN 1 ELSE 0
                   j == Calls * (k * r + RepairLimit)
        <4>1. i \in Nat /\ j \in Nat
          BY <3>4, <3>5
        <4> HIDE DEF i, j
        <4>2. 0 <= i + j
          BY <4>1
        <4> QED BY <4>2 DEF i, j
      <3>7. 0 <= 1 + r + RepairLimit /\ 0 <= RepairLimit /\ 0 <= r
        BY <3>1
      <3>8. 0 <= Cost(s, n)
        <4>1. CASE s = "translation"
          <5>1. Cost(s, n) = (IF Parallel THEN 1 ELSE 0) + Calls * (k * r + RepairLimit)
            BY <4>1, Zenon DEF Cost
          <5> QED BY <3>6, <5>1
        <4>2. CASE s # "translation"
          <5>1. Cost(s, n) \in {1 + r + RepairLimit, RepairLimit, r}
            BY <4>2 DEF Cost
          <5> QED BY <3>7, <5>1
        <4> QED BY <4>1, <4>2
      <3> QED BY <3>8 DEF n
    <2>2. \A s \in Stages : DOMAIN asked[s] = Batches(s) /\ \A b \in Batches(s) : asked[s][b] = 0
      BY <1>2
    <2> QED BY <2>1, <2>2 DEF RequestsBounded
  <1>6. Spent
    BY <1>3 DEF Spent, InCall
  <1>7. WindowPaid
    BY <1>3 DEF WindowPaid, NoWindow, InCall
  <1>8. ASSUME NEW s \in Stages, NEW b \in Batches(s), answers[s][b] = << >>,
               NEW c \in Batches(s), b <= c
        PROVE  answers[s][c] = << >>
    <2>1. mode.resumed[s] \in Nat
      <3>1. mode \in Mode
        BY <1>3, ModesAssumption
      <3> QED BY <3>1 DEF Mode
    <2>2. b \in Nat /\ c \in Nat
      BY <1>1, ModeFacts DEF Batches
    <2>3. ~ (b <= mode.resumed[s])
      <3> DEFINE n == mode.batches[s][b]
      <3>1. n \in Nat /\ 1 \in Nat /\ 1 <= n /\ 1 <= n + 1
        BY <1>1, ModeFacts
      <3>2. From(1, n) # << >>
        <4> HIDE DEF n
        <4> QED BY <3>1, FromFacts
      <3> QED BY <1>3, <1>8, <3>2
    <2>4. ~ (c <= mode.resumed[s])
      BY <1>8, <2>1, <2>2, <2>3
    <2> QED BY <1>3, <2>4
  <1>9. BatchNo = Batches(stage) /\ stage \in Stages /\ Later \subseteq Stages
    BY <1>1, ModeFacts DEF TypeInv, Later, Stages
  <1>10. \A s \in Stages : \A b \in Batches(s) : asked[s][b] = 0
    BY <1>2
  <1>11. Untouched
    <2>1. Waiting = {} /\ window.names = {}
      BY <1>3 DEF Waiting, NoWindow
    <2> QED BY <1>8, <1>9, <1>10, <2>1 DEF Untouched, answer
  <1>12. Ahead
    BY <1>8, <1>9, <1>10 DEF Ahead
  <1> QED BY <1>4, <1>5, <1>6, <1>7, <1>11, <1>12 DEF BudgetInv

\* No step of the run breaks it.
LEMMA BudgetNext == DocumentInv /\ BudgetInv /\ [Next]_vars => BudgetInv'
PROOF
  <1> SUFFICES ASSUME DocumentInv, BudgetInv, [Next]_vars PROVE BudgetInv'
    OBVIOUS
  <1>1. DocumentInv'
    BY DocumentNext
  <1>2. CASE StageStep
    <2>1. UNCHANGED mode
      BY <1>2 DEF StageStep
    <2>2. CASE \/ CorrectionCached \/ CorrectionAsked \/ CorrectionRefused
               \/ PreflightStopped \/ PreflightAsked
      BY <1>1, <2>1, <2>2, OptionalBudget
    <2>3. CASE PreflightCached \/ Preflight
      BY <1>1, <2>1, <2>3, PreflightStartsBudget
    <2>4. CASE CorrectBatch \/ CorrectionReturns
      BY <1>1, <2>1, <2>4, CorrectBatchBudget, CorrectionReturnsBudget
    <2>5. CASE PreflightReturns
      BY <2>1, <2>5, PreflightReturnsBudget
    <2>6. CASE CorrectionEnds \/ PreflightEnds \/ WindowsEnd \/ ValidationEnds
      BY <2>1, <2>6, StageEndsBudget
    <2>7. CASE Validate \/ ValidationReturns
      BY <1>1, <2>1, <2>7, ValidateBudget, ValidationReturnsBudget
    <2> QED BY <1>2, <2>2, <2>3, <2>4, <2>5, <2>6, <2>7 DEF StageStep
  <1>3. CASE RecoveryStep
    <2>1. UNCHANGED <<mode, stage>>
      BY <1>3 DEF RecoveryStep
    <2>2. CASE OpenWindow \/ OpenWindowFails
      BY <1>1, <2>1, <2>2, OpenWindowBudget, OpenWindowFailsBudget
    <2>3. CASE CallBatch \/ SendWindow \/ TakeResponse
      BY <1>1, <2>1, <2>3, CallBatchBudget, SendWindowBudget, TakeResponseBudget
    <2>4. CASE ReconcileNames \/ CallReturns \/ CloseWindow
      BY <1>1, <2>1, <2>4, ReconcileNamesBudget, CallReturnsBudget, CloseWindowBudget
    <2>5. CASE AttemptStopped \/ AttemptCached \/ AttemptAsked \/ AttemptRefused
      BY <1>1, <2>1, <2>5, AttemptBudget
    <2>6. CASE LeftReturns \/ RightReturns
      BY <1>1, <2>1, <2>6, PartBudget
    <2>7. CASE RepairStopped \/ RepairAsked \/ RepairUnasked
      BY <1>1, <2>1, <2>7, RepairBudget
    <2> QED BY <1>3, <2>2, <2>3, <2>4, <2>5, <2>6, <2>7 DEF RecoveryStep
  <1>4. CASE Cancel /\ UNCHANGED <<mode, stage>>
    BY <1>4, SameBudget DEF Cancel, accounting
  <1>5. CASE UNCHANGED vars
    BY <1>5, SameBudget DEF vars, accounting
  <1> QED BY <1>2, <1>3, <1>4, <1>5 DEF Next, Step, Finished

\* Of every run: what a call in progress has asked is what its frames and the
\* splits below them account for; what a window has asked for the batches
\* that it does not call now is what it has paid for them; and nothing was
\* asked for the batches and stages that are still to come.
THEOREM BudgetInvariant == Spec => []BudgetInv
PROOF
  <1>1. Init => BudgetInv
    BY BudgetInit
  <1>2. DocumentInv /\ BudgetInv /\ [Next]_vars => BudgetInv'
    BY BudgetNext
  <1> QED BY <1>1, <1>2, DocumentInvariant, PTL DEF Spec

\* Whatever the backend answers, a batch costs no more requests than its
\* lines, the retries and the repairs of the mode allow: splitting down to
\* single lines, repairing what has failed and aligning names stay within a
\* budget that is known before the run.
THEOREM RequestsAreBounded == Spec => []RequestsBounded
PROOF
  <1>1. BudgetInv => RequestsBounded
    BY DEF BudgetInv
  <1> QED BY <1>1, BudgetInvariant, PTL
=============================================================================
