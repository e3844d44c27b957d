----------------------- MODULE VirtualRegisters_proofs -----------------------
(***************************************************************************)
(* For every number of emulators, pools of every size and all expansions   *)
(* that fit the pools by themselves: a register never has two guards, and  *)
(* as long as the clones take turns, none panics and each names what the   *)
(* bytecode names.                                                         *)
(***************************************************************************)
EXTENDS VirtualRegisters, SequenceFacts

Regs == InstrRegs \cup InlineRegs

----------------------------------------------------------------------------
(* The expansion by itself. *)

AloneState == [held : Seq(Regs), named : Seq(Regs), used : Seq(InlineRegs)]

Nothing == [held |-> <<>>, named |-> <<>>, used |-> <<>>]

\* The recursion of AloneFrom over the first n steps.
Runs(s, n, f) == f = [i \in 0 .. n |-> IF i = 0 THEN Nothing ELSE AloneStep(f[i - 1], s[i])]

\* Some function satisfies it.
LEMMA RunsExists == \A s : \A n \in Nat : \E f : Runs(s, n, f)
<1> SUFFICES ASSUME NEW s PROVE \A n \in Nat : \E f : Runs(s, n, f)
  OBVIOUS
<1> DEFINE S == {n \in Nat : \E f : Runs(s, n, f)}
<1>1. 0 \in S
  <2> DEFINE f == [i \in 0 .. 0 |-> Nothing]
  <2>1. f = [i \in 0 .. 0 |-> IF i = 0 THEN Nothing ELSE AloneStep(f[i - 1], s[i])]
    OBVIOUS
  <2> QED
    BY <2>1 DEF Runs
<1>2. ASSUME NEW n \in Nat, n \in S PROVE n + 1 \in S
  <2>1. PICK f : Runs(s, n, f)
    BY <1>2
  <2> DEFINE g == [i \in 0 .. n + 1 |-> IF i \in 0 .. n THEN f[i] ELSE AloneStep(f[i - 1], s[i])]
             h == [i \in 0 .. n + 1 |-> IF i = 0 THEN Nothing ELSE AloneStep(g[i - 1], s[i])]
  <2>2. ASSUME NEW i \in 0 .. n + 1 PROVE g[i] = h[i]
    <3>1. CASE i \in 0 .. n
      <4>1. f[i] = IF i = 0 THEN Nothing ELSE AloneStep(f[i - 1], s[i])
        BY <2>1, <3>1 DEF Runs
      <4>2. i # 0 => g[i - 1] = f[i - 1]
        BY <3>1
      <4> QED
        BY <3>1, <4>1, <4>2
    <3>2. CASE i = n + 1
      <4>1. g[i - 1] = f[i - 1] /\ i # 0 /\ i \notin 0 .. n
        BY <3>2
      <4> QED
        BY <3>2, <4>1
    <3> QED
      BY <3>1, <3>2
  <2>3. g = h
    BY <2>2
  <2>4. Runs(s, n + 1, g)
    BY <2>3 DEF Runs
  <2> HIDE DEF g
  <2> QED
    BY <2>4
<1> HIDE DEF S
<1>3. \A n \in Nat : n \in S
  BY <1>1, <1>2, NatSetInduction
<1> QED
  BY <1>3 DEF S

\* What AloneFrom is after no step, and after one more.
LEMMA AloneUnfolds ==
    ASSUME NEW s \in Seq(Steps)
    PROVE  /\ AloneFrom(s)[0] = Nothing
           /\ \A i \in 1 .. Len(s) : AloneFrom(s)[i] = AloneStep(AloneFrom(s)[i - 1], s[i])
<1> DEFINE E(f) == [i \in 0 .. Len(s) |-> IF i = 0 THEN Nothing ELSE AloneStep(f[i - 1], s[i])]
           after == CHOOSE f : f = E(f)
<1>1. Len(s) \in Nat
  BY LenProperties
<1>2. AloneFrom(s) = after
  BY DEF AloneFrom, Nothing
<1>3. \E f : f = E(f)
  BY <1>1, RunsExists DEF Runs
<1>4. after = E(after)
  BY <1>3
<1> HIDE DEF after
<1>5. after[0] = Nothing /\ \A i \in 1 .. Len(s) : after[i] = AloneStep(after[i - 1], s[i])
  BY <1>1, <1>4
<1> QED
  BY <1>2, <1>5

\* The smallest of the registers that are free is one of them.
LEMMA MinFree ==
    ASSUME NEW T \in SUBSET Nat, T # {}
    PROVE  Min(T) \in T
BY LeastElement DEF Min

\* A register listed for reset is an inline register, listed once.
Listed(used, r) == IF r \in Range(used) THEN used ELSE Append(used, r)

\* The operations that take a register.
Taking == {"allocate", "allocate_for_inline", "allocate_for_advice"}

\* What a step is.
LEMMA StepKinds ==
    /\ \A step \in Steps : step.op \in Taking \cup {"drop", "reset"} /\ step.guard \in Nat
    /\ \A step \in SequenceStep : step \in Steps /\ step.op # "allocate_for_advice"
    /\ \A step \in AdviceStep : step \in Steps /\ step.op \in {"allocate_for_advice", "drop"}
BY DEF Steps, SequenceStep, AdviceStep, Step, Taking

\* The steps of an expansion by itself, one by one.
LEMMA AloneSteps ==
    ASSUME NEW st \in AloneState, NEW step \in Steps
    PROVE  /\ step.op \in Taking =>
                LET r == Min(Pool(step.op) \ Range(st.held))
                IN  AloneStep(st, step) =
                      [held |-> Append(st.held, r), named |-> st.named \o Named(step.op, r),
                       used |-> IF step.op = "allocate" THEN st.used ELSE Listed(st.used, r)]
           /\ step.op = "drop" =>
                AloneStep(st, step) =
                  [held |-> RemoveAt(st.held, Position(st.held, step)), named |-> st.named, used |-> st.used]
           /\ step.op = "reset" =>
                AloneStep(st, step) = [held |-> st.held, named |-> st.named \o st.used, used |-> <<>>]
BY DEF AloneStep, Listed, Taking

\* The registers taken, the same step read field by field.
LEMMA AloneTakes ==
    ASSUME NEW st \in AloneState, NEW step \in Steps, step.op \in Taking,
           NEW r, r = Min(Pool(step.op) \ Range(st.held))
    PROVE  /\ AloneStep(st, step).held = Append(st.held, r)
           /\ AloneStep(st, step).named = st.named \o Named(step.op, r)
           /\ AloneStep(st, step).used = IF step.op = "allocate" THEN st.used ELSE Listed(st.used, r)
<1> DEFINE h == Append(st.held, r)
           n == st.named \o Named(step.op, r)
           u == IF step.op = "allocate" THEN st.used ELSE Listed(st.used, r)
<1>1. AloneStep(st, step) = [held |-> h, named |-> n, used |-> u]
  BY AloneSteps
<1> HIDE DEF h, n, u
<1>2. AloneStep(st, step).held = h /\ AloneStep(st, step).named = n /\ AloneStep(st, step).used = u
  BY <1>1
<1> QED
  BY <1>2 DEF h, n, u

\* A sequence without one of its elements.
LEMMA RemoveFacts ==
    ASSUME NEW S, NEW a \in Seq(S), NEW i \in 1 .. Len(a)
    PROVE  /\ RemoveAt(a, i) \in Seq(S) /\ Len(RemoveAt(a, i)) = Len(a) - 1 /\ Len(a) \in Nat
           /\ a[i] \in S
           /\ \A j \in 1 .. Len(a) - 1 : RemoveAt(a, i)[j] = IF j < i THEN a[j] ELSE a[j + 1]
<1> DEFINE b == SubSeq(a, 1, i - 1)
           c == SubSeq(a, i + 1, Len(a))
<1>1. Len(a) \in Nat /\ i \in Nat /\ i >= 1 /\ i <= Len(a) /\ \A j \in 1 .. Len(a) : a[j] \in S
  BY LenProperties
<1>2. b \in Seq(S) /\ Len(b) = i - 1 /\ \A j \in 1 .. i - 1 : b[j] = a[j]
  <2> DEFINE n == i - 1
  <2>1. 1 \in Int /\ n \in Int /\ \A j \in 1 .. n : a[j] \in S
    BY <1>1
  <2>2. n >= 0 /\ n = i - 1
    BY <1>1
  <2> HIDE DEF n
  <2>3. /\ SubSeq(a, 1, n) \in Seq(S)
        /\ Len(SubSeq(a, 1, n)) = (IF 1 <= n THEN n - 1 + 1 ELSE 0)
        /\ \A j \in 1 .. n - 1 + 1 : SubSeq(a, 1, n)[j] = a[1 + j - 1]
    BY <2>1, SubSeqProperties
  <2> QED
    BY <2>1, <2>2, <2>3
<1>3. c \in Seq(S) /\ Len(c) = Len(a) - i /\ \A j \in 1 .. Len(a) - i : c[j] = a[i + j]
  <2> DEFINE k == i + 1
             n == Len(a)
  <2>1. k \in Int /\ n \in Int /\ (\A j \in k .. n : a[j] \in S) /\ k = i + 1 /\ i <= n /\ i \in Nat /\ n = Len(a)
    BY <1>1
  <2> HIDE DEF k, n
  <2>2. /\ SubSeq(a, k, n) \in Seq(S)
        /\ Len(SubSeq(a, k, n)) = (IF k <= n THEN n - k + 1 ELSE 0)
        /\ \A j \in 1 .. n - k + 1 : SubSeq(a, k, n)[j] = a[k + j - 1]
    BY <2>1, SubSeqProperties
  <2>3. \A j \in 1 .. n - i : SubSeq(a, k, n)[j] = a[i + j]
    <3>1. ASSUME NEW j \in 1 .. n - i PROVE SubSeq(a, k, n)[j] = a[i + j]
      <4>1. j \in 1 .. n - k + 1 /\ k + j - 1 = i + j
        BY <2>1
      <4> QED
        BY <2>2, <4>1
    <3> QED
      BY <3>1
  <2>4. Len(SubSeq(a, k, n)) = n - i
    BY <2>1, <2>2
  <2>5. c = SubSeq(a, k, n)
    BY <2>1
  <2> QED
    BY <2>1, <2>2, <2>3, <2>4, <2>5
<1>4. RemoveAt(a, i) = b \o c
  BY DEF RemoveAt
<1> HIDE DEF b, c
<1>5. /\ b \o c \in Seq(S) /\ Len(b \o c) = Len(b) + Len(c)
      /\ \A j \in 1 .. Len(b) + Len(c) : (b \o c)[j] = IF j <= Len(b) THEN b[j] ELSE c[j - Len(b)]
  BY <1>2, <1>3, ConcatProperties
<1>6. Len(b) + Len(c) = Len(a) - 1
  BY <1>1, <1>2, <1>3
<1>7. ASSUME NEW j \in 1 .. Len(a) - 1 PROVE (b \o c)[j] = IF j < i THEN a[j] ELSE a[j + 1]
  <2>1. (b \o c)[j] = IF j <= Len(b) THEN b[j] ELSE c[j - Len(b)]
    BY <1>5, <1>6
  <2>2. CASE j < i
    <3>1. j <= Len(b) /\ j \in 1 .. i - 1
      BY <1>1, <1>2, <2>2
    <3> QED
      BY <1>2, <2>1, <2>2, <3>1
  <2>3. CASE ~(j < i)
    <3>1. ~(j <= Len(b)) /\ j - Len(b) \in 1 .. Len(a) - i /\ i + (j - Len(b)) = j + 1
      BY <1>1, <1>2, <2>3
    <3>2. c[j - Len(b)] = a[i + (j - Len(b))]
      BY <1>3, <3>1
    <3> QED
      BY <2>1, <2>3, <3>1, <3>2
  <2> QED
    BY <2>2, <2>3
<1> QED
  BY <1>1, <1>4, <1>5, <1>6, <1>7

\* The free register of a pool.
LEMMA FreeOfPool ==
    ASSUME NEW pool, pool \subseteq Regs, NEW taken, ~(pool \subseteq taken)
    PROVE  /\ Min(pool \ taken) \in pool /\ Min(pool \ taken) \notin taken
           /\ pool \ taken # {}
<1> DEFINE free == pool \ taken
<1>1. free \in SUBSET Nat /\ free # {}
  BY PoolAssumption DEF Regs
<1> HIDE DEF free
<1>2. Min(free) \in free
  BY <1>1, MinFree
<1> QED
  BY <1>1, <1>2 DEF free

\* What a step takes.
LEMMA Registers ==
    ASSUME NEW op \in Taking, NEW taken, ~(Pool(op) \subseteq taken)
    PROVE  /\ Min(Pool(op) \ taken) \in Regs /\ Min(Pool(op) \ taken) \notin taken
           /\ op # "allocate" => Min(Pool(op) \ taken) \in InlineRegs
           /\ Pool(op) \subseteq Regs /\ Pool(op) \ taken # {}
<1>1. Pool(op) \subseteq Regs /\ (op # "allocate" => Pool(op) = InlineRegs)
  BY DEF Pool, Regs
<1>2. Min(Pool(op) \ taken) \in Pool(op) /\ Min(Pool(op) \ taken) \notin taken /\ Pool(op) \ taken # {}
  BY <1>1, FreeOfPool
<1> QED
  BY <1>1, <1>2

\* What a step names is a sequence of registers.
LEMMA NamedType ==
    ASSUME NEW op, NEW r \in Regs, NEW q \in Seq(Regs)
    PROVE  /\ Named(op, r) \in Seq(Regs) /\ q \o Named(op, r) \in Seq(Regs)
           /\ op = "allocate_for_advice" => q \o Named(op, r) = q
<1>1. <<>> \in Seq(Regs) /\ <<r>> \in Seq(Regs)
  OBVIOUS
<1>2. Named(op, r) \in Seq(Regs)
  BY <1>1 DEF Named
<1>3. op = "allocate_for_advice" => Named(op, r) = <<>>
  BY DEF Named
<1> QED
  BY <1>2, <1>3, ConcatProperties, ConcatEmptySeq

\* The position of a guard that is held.
LEMMA PositionIn ==
    ASSUME NEW S, NEW h \in Seq(S), NEW step \in Steps, step.guard \in 1 .. Len(h)
    PROVE  Position(h, step) \in 1 .. Len(h)
BY StepKinds, LenProperties DEF Position

\* While it fits the pools, its state stays well formed.
LEMMA AloneStepType ==
    ASSUME NEW st \in AloneState, NEW step \in Steps, Fits(st, step)
    PROVE  AloneStep(st, step) \in AloneState
<1>0. /\ st.held \in Seq(Regs) /\ st.named \in Seq(Regs) /\ st.used \in Seq(InlineRegs)
      /\ step.op \in Taking \cup {"drop", "reset"}
  BY StepKinds DEF AloneState
<1>1. CASE step.op \in Taking
  <2> DEFINE r == Min(Pool(step.op) \ Range(st.held))
             u == IF step.op = "allocate" THEN st.used ELSE Listed(st.used, r)
  <2>1. ~(Pool(step.op) \subseteq Range(st.held))
    BY <1>1 DEF Fits, Pool, Taking
  <2>2. r \in Regs /\ (step.op # "allocate" => r \in InlineRegs)
    BY <1>1, <2>1, Registers
  <2>3. AloneStep(st, step) = [held |-> Append(st.held, r), named |-> st.named \o Named(step.op, r), used |-> u]
    BY <1>1, AloneSteps
  <2> HIDE DEF r
  <2>4. Append(st.held, r) \in Seq(Regs) /\ st.named \o Named(step.op, r) \in Seq(Regs)
    BY <1>0, <2>2, AppendProperties, NamedType
  <2>5. u \in Seq(InlineRegs)
    BY <1>0, <2>2, AppendProperties DEF Listed
  <2> HIDE DEF u
  <2> QED
    BY <2>3, <2>4, <2>5 DEF AloneState
<1>2. CASE step.op = "drop"
  <2> DEFINE i == Position(st.held, step)
  <2>1. AloneStep(st, step) = [held |-> RemoveAt(st.held, i), named |-> st.named, used |-> st.used]
    BY <1>2, AloneSteps
  <2>2. i \in 1 .. Len(st.held)
    BY <1>0, <1>2, PositionIn DEF Fits
  <2> HIDE DEF i
  <2>3. RemoveAt(st.held, i) \in Seq(Regs)
    BY <1>0, <2>2, RemoveFacts
  <2> QED
    BY <1>0, <2>1, <2>3 DEF AloneState
<1>3. CASE step.op = "reset"
  <2>1. AloneStep(st, step) = [held |-> st.held, named |-> st.named \o st.used, used |-> <<>>]
    BY <1>3, AloneSteps
  <2>2. st.named \o st.used \in Seq(Regs) /\ <<>> \in Seq(InlineRegs)
    <3>1. st.used \in Seq(Regs)
      BY <1>0, SeqMonotonic DEF Regs
    <3> QED
      BY <1>0, <3>1, ConcatProperties
  <2> QED
    BY <1>0, <2>1, <2>2 DEF AloneState
<1> QED
  BY <1>0, <1>1, <1>2, <1>3

\* It starts well formed.
LEMMA NothingType == Nothing \in AloneState
<1>1. <<>> \in Seq(Regs) /\ <<>> \in Seq(InlineRegs)
  OBVIOUS
<1> QED
  BY <1>1 DEF Nothing, AloneState

\* An expansion that fits the pools, after each of its steps.
LEMMA RunType ==
    ASSUME NEW s \in Seq(Steps), \A i \in 1 .. Len(s) : Fits(AloneFrom(s)[i - 1], s[i])
    PROVE  \A i \in 0 .. Len(s) : AloneFrom(s)[i] \in AloneState
<1> DEFINE after == AloneFrom(s)
           S == {n \in Nat : n <= Len(s) => after[n] \in AloneState}
<1>1. Len(s) \in Nat /\ \A i \in 1 .. Len(s) : s[i] \in Steps /\ Fits(after[i - 1], s[i])
  BY LenProperties
<1>2. after[0] = Nothing /\ \A i \in 1 .. Len(s) : after[i] = AloneStep(after[i - 1], s[i])
  BY AloneUnfolds
<1> HIDE DEF after
<1>3. 0 \in S
  BY <1>2, NothingType
<1>4. ASSUME NEW n \in Nat, n \in S PROVE n + 1 \in S
  <2>1. SUFFICES ASSUME n + 1 <= Len(s) PROVE after[n + 1] \in AloneState
    OBVIOUS
  <2>2. n + 1 \in 1 .. Len(s) /\ (n + 1) - 1 = n /\ after[n] \in AloneState
    BY <1>1, <1>4, <2>1
  <2>3. after[n + 1] = AloneStep(after[n], s[n + 1]) /\ Fits(after[n], s[n + 1]) /\ s[n + 1] \in Steps
    BY <1>1, <1>2, <2>2
  <2> QED
    BY <2>2, <2>3, AloneStepType
<1> HIDE DEF S
<1>5. \A n \in Nat : n \in S
  BY <1>3, <1>4, NatSetInduction
<1> QED
  BY <1>1, <1>5 DEF S, after

\* The steps of an instruction, with the advice and without.
LEMMA StepsOf ==
    ASSUME NEW s \in Instruction
    PROVE  /\ RemapFirst(s) \in Seq(Steps) /\ s.advice \in Seq(AdviceStep)
           /\ Decoded(s) \in Seq(Steps) /\ Traced(s) \in Seq(Steps)
           /\ Len(RemapFirst(s)) \in Nat /\ Len(s.advice) \in Nat
           /\ Len(Decoded(s)) \in Nat /\ Len(Decoded(s)) >= Len(RemapFirst(s))
           /\ Len(Traced(s)) = Len(Decoded(s)) + Len(s.advice)
           /\ \A i \in 1 .. Len(RemapFirst(s)) : Traced(s)[i] = Decoded(s)[i]
           /\ \A i \in 1 .. Len(s.advice) : Traced(s)[Len(RemapFirst(s)) + i] = s.advice[i]
           /\ \A i \in Len(RemapFirst(s)) + 1 .. Len(Decoded(s)) :
                 Decoded(s)[i] \in SequenceStep /\ Traced(s)[i + Len(s.advice)] = Decoded(s)[i]
<1> DEFINE f == RemapFirst(s)
           v == s.advice
           q == Sequence(s)
           d == Decoded(s)
           t == Traced(s)
<1>1. s.remapped \in BOOLEAN /\ v \in Seq(AdviceStep) /\ s.sequence \in Seq(SequenceStep)
  BY PoolAssumption
<1>2. [op |-> "allocate", guard |-> 0] \in SequenceStep /\ [op |-> "drop", guard |-> 1] \in SequenceStep
  BY DEF SequenceStep, Step
<1>3. f \in Seq(SequenceStep) /\ RemapLast(s) \in Seq(SequenceStep)
  BY <1>1, <1>2 DEF RemapFirst, RemapLast
<1>4. q \in Seq(SequenceStep)
  BY <1>1, <1>3, ConcatProperties DEF Sequence
<1>5. f \in Seq(Steps) /\ v \in Seq(Steps) /\ q \in Seq(Steps)
  <2>1. SequenceStep \subseteq Steps /\ AdviceStep \subseteq Steps
    BY DEF Steps
  <2> QED
    BY <1>1, <1>3, <1>4, <2>1, SeqMonotonic
<1>6. d = f \o q /\ t = f \o (v \o q)
  BY DEF Decoded, Traced
<1> HIDE DEF f, v, q, d, t
<1>7. /\ d \in Seq(Steps) /\ Len(d) = Len(f) + Len(q)
      /\ \A i \in 1 .. Len(f) + Len(q) : d[i] = IF i <= Len(f) THEN f[i] ELSE q[i - Len(f)]
  BY <1>5, <1>6, ConcatProperties
<1>8. /\ v \o q \in Seq(Steps) /\ Len(v \o q) = Len(v) + Len(q)
      /\ \A i \in 1 .. Len(v) + Len(q) : (v \o q)[i] = IF i <= Len(v) THEN v[i] ELSE q[i - Len(v)]
  BY <1>5, ConcatProperties
<1> DEFINE w == v \o q
<1> HIDE DEF w
<1>9. /\ t \in Seq(Steps) /\ Len(t) = Len(f) + Len(w)
      /\ \A i \in 1 .. Len(f) + Len(w) : t[i] = IF i <= Len(f) THEN f[i] ELSE w[i - Len(f)]
  <2>1. w \in Seq(Steps) /\ t = f \o w
    BY <1>6, <1>8 DEF w
  <2> QED
    BY <1>5, <2>1, ConcatProperties
<1>10. /\ Len(w) = Len(v) + Len(q)
       /\ \A i \in 1 .. Len(v) + Len(q) : w[i] = IF i <= Len(v) THEN v[i] ELSE q[i - Len(v)]
  BY <1>8 DEF w
<1>11. Len(f) \in Nat /\ Len(v) \in Nat /\ Len(q) \in Nat
  BY <1>5, LenProperties
<1>12. Len(d) \in Nat /\ Len(d) >= Len(f) /\ Len(t) = Len(d) + Len(v)
  BY <1>7, <1>9, <1>10, <1>11
<1>13. ASSUME NEW i \in 1 .. Len(f) PROVE t[i] = d[i]
  <2>1. i <= Len(f) /\ i \in 1 .. Len(f) + Len(q) /\ i \in 1 .. Len(f) + Len(w)
    BY <1>10, <1>11
  <2> QED
    BY <1>7, <1>9, <2>1
<1>14. ASSUME NEW i \in 1 .. Len(v) PROVE t[Len(f) + i] = v[i]
  <2>1. ~(Len(f) + i <= Len(f)) /\ Len(f) + i \in 1 .. Len(f) + Len(w) /\ (Len(f) + i) - Len(f) = i
        /\ i \in 1 .. Len(v) + Len(q) /\ i <= Len(v)
    BY <1>10, <1>11
  <2>2. t[Len(f) + i] = w[i]
    BY <1>9, <2>1
  <2> QED
    BY <1>10, <2>1, <2>2
<1>15. ASSUME NEW i \in Len(f) + 1 .. Len(d) PROVE d[i] \in SequenceStep /\ t[i + Len(v)] = d[i]
  <2> DEFINE k == i - Len(f)
  <2>1. /\ ~(i <= Len(f)) /\ i \in 1 .. Len(f) + Len(q) /\ k \in 1 .. Len(q)
        /\ ~(i + Len(v) <= Len(f)) /\ i + Len(v) \in 1 .. Len(f) + Len(w)
        /\ (i + Len(v)) - Len(f) = k + Len(v) /\ k + Len(v) \in 1 .. Len(v) + Len(q)
        /\ ~(k + Len(v) <= Len(v)) /\ (k + Len(v)) - Len(v) = k
    BY <1>7, <1>10, <1>11
  <2>2. d[i] = q[k]
    BY <1>7, <2>1
  <2>3. t[i + Len(v)] = w[k + Len(v)]
    BY <1>9, <2>1
  <2>4. w[k + Len(v)] = q[k]
    BY <1>10, <2>1
  <2>5. q[k] \in SequenceStep
    BY <1>4, <2>1
  <2> QED
    BY <2>2, <2>3, <2>4, <2>5
<1> QED
  BY <1>1, <1>5, <1>7, <1>9, <1>11, <1>12, <1>13, <1>14, <1>15 DEF f, v, d, t

\* The tracer's expansion by itself, after each of its steps.
LEMMA AloneFacts ==
    ASSUME NEW s \in Instruction
    PROVE  /\ Traced(s) \in Seq(Steps) /\ Len(Traced(s)) \in Nat
           /\ AloneFrom(Traced(s))[0] = Nothing
           /\ \A i \in 0 .. Len(Traced(s)) : AloneFrom(Traced(s))[i] \in AloneState
           /\ \A i \in 1 .. Len(Traced(s)) :
                /\ Traced(s)[i] \in Steps
                /\ Fits(AloneFrom(Traced(s))[i - 1], Traced(s)[i])
                /\ AloneFrom(Traced(s))[i] = AloneStep(AloneFrom(Traced(s))[i - 1], Traced(s)[i])
           /\ AloneFrom(Traced(s))[Len(Traced(s))].held = <<>>
           /\ AloneFrom(Traced(s))[Len(Traced(s))].used = <<>>
<1> DEFINE t == Traced(s)
<1>1. t \in Seq(Steps)
  BY StepsOf
<1>2. /\ AloneFrom(t)[Len(t)].held = <<>> /\ AloneFrom(t)[Len(t)].used = <<>>
      /\ \A i \in 1 .. Len(t) : Fits(AloneFrom(t)[i - 1], t[i])
  BY ExpansionAssumption
<1> HIDE DEF t
<1>3. Len(t) \in Nat /\ \A i \in 1 .. Len(t) : t[i] \in Steps
  BY <1>1, LenProperties
<1>4. AloneFrom(t)[0] = Nothing /\ \A i \in 1 .. Len(t) : AloneFrom(t)[i] = AloneStep(AloneFrom(t)[i - 1], t[i])
  BY <1>1, AloneUnfolds
<1>5. \A i \in 0 .. Len(t) : AloneFrom(t)[i] \in AloneState
  BY <1>1, <1>2, RunType
<1> QED
  BY <1>1, <1>2, <1>3, <1>4, <1>5 DEF t

\* A prefix, element by element.
LEMMA PrefixAt ==
    ASSUME NEW S, NEW a \in Seq(S), NEW b \in Seq(S)
    PROVE  IsPrefix(a, b) <=> Len(a) <= Len(b) /\ \A i \in 1 .. Len(a) : a[i] = b[i]
<1> DEFINE n == Len(a)
<1>1. n \in Nat /\ Len(b) \in Nat /\ 1 \in Int /\ n \in Int
  BY LenProperties
<1>2. n <= Len(b) => \A i \in 1 .. n : a[i] \in S /\ b[i] \in S
  BY <1>1
<1>3. IsPrefix(a, b) <=> n <= Len(b) /\ SubSeq(a, 1, n) = SubSeq(b, 1, n)
  BY DEF IsPrefix
<1>4. ASSUME n <= Len(b) PROVE SubSeq(a, 1, n) = SubSeq(b, 1, n) <=> \A i \in 1 .. n : a[i] = b[i]
  <2> HIDE DEF n
  <2>1. /\ SubSeq(a, 1, n) \in Seq(S) /\ Len(SubSeq(a, 1, n)) = (IF 1 <= n THEN n - 1 + 1 ELSE 0)
        /\ \A i \in 1 .. n - 1 + 1 : SubSeq(a, 1, n)[i] = a[1 + i - 1]
    BY <1>1, <1>2, <1>4, SubSeqProperties
  <2>2. /\ SubSeq(b, 1, n) \in Seq(S) /\ Len(SubSeq(b, 1, n)) = (IF 1 <= n THEN n - 1 + 1 ELSE 0)
        /\ \A i \in 1 .. n - 1 + 1 : SubSeq(b, 1, n)[i] = b[1 + i - 1]
    BY <1>1, <1>2, <1>4, SubSeqProperties
  <2> DEFINE p == SubSeq(a, 1, n)
             q == SubSeq(b, 1, n)
  <2>3. /\ p \in Seq(S) /\ q \in Seq(S) /\ Len(p) = n /\ Len(q) = n
        /\ \A i \in 1 .. n : p[i] = a[i] /\ q[i] = b[i]
    BY <1>1, <2>1, <2>2
  <2> HIDE DEF p, q
  <2>4. (\A i \in 1 .. n : p[i] = q[i]) => p = q
    BY <2>3
  <2>5. p = q <=> \A i \in 1 .. n : a[i] = b[i]
    BY <2>3, <2>4
  <2> QED
    BY <2>5 DEF p, q
<1> QED
  BY <1>3, <1>4

\* One more register listed, while the list stays on the way to p or has passed it.
LEMMA PrefixGrows ==
    ASSUME NEW S, NEW y \in Seq(S), NEW p \in Seq(S), NEW r \in S, IsPrefix(y, p),
           IsPrefix(Append(y, r), p) \/ IsPrefix(p, Append(y, r))
    PROVE  y = p \/ (r \in Range(p) /\ IsPrefix(Append(y, r), p))
<1> DEFINE z == Append(y, r)
           n == Len(y)
<1>1. /\ n \in Nat /\ Len(p) \in Nat /\ z \in Seq(S) /\ Len(z) = n + 1 /\ z[n + 1] = r
      /\ \A i \in 1 .. n : z[i] = y[i]
  BY LenProperties, AppendProperties
<1>2. n <= Len(p) /\ \A i \in 1 .. n : y[i] = p[i]
  BY PrefixAt
<1> HIDE DEF z
<1>3. CASE Len(p) = n
  <2>1. y = p
    BY <1>2, <1>3
  <2> QED
    BY <2>1
<1>4. CASE Len(p) # n
  <2>1. Len(p) >= n + 1 /\ n + 1 \in 1 .. n + 1
    BY <1>1, <1>2, <1>4
  <2>2. \A i \in 1 .. n + 1 : z[i] = p[i]
    <3>1. CASE IsPrefix(z, p)
      BY <1>1, <3>1, PrefixAt
    <3>2. CASE IsPrefix(p, z)
      <4>1. Len(p) <= Len(z) /\ \A i \in 1 .. Len(p) : p[i] = z[i]
        BY <1>1, <3>2, PrefixAt
      <4> QED
        BY <1>1, <2>1, <4>1
    <3>3. IsPrefix(z, p) \/ IsPrefix(p, z)
      BY DEF z
    <3> QED
      BY <3>1, <3>2, <3>3
  <2>3. r = p[n + 1] /\ n + 1 \in DOMAIN p
    BY <1>1, <2>1, <2>2
  <2>4. r \in Range(p)
    BY <2>3 DEF Range
  <2>5. IsPrefix(z, p)
    BY <1>1, <2>1, <2>2, PrefixAt
  <2> QED
    BY <2>4, <2>5 DEF z
<1> QED
  BY <1>3, <1>4

\* Two sequences that are prefixes of each other.
LEMMA PrefixBoth ==
    ASSUME NEW S, NEW a \in Seq(S), NEW b \in Seq(S), IsPrefix(a, b), IsPrefix(b, a)
    PROVE  a = b
<1>1. /\ Len(a) \in Nat /\ Len(b) \in Nat /\ Len(a) <= Len(b) /\ Len(b) <= Len(a)
      /\ \A i \in 1 .. Len(a) : a[i] = b[i]
  BY PrefixAt, LenProperties
<1>2. Len(a) = Len(b)
  BY <1>1
<1> QED
  BY <1>1, <1>2

\* x has run the advice builder, which listed p, and y has not: they hold the same
\* guards and have named the same registers, and y has listed less of p, or as much
\* as x.
Alike(x, y, p) ==
    /\ x.held = y.held /\ x.named = y.named
    /\ x.used = y.used \/ (x.used = p /\ IsPrefix(y.used, p))

\* A step of the sequence leaves them alike.
LEMMA AlikeStep ==
    ASSUME NEW x \in AloneState, NEW y \in AloneState, NEW p \in Seq(InlineRegs), NEW step \in SequenceStep,
           Alike(x, y, p), Fits(x, step),
           LET used == AloneStep(y, step).used IN IsPrefix(used, p) \/ IsPrefix(p, used),
           step.op = "reset" => IsPrefix(p, y.used)
    PROVE  Alike(AloneStep(x, step), AloneStep(y, step), p) /\ AloneStep(y, step) \in AloneState
<1>1. /\ step \in Steps /\ step.op \in Taking \cup {"drop", "reset"} /\ step.op # "allocate_for_advice"
      /\ x.held = y.held /\ x.named = y.named /\ x.used \in Seq(InlineRegs) /\ y.used \in Seq(InlineRegs)
      /\ x.used = y.used \/ (x.used = p /\ IsPrefix(y.used, p))
  BY StepKinds DEF Alike, AloneState
<1>2. Fits(y, step)
  BY <1>1 DEF Fits
<1>3. AloneStep(y, step) \in AloneState
  BY <1>1, <1>2, AloneStepType
<1>4. CASE step.op \in Taking
  <2> DEFINE r == Min(Pool(step.op) \ Range(x.held))
             u == AloneStep(x, step).used
             v == AloneStep(y, step).used
  <2>1. r = Min(Pool(step.op) \ Range(y.held))
    BY <1>1
  <2>2. /\ AloneStep(x, step).held = Append(x.held, r)
        /\ AloneStep(x, step).named = x.named \o Named(step.op, r)
        /\ u = IF step.op = "allocate" THEN x.used ELSE Listed(x.used, r)
    BY <1>1, <1>4, AloneTakes
  <2>3. /\ AloneStep(y, step).held = Append(y.held, r)
        /\ AloneStep(y, step).named = y.named \o Named(step.op, r)
        /\ v = IF step.op = "allocate" THEN y.used ELSE Listed(y.used, r)
    BY <1>1, <1>4, <2>1, AloneTakes
  <2>4. step.op # "allocate" => r \in InlineRegs
    <3>1. ~(Pool(step.op) \subseteq Range(x.held))
      BY <1>4 DEF Fits, Pool, Taking
    <3> QED
      BY <1>4, <3>1, Registers
  <2>5. IsPrefix(v, p) \/ IsPrefix(p, v)
    OBVIOUS
  <2> HIDE DEF r, u, v
  <2>6. u = v \/ (u = p /\ IsPrefix(v, p))
    <3>1. CASE step.op = "allocate" \/ x.used = y.used
      BY <1>1, <2>2, <2>3, <3>1
    <3>2. CASE step.op # "allocate" /\ x.used = p /\ IsPrefix(y.used, p)
      <4>1. u = Listed(p, r) /\ v = Listed(y.used, r) /\ r \in InlineRegs
        BY <2>2, <2>3, <2>4, <3>2
      <4>2. CASE r \in Range(y.used)
        <5>1. v = y.used
          BY <4>1, <4>2 DEF Listed
        <5>2. r \in Range(p)
          <6>1. PICK i \in 1 .. Len(y.used) : r = y.used[i]
            BY <1>1, <4>2 DEF Range
          <6>2. Len(y.used) <= Len(p) /\ y.used[i] = p[i] /\ Len(y.used) \in Nat /\ Len(p) \in Nat
            BY <1>1, <3>2, PrefixAt, LenProperties
          <6>3. i \in DOMAIN p
            BY <6>1, <6>2
          <6> QED
            BY <6>1, <6>2, <6>3 DEF Range
        <5>3. u = p
          BY <4>1, <5>2 DEF Listed
        <5> QED
          BY <3>2, <5>1, <5>3
      <4>3. CASE r \notin Range(y.used)
        <5>1. v = Append(y.used, r)
          BY <4>1, <4>3 DEF Listed
        <5>2. y.used = p \/ (r \in Range(p) /\ IsPrefix(Append(y.used, r), p))
          BY <1>1, <2>5, <3>2, <4>1, <5>1, PrefixGrows
        <5>3. r \in Range(p) => u = p
          BY <4>1 DEF Listed
        <5> QED
          BY <4>1, <5>1, <5>2, <5>3
      <4> QED
        BY <4>2, <4>3
    <3> QED
      BY <1>1, <3>1, <3>2
  <2>7. /\ AloneStep(x, step).held = AloneStep(y, step).held
        /\ AloneStep(x, step).named = AloneStep(y, step).named
    BY <1>1, <2>2, <2>3
  <2> QED
    BY <1>3, <2>6, <2>7 DEF Alike, u, v
<1>5. CASE step.op = "drop"
  <2> DEFINE g == RemoveAt(x.held, Position(x.held, step))
             n == x.named
  <2>1. /\ AloneStep(x, step) = [held |-> g, named |-> n, used |-> x.used]
        /\ AloneStep(y, step) = [held |-> g, named |-> n, used |-> y.used]
    BY <1>1, <1>5, AloneSteps
  <2> HIDE DEF g, n
  <2> QED
    BY <1>1, <1>3, <2>1 DEF Alike
<1>6. CASE step.op = "reset"
  <2>1. x.used = y.used
    BY <1>1, <1>6, PrefixBoth
  <2> DEFINE g == x.held
             n == x.named \o x.used
  <2>2. /\ AloneStep(x, step) = [held |-> g, named |-> n, used |-> <<>>]
        /\ AloneStep(y, step) = [held |-> g, named |-> n, used |-> <<>>]
    BY <1>1, <1>6, <2>1, AloneSteps
  <2> HIDE DEF g, n
  <2> QED
    BY <1>3, <2>2 DEF Alike
<1> QED
  BY <1>1, <1>4, <1>5, <1>6

\* The tracer names what the bytecode names: the advice builder before the sequence
\* changes neither the registers it takes nor those it zeroes.
LEMMA NamesAgree ==
    ASSUME NEW s \in Instruction
    PROVE  AloneFrom(Traced(s))[Len(Traced(s))].named = Alone(s)
<1> DEFINE t == Traced(s)
           d == Decoded(s)
           a == AloneFrom(t)
           b == AloneFrom(d)
           m == Len(RemapFirst(s))
           k == Len(s.advice)
           p == a[m + k].used
<1>1. /\ m \in Nat /\ k \in Nat /\ Len(d) \in Nat /\ Len(d) >= m /\ Len(t) = Len(d) + k
      /\ d \in Seq(Steps) /\ t \in Seq(Steps)
      /\ \A i \in 1 .. m : t[i] = d[i]
      /\ \A i \in 1 .. k : t[m + i] = s.advice[i] /\ s.advice[i] \in AdviceStep
      /\ \A i \in m + 1 .. Len(d) : d[i] \in SequenceStep /\ t[i + k] = d[i]
  BY StepsOf
<1>2. /\ a[0] = Nothing /\ \A i \in 0 .. Len(t) : a[i] \in AloneState
      /\ \A i \in 1 .. Len(t) : t[i] \in Steps /\ Fits(a[i - 1], t[i]) /\ a[i] = AloneStep(a[i - 1], t[i])
  BY AloneFacts
<1>3. b[0] = Nothing /\ \A i \in 1 .. Len(d) : b[i] = AloneStep(b[i - 1], d[i])
  BY <1>1, AloneUnfolds
<1>4. /\ a[m + k].held = a[m].held
      /\ \A i \in m .. Len(d) : IsPrefix(b[i].used, p) \/ IsPrefix(p, b[i].used)
      /\ \A i \in m + 1 .. Len(d) : d[i].op = "reset" => IsPrefix(p, b[i - 1].used)
  BY AdviceAssumption
<1>5. Alone(s) = b[Len(d)].named
  BY DEF Alone
<1>6. m = 0 \/ (m = 1 /\ d[1].op = "allocate")
  <2>1. CASE s.remapped
    <3> DEFINE step == [op |-> "allocate", guard |-> 0]
    <3>1. RemapFirst(s) = <<step>> /\ step.op = "allocate"
      BY <2>1 DEF RemapFirst
    <3>2. d = <<step>> \o Sequence(s)
      BY <3>1 DEF Decoded
    <3>3. s.sequence \in Seq(SequenceStep) /\ RemapLast(s) \in Seq(SequenceStep)
      <4>1. [op |-> "drop", guard |-> 1] \in SequenceStep
        BY DEF SequenceStep, Step
      <4> QED
        BY <4>1, PoolAssumption DEF RemapLast
    <3>4. Sequence(s) \in Seq(SequenceStep) /\ step \in SequenceStep
      BY <3>3, ConcatProperties DEF Sequence, SequenceStep, Step
    <3> HIDE DEF step, d
    <3>5. d[1] = step
      BY <3>2, <3>4
    <3> QED
      BY <3>1, <3>5
  <2>2. CASE ~s.remapped
    BY <2>2 DEF RemapFirst
  <2> QED
    BY <2>1, <2>2
<1> HIDE DEF t, d, a, b, m, k, p
<1>7. a[m] = b[m] /\ a[m].used = <<>>
  <2>1. Nothing.used = <<>>
    BY DEF Nothing
  <2>2. CASE m = 0
    BY <1>2, <1>3, <2>1, <2>2
  <2>3. CASE m = 1
    <3> DEFINE step == d[1]
    <3>1. 1 \in 1 .. Len(d) /\ 1 \in 1 .. Len(t) /\ 1 \in 1 .. m /\ 1 - 1 = 0 /\ step.op = "allocate"
      BY <1>1, <1>6, <2>3
    <3>2. a[1] = AloneStep(Nothing, step) /\ b[1] = AloneStep(Nothing, step) /\ step \in Steps
      BY <1>1, <1>2, <1>3, <3>1
    <3> HIDE DEF step
    <3> DEFINE r == Min(Pool(step.op) \ Range(Nothing.held))
    <3>3. r = Min(Pool(step.op) \ Range(Nothing.held))
      OBVIOUS
    <3> HIDE DEF r
    <3>4. AloneStep(Nothing, step).used = Nothing.used
      BY <3>1, <3>2, <3>3, NothingType, AloneTakes DEF Taking
    <3> QED
      BY <2>1, <2>3, <3>2, <3>4
  <2> QED
    BY <1>6, <2>2, <2>3
<1>8. a[m + k].named = a[m].named
  <2> DEFINE S == {n \in Nat : n <= k => a[m + n].named = a[m].named}
  <2>1. 0 \in S
    BY <1>1
  <2>2. ASSUME NEW n \in Nat, n \in S PROVE n + 1 \in S
    <3>1. SUFFICES ASSUME n + 1 <= k PROVE a[m + (n + 1)].named = a[m].named
      OBVIOUS
    <3> DEFINE i == m + (n + 1)
               st == a[m + n]
               step == t[i]
    <3>2. i \in 1 .. Len(t) /\ i - 1 = m + n /\ m + n \in 0 .. Len(t) /\ n + 1 \in 1 .. k /\ n <= k
      BY <1>1, <3>1
    <3>3. a[i] = AloneStep(st, step) /\ Fits(st, step) /\ st \in AloneState /\ step \in AdviceStep
          /\ st.named = a[m].named
      BY <1>1, <1>2, <2>2, <3>2
    <3> HIDE DEF i, st, step
    <3>4. step \in Steps /\ step.op \in {"allocate_for_advice", "drop"}
      BY <3>3, StepKinds
    <3>5. AloneStep(st, step).named = st.named
      <4>1. CASE step.op = "drop"
        <5> DEFINE g == RemoveAt(st.held, Position(st.held, step))
        <5>1. AloneStep(st, step) = [held |-> g, named |-> st.named, used |-> st.used]
          BY <3>3, <3>4, <4>1, AloneSteps
        <5> HIDE DEF g
        <5> QED
          BY <5>1
      <4>2. CASE step.op = "allocate_for_advice"
        <5> DEFINE r == Min(Pool(step.op) \ Range(st.held))
        <5>1. ~(Pool(step.op) \subseteq Range(st.held)) /\ step.op \in Taking
          BY <3>3, <4>2 DEF Fits, Pool, Taking
        <5>2. r \in Regs
          BY <5>1, Registers
        <5>3. AloneStep(st, step).named = st.named \o Named(step.op, r)
          BY <3>3, <3>4, <5>1, AloneTakes
        <5> HIDE DEF r
        <5>4. st.named \in Seq(Regs)
          BY <3>3 DEF AloneState
        <5> QED
          BY <4>2, <5>2, <5>3, <5>4, NamedType
      <4> QED
        BY <3>4, <4>1, <4>2
    <3> QED
      BY <3>3, <3>5 DEF i
  <2> HIDE DEF S
  <2>3. \A n \in Nat : n \in S
    BY <2>1, <2>2, NatSetInduction
  <2> QED
    BY <1>1, <2>3 DEF S
<1>9. p = a[m + k].used /\ p \in Seq(InlineRegs)
  <2>1. m + k \in 0 .. Len(t)
    BY <1>1
  <2>2. a[m + k] \in AloneState
    BY <1>2, <2>1
  <2> QED
    BY <2>2 DEF AloneState, p
<1> DEFINE S == {n \in Nat : m + n <= Len(d) => Alike(a[m + n + k], b[m + n], p) /\ b[m + n] \in AloneState}
<1>10. 0 \in S
  <2>1. IsPrefix(<<>>, p)
    BY <1>9, PrefixFacts
  <2>2. a[m] \in AloneState /\ m + 0 = m /\ m + 0 + k = m + k
    BY <1>1, <1>2
  <2>3. Alike(a[m + k], b[m], p)
    BY <1>4, <1>7, <1>8, <1>9, <2>1 DEF Alike
  <2> QED
    BY <1>7, <2>2, <2>3
<1>11. ASSUME NEW n \in Nat, n \in S PROVE n + 1 \in S
  <2>1. SUFFICES ASSUME m + (n + 1) <= Len(d)
                 PROVE  Alike(a[m + (n + 1) + k], b[m + (n + 1)], p) /\ b[m + (n + 1)] \in AloneState
    OBVIOUS
  <2> DEFINE i == m + (n + 1)
             x == a[m + n + k]
             y == b[m + n]
             step == d[i]
  <2>2. /\ i \in m + 1 .. Len(d) /\ i \in m .. Len(d) /\ i \in 1 .. Len(d) /\ i - 1 = m + n
        /\ i + k \in 1 .. Len(t) /\ (i + k) - 1 = m + n + k /\ m + n + k \in 0 .. Len(t)
        /\ m + (n + 1) + k = i + k
    <3>1. /\ m \in Nat /\ k \in Nat /\ n \in Nat /\ Len(d) \in Nat /\ Len(t) = Len(d) + k
          /\ m + (n + 1) <= Len(d)
      BY <1>1, <2>1
    <3> DEFINE lt == Len(t)
               ld == Len(d)
    <3> HIDE DEF lt, ld
    <3>2. /\ m \in Nat /\ k \in Nat /\ n \in Nat /\ ld \in Nat /\ lt = ld + k /\ m + (n + 1) <= ld
      BY <3>1 DEF lt, ld
    <3>3. /\ i \in m + 1 .. ld /\ i \in m .. ld /\ i \in 1 .. ld /\ i - 1 = m + n
          /\ m + (n + 1) + k = i + k
      BY <3>2
    <3>4. i + k \in 1 .. lt /\ (i + k) - 1 = m + n + k /\ m + n + k \in 0 .. lt
      BY <3>2
    <3> QED
      BY <3>3, <3>4 DEF lt, ld
  <2>3. Alike(x, y, p) /\ y \in AloneState
    BY <1>1, <1>11, <2>1
  <2>4. x \in AloneState /\ step \in SequenceStep /\ a[i + k] = AloneStep(x, step) /\ Fits(x, step)
    BY <1>1, <1>2, <2>2
  <2>5. b[i] = AloneStep(y, step)
    BY <1>3, <2>2
  <2>6. IsPrefix(b[i].used, p) \/ IsPrefix(p, b[i].used)
    BY <1>4, <2>2
  <2>7. step.op = "reset" => IsPrefix(p, y.used)
    BY <1>4, <2>2
  <2> HIDE DEF i, x, y, step
  <2>8. LET used == AloneStep(y, step).used IN IsPrefix(used, p) \/ IsPrefix(p, used)
    BY <2>5, <2>6
  <2>9. Alike(AloneStep(x, step), AloneStep(y, step), p) /\ AloneStep(y, step) \in AloneState
    BY <1>9, <2>3, <2>4, <2>7, <2>8, AlikeStep
  <2> QED
    BY <2>2, <2>4, <2>5, <2>9 DEF i
<1> HIDE DEF S
<1>12. \A n \in Nat : n \in S
  BY <1>10, <1>11, NatSetInduction
<1>13. Alike(a[Len(t)], b[Len(d)], p)
  <2> DEFINE n == Len(d) - m
  <2>1. n \in Nat /\ m + n = Len(d) /\ m + n + k = Len(t)
    BY <1>1
  <2> HIDE DEF n
  <2> QED
    BY <1>12, <2>1 DEF S
<1> QED
  BY <1>5, <1>13 DEF Alike, t, d, a, b

----------------------------------------------------------------------------
(* The inductive invariant. *)

\* The steps an emulator has taken of its expansion, and where the expansion by
\* itself would be.
Done(e) == Len(Traced(h_instr[e])) - Len(todo[e])
State(e) == AloneFrom(Traced(h_instr[e]))[Done(e)]

History ==
    /\ h_instr \in [Emulator -> Instruction \cup {NoInstruction}]
    /\ h_done \in [Emulator -> Seq(Instruction \X Seq(Regs))]
    /\ h_overlap \in BOOLEAN

\* What is left to do is the rest of the expansion, and there are as many guards
\* as there would be by itself.
UnderWay(e) ==
    /\ h_instr[e] \in Instruction
    /\ Done(e) \in 0 .. Len(Traced(h_instr[e])) - 1
    /\ \A j \in 1 .. Len(todo[e]) : todo[e][j] = Traced(h_instr[e])[Done(e) + j]
    /\ Len(held[e]) = Len(State(e).held)

Progress ==
    \A e \in Emulator :
        IF e \in panicked \/ todo[e] = <<>> THEN held[e] = <<>> ELSE UnderWay(e)

\* As long as the emulators take turns, the one under way is where it would be by
\* itself.
Turns ==
    ~h_overlap =>
        /\ panicked = {}
        /\ \A e, f \in Emulator : todo[e] # <<>> /\ todo[f] # <<>> => e = f
        /\ \A e \in Emulator : todo[e] # <<>> =>
             held[e] = State(e).held /\ named[e] = State(e).named /\ pending = State(e).used
        /\ (\A e \in Emulator : todo[e] = <<>>) => pending = <<>>
        /\ ExpansionMatchesBytecode

AllocInv == TypeOK /\ History /\ OneGuardPerRegister /\ Progress /\ Turns

\* An emulator about to take a step of its expansion.
LEMMA Ready ==
    ASSUME AllocInv, NEW e \in Emulator, NEW op, Running(e, op)
    PROVE  /\ h_instr[e] \in Instruction /\ Done(e) \in Nat
           /\ Done(e) + 1 \in 1 .. Len(Traced(h_instr[e]))
           /\ State(e) \in AloneState
           /\ Head(todo[e]) \in Steps /\ Head(todo[e]).op = op /\ Fits(State(e), Head(todo[e]))
           /\ AloneFrom(Traced(h_instr[e]))[Done(e) + 1] = AloneStep(State(e), Head(todo[e]))
           /\ Len(todo[e]) = Len(Traced(h_instr[e])) - Done(e)
           /\ Len(held[e]) = Len(State(e).held)
           /\ todo[e] \in Seq(Steps) /\ todo[e] # <<>>
<1> DEFINE s == Traced(h_instr[e])
           k == Done(e)
<1>1. /\ todo[e] \in Seq(Steps) /\ todo[e] # <<>> /\ e \notin panicked
      /\ Head(todo[e]).op = op /\ UnderWay(e)
  BY DEF AllocInv, TypeOK, Progress, Running
<1>2. Len(todo[e]) \in Nat /\ Len(todo[e]) # 0 /\ Head(todo[e]) = todo[e][1]
  BY <1>1, HeadAndTail, EmptySeq, LenProperties
<1>3. h_instr[e] \in Instruction /\ k \in 0 .. Len(s) - 1 /\ Len(s) \in Nat
  BY <1>1, AloneFacts DEF UnderWay
<1>4. Len(todo[e]) = Len(s) - k
  BY <1>2, <1>3 DEF Done
<1>6. Head(todo[e]) = s[k + 1]
  <2>1. 1 \in 1 .. Len(todo[e])
    BY <1>2
  <2> QED
    BY <1>1, <1>2, <2>1 DEF UnderWay
<1>7. /\ \A i \in 0 .. Len(s) : AloneFrom(s)[i] \in AloneState
      /\ \A i \in 1 .. Len(s) :
           s[i] \in Steps /\ Fits(AloneFrom(s)[i - 1], s[i]) /\ AloneFrom(s)[i] = AloneStep(AloneFrom(s)[i - 1], s[i])
  BY <1>3, AloneFacts
<1>8. State(e) = AloneFrom(s)[k]
  BY DEF State
<1> HIDE DEF s, k
<1>5. k \in Nat /\ k + 1 \in 1 .. Len(s) /\ k \in 0 .. Len(s) /\ (k + 1) - 1 = k
  BY <1>3
<1>9. /\ AloneFrom(s)[k] \in AloneState /\ s[k + 1] \in Steps /\ Fits(AloneFrom(s)[k], s[k + 1])
      /\ AloneFrom(s)[k + 1] = AloneStep(AloneFrom(s)[k], s[k + 1])
  BY <1>5, <1>7
<1>10. Len(held[e]) = Len(State(e).held)
  BY <1>1 DEF UnderWay
<1> QED
  BY <1>1, <1>3, <1>4, <1>5, <1>6, <1>8, <1>9, <1>10 DEF s, k

\* A step of the expansion, up to the state of the allocator.
LEMMA ProceedKeeps ==
    ASSUME AllocInv, NEW e \in Emulator, NEW op, Running(e, op), NEW reg \in Seq(Regs), Proceed(e, reg),
           h_instr' = h_instr, panicked' = panicked, h_overlap' = h_overlap,
           held' \in [Emulator -> Seq(Regs)], \A f \in Emulator \ {e} : held'[f] = held[f],
           Len(held'[e]) = Len(AloneStep(State(e), Head(todo[e])).held)
    PROVE  /\ todo' \in [Emulator -> Seq(Steps)] /\ named' \in [Emulator -> Seq(Regs)]
           /\ History' /\ Progress'
           /\ todo'[e] = Tail(todo[e]) /\ named'[e] = named[e] \o reg
           /\ \A f \in Emulator \ {e} : todo'[f] = todo[f] /\ named'[f] = named[f]
           /\ todo'[e] # <<>> <=> Len(todo[e]) > 1
           /\ todo'[e] # <<>> => State(e)' = AloneStep(State(e), Head(todo[e]))
<1> DEFINE s == Traced(h_instr[e])
           k == Done(e)
<1>1. /\ h_instr[e] \in Instruction /\ k \in Nat /\ k + 1 \in 1 .. Len(s) /\ Len(todo[e]) = Len(s) - k
      /\ AloneFrom(s)[k + 1] = AloneStep(State(e), Head(todo[e])) /\ todo[e] \in Seq(Steps) /\ todo[e] # <<>>
      /\ e \notin panicked
  BY Ready DEF Running
<1>2. /\ todo \in [Emulator -> Seq(Steps)] /\ named \in [Emulator -> Seq(Regs)]
      /\ h_done \in [Emulator -> Seq(Instruction \X Seq(Regs))] /\ h_overlap \in BOOLEAN
      /\ h_instr \in [Emulator -> Instruction \cup {NoInstruction}]
  BY DEF AllocInv, TypeOK, History, Regs
<1>3. Len(s) \in Nat /\ AloneFrom(s)[Len(s)].held = <<>>
  BY <1>1, AloneFacts
<1>4. /\ Tail(todo[e]) \in Seq(Steps) /\ Len(Tail(todo[e])) = Len(todo[e]) - 1
      /\ \A i \in 1 .. Len(Tail(todo[e])) : Tail(todo[e])[i] = todo[e][i + 1]
  BY <1>1, HeadAndTail, Zenon
<1>5. todo' = [todo EXCEPT ![e] = Tail(todo[e])] /\ named' = [named EXCEPT ![e] = named[e] \o reg]
  BY DEF Proceed
<1>6. named[e] \o reg \in Seq(Regs)
  BY <1>2, ConcatProperties
<1>7. /\ todo' \in [Emulator -> Seq(Steps)] /\ named' \in [Emulator -> Seq(Regs)]
      /\ todo'[e] = Tail(todo[e]) /\ named'[e] = named[e] \o reg
      /\ \A f \in Emulator \ {e} : todo'[f] = todo[f] /\ named'[f] = named[f]
  BY <1>2, <1>4, <1>5, <1>6
<1>8. History'
  <2>1. CASE Len(todo[e]) > 1
    BY <1>2, <2>1 DEF Proceed, History
  <2>2. CASE ~(Len(todo[e]) > 1)
    <3> DEFINE d == <<h_instr[e], named[e] \o reg>>
    <3>1. d \in Instruction \X Seq(Regs)
      BY <1>1, <1>6
    <3>2. h_done' = [h_done EXCEPT ![e] = Append(@, d)]
      BY <2>2 DEF Proceed
    <3> HIDE DEF d
    <3>3. Append(h_done[e], d) \in Seq(Instruction \X Seq(Regs))
      BY <1>2, <3>1, AppendProperties
    <3>4. h_done' \in [Emulator -> Seq(Instruction \X Seq(Regs))]
      BY <1>2, <3>2, <3>3
    <3> QED
      BY <1>2, <3>4 DEF History
  <2> QED
    BY <2>1, <2>2
<1>9. todo'[e] # <<>> <=> Len(todo[e]) > 1
  <2>1. Len(todo'[e]) = Len(todo[e]) - 1 /\ Len(todo[e]) \in Nat
    BY <1>1, <1>4, <1>7, LenProperties
  <2>2. todo'[e] = <<>> <=> Len(todo'[e]) = 0
    BY <1>4, <1>7, EmptySeq
  <2>3. Len(todo[e]) >= 1
    BY <1>1, <1>3
  <2> QED
    BY <2>1, <2>2, <2>3
<1> HIDE DEF s, k
<1>10. Done(e)' = k + 1 /\ State(e)' = AloneStep(State(e), Head(todo[e]))
  <2>1. Len(todo'[e]) = Len(todo[e]) - 1
    BY <1>4, <1>7
  <2>2. Done(e)' = Len(s) - Len(todo'[e])
    BY DEF Done, s
  <2>3. Done(e)' = k + 1
    BY <1>1, <1>3, <2>1, <2>2
  <2> QED
    BY <1>1, <2>3 DEF State, s
<1>11. ASSUME NEW f \in Emulator
       PROVE  (IF f \in panicked \/ todo[f] = <<>> THEN held[f] = <<>> ELSE UnderWay(f))'
  <2>1. CASE f # e
    <3>1. todo'[f] = todo[f] /\ held'[f] = held[f] /\ h_instr' = h_instr /\ panicked' = panicked
      BY <1>7, <2>1
    <3>2. Done(f)' = Done(f) /\ State(f)' = State(f)
      BY <3>1 DEF Done, State
    <3>3. UnderWay(f)' = UnderWay(f)
      BY <3>1, <3>2 DEF UnderWay
    <3>4. IF f \in panicked \/ todo[f] = <<>> THEN held[f] = <<>> ELSE UnderWay(f)
      BY DEF AllocInv, Progress
    <3> QED
      BY <3>1, <3>3, <3>4
  <2>2. CASE f = e /\ todo'[e] = <<>>
    <3>1. k + 1 = Len(s)
      BY <1>1, <1>3, <1>9, <2>2
    <3>2. Len(held'[e]) = 0
      <4>1. Len(<<>>) = 0
        OBVIOUS
      <4> QED
        BY <1>1, <1>3, <3>1, <4>1
    <3>3. held'[e] = <<>>
      BY <3>2, EmptySeq
    <3> QED
      BY <2>2, <3>3
  <2>3. CASE f = e /\ todo'[e] # <<>>
    <3>1. Len(todo[e]) > 1 /\ Len(todo[e]) = Len(s) - k
      BY <1>1, <1>9, <2>3
    <3>2. k + 1 \in 0 .. Len(s) - 1
      BY <1>1, <1>3, <3>1
    <3>3. ASSUME NEW j \in 1 .. Len(todo'[e]) PROVE todo'[e][j] = s[(k + 1) + j]
      <4>1. todo'[e][j] = todo[e][j + 1]
        BY <1>4, <1>7
      <4>2. j + 1 \in 1 .. Len(todo[e]) /\ k + (j + 1) = (k + 1) + j
        BY <1>1, <1>3, <1>4, <1>7, SMTT(30)
      <4>3. UnderWay(e)
        BY <1>1 DEF AllocInv, Progress
      <4> QED
        BY <4>1, <4>2, <4>3 DEF UnderWay, s, k
    <3>4. UnderWay(e)'
      BY <1>1, <1>10, <3>2, <3>3 DEF UnderWay, s
    <3> QED
      BY <1>1, <2>3, <3>4
  <2> QED
    BY <2>1, <2>2, <2>3
<1>12. Progress'
  BY <1>11 DEF Progress
<1> QED
  BY <1>7, <1>8, <1>9, <1>10, <1>12

\* A step of an expansion whose turn it is.
LEMMA TurnsProceed ==
    ASSUME AllocInv, NEW e \in Emulator, NEW op, Running(e, op), NEW reg \in Seq(Regs), Proceed(e, reg),
           h_instr' = h_instr, panicked' = panicked, h_overlap' = h_overlap,
           held' \in [Emulator -> Seq(Regs)], \A f \in Emulator \ {e} : held'[f] = held[f],
           Len(held'[e]) = Len(AloneStep(State(e), Head(todo[e])).held),
           ~h_overlap => /\ held'[e] = AloneStep(State(e), Head(todo[e])).held
                         /\ named[e] \o reg = AloneStep(State(e), Head(todo[e])).named
                         /\ pending' = AloneStep(State(e), Head(todo[e])).used
    PROVE  Turns'
<1> SUFFICES ASSUME ~h_overlap PROVE Turns'
  BY DEF Turns
<1>1. /\ todo'[e] = Tail(todo[e]) /\ named'[e] = named[e] \o reg
      /\ \A f \in Emulator \ {e} : todo'[f] = todo[f] /\ named'[f] = named[f]
      /\ todo'[e] # <<>> <=> Len(todo[e]) > 1
      /\ todo'[e] # <<>> => State(e)' = AloneStep(State(e), Head(todo[e]))
  <2>1. /\ AllocInv /\ e \in Emulator /\ Running(e, op) /\ reg \in Seq(Regs) /\ Proceed(e, reg)
        /\ h_instr' = h_instr /\ panicked' = panicked /\ h_overlap' = h_overlap
        /\ held' \in [Emulator -> Seq(Regs)] /\ \A f \in Emulator \ {e} : held'[f] = held[f]
        /\ Len(held'[e]) = Len(AloneStep(State(e), Head(todo[e])).held)
    OBVIOUS
  <2>2. todo'[e] = Tail(todo[e])
    BY <2>1, ProceedKeeps, Zenon
  <2>3. named'[e] = named[e] \o reg
    BY DEF Proceed, AllocInv, TypeOK
  <2>4. todo'[e] # <<>> <=> Len(todo[e]) > 1
    BY <2>1, ProceedKeeps, Zenon
  <2>5. todo'[e] # <<>> => State(e)' = AloneStep(State(e), Head(todo[e]))
    BY <2>1, ProceedKeeps, Zenon
  <2>6. \A f \in Emulator \ {e} : todo'[f] = todo[f] /\ named'[f] = named[f]
    BY <2>1, ProceedKeeps, Zenon
  <2> QED
    BY <2>2, <2>3, <2>4, <2>5, <2>6
<1>2. /\ h_instr[e] \in Instruction /\ Done(e) \in Nat /\ Done(e) + 1 \in 1 .. Len(Traced(h_instr[e]))
      /\ AloneFrom(Traced(h_instr[e]))[Done(e) + 1] = AloneStep(State(e), Head(todo[e]))
      /\ Len(todo[e]) = Len(Traced(h_instr[e])) - Done(e) /\ todo[e] # <<>>
  BY Ready
<1>3. /\ panicked = {} /\ \A f \in Emulator \ {e} : todo[f] = <<>>
      /\ ExpansionMatchesBytecode
  BY <1>2 DEF AllocInv, Turns
<1>4. \A f \in Emulator \ {e} : todo'[f] = <<>>
  BY <1>1, <1>3
<1>5. CASE todo'[e] # <<>>
  <2>1. h_done' = h_done
    BY <1>1, <1>5 DEF Proceed
  <2>2. ExpansionMatchesBytecode'
    BY <1>3, <2>1 DEF ExpansionMatchesBytecode
  <2>3. held'[e] = State(e)'.held /\ named'[e] = State(e)'.named /\ pending' = State(e)'.used
    BY <1>1, <1>5
  <2> QED
    BY <1>3, <1>4, <1>5, <2>2, <2>3 DEF Turns
<1>6. CASE todo'[e] = <<>>
  <2> DEFINE d == <<h_instr[e], named[e] \o reg>>
  <2>0. AloneFrom(Traced(h_instr[e]))[Len(Traced(h_instr[e]))] = AloneStep(State(e), Head(todo[e]))
    <3>1. Len(Traced(h_instr[e])) \in Nat
      BY <1>2, AloneFacts
    <3>2. ~(Len(todo[e]) > 1)
      BY <1>1, <1>6
    <3>3. Done(e) + 1 = Len(Traced(h_instr[e]))
      BY <1>2, <3>1, <3>2
    <3> QED
      BY <1>2, <3>3
  <2>1. h_done' = [h_done EXCEPT ![e] = Append(@, d)] /\ pending' = <<>>
    <3>1. pending' = <<>>
      BY <1>2, <2>0, AloneFacts
    <3> QED
      BY <1>1, <1>6, <3>1 DEF Proceed
  <2>2. d[2] = Alone(d[1])
    BY <1>2, <2>0, NamesAgree
  <2>3. d \in Instruction \X Seq(Regs)
    <3>1. named[e] \o reg \in Seq(Regs)
      BY ConcatProperties DEF AllocInv, TypeOK, Regs
    <3> QED
      BY <1>2, <3>1
  <2> HIDE DEF d
  <2>4. ExpansionMatchesBytecode'
    <3>1. h_done \in [Emulator -> Seq(Instruction \X Seq(Regs))]
      BY DEF AllocInv, History
    <3>2. ASSUME NEW f \in Emulator, NEW i \in DOMAIN h_done'[f]
          PROVE  h_done'[f][i][2] = Alone(h_done'[f][i][1])
      <4>1. CASE f # e
        BY <1>3, <2>1, <3>1, <3>2, <4>1 DEF ExpansionMatchesBytecode
      <4>2. CASE f = e
        <5>1. h_done'[f] = Append(h_done[e], d) /\ h_done[e] \in Seq(Instruction \X Seq(Regs))
          BY <2>1, <3>1, <4>2
        <5>2. CASE i \in DOMAIN h_done[e]
          <6>1. h_done'[f][i] = h_done[e][i]
            BY <5>1, <5>2
          <6> QED
            BY <1>3, <5>2, <6>1 DEF ExpansionMatchesBytecode
        <5>3. CASE i \notin DOMAIN h_done[e]
          <6>1. i = Len(h_done[e]) + 1 /\ h_done'[f][i] = d
            BY <3>2, <5>1, <5>3
          <6> QED
            BY <2>2, <6>1
        <5> QED
          BY <5>2, <5>3
      <4> QED
        BY <4>1, <4>2
    <3> QED
      BY <3>2 DEF ExpansionMatchesBytecode
  <2> QED
    BY <1>3, <1>4, <1>6, <2>1, <2>4 DEF Turns
<1> QED
  BY <1>5, <1>6

----------------------------------------------------------------------------
(* The guards. *)

\* A register is allocated when somebody has a guard of it.
LEMMA Flags ==
    ASSUME OneGuardPerRegister, NEW r
    PROVE  r \in allocated <=> \E e \in Emulator : r \in Range(held[e])
BY DEF OneGuardPerRegister

\* A guard of a register that was free.
LEMMA GuardTaken ==
    ASSUME TypeOK, OneGuardPerRegister, NEW e \in Emulator, NEW r \in Regs, r \notin allocated,
           allocated' = allocated \cup {r}, held' = [held EXCEPT ![e] = Append(@, r)]
    PROVE  /\ OneGuardPerRegister' /\ held' \in [Emulator -> Seq(Regs)] /\ held'[e] = Append(held[e], r)
           /\ \A f \in Emulator \ {e} : held'[f] = held[f]
<1>1. held \in [Emulator -> Seq(Regs)]
  BY DEF TypeOK, Regs
<1>2. Append(held[e], r) \in Seq(Regs)
  BY <1>1, AppendProperties
<1>3. /\ held' \in [Emulator -> Seq(Regs)] /\ held'[e] = Append(held[e], r)
      /\ \A f \in Emulator \ {e} : held'[f] = held[f]
  BY <1>1, <1>2
<1>4. Range(held'[e]) = Range(held[e]) \cup {r}
  BY <1>1, <1>3, RangeFacts
<1>5. \A f \in Emulator : r \notin Range(held[f])
  BY Flags
<1>6. IsInjective(held'[e])
  <2>1. held[e] \in Seq(Regs) /\ IsInjective(held[e]) /\ r \notin Range(held[e])
    BY <1>1, <1>5 DEF OneGuardPerRegister
  <2>2. \A i \in DOMAIN held[e] : held[e][i] # r
    BY <2>1 DEF Range
  <2> QED
    BY <1>3, <2>1, <2>2 DEF IsInjective
<1>7. \A f \in Emulator : IsInjective(held'[f])
  BY <1>3, <1>6 DEF OneGuardPerRegister
<1>8. \A f, g \in Emulator : f # g => Range(held'[f]) \cap Range(held'[g]) = {}
  BY <1>3, <1>4, <1>5 DEF OneGuardPerRegister
<1>9. allocated' = UNION {Range(held'[f]) : f \in Emulator}
  BY <1>3, <1>4 DEF OneGuardPerRegister
<1> QED
  BY <1>3, <1>7, <1>8, <1>9 DEF OneGuardPerRegister

\* A guard dropped: its register is free, and those of the other guards are not.
LEMMA GuardDropped ==
    ASSUME TypeOK, OneGuardPerRegister, NEW e \in Emulator, NEW k \in 1 .. Len(held[e]),
           allocated' = allocated \ {held[e][k]}, held' = [held EXCEPT ![e] = RemoveAt(@, k)]
    PROVE  /\ OneGuardPerRegister' /\ held' \in [Emulator -> Seq(Regs)]
           /\ held'[e] = RemoveAt(held[e], k)
           /\ \A f \in Emulator \ {e} : held'[f] = held[f]
<1> DEFINE h == held[e]
           g == RemoveAt(h, k)
           r == h[k]
<1>1. held \in [Emulator -> Seq(Regs)] /\ h \in Seq(Regs) /\ IsInjective(h) /\ k \in 1 .. Len(h)
  BY DEF TypeOK, Regs, OneGuardPerRegister
<1>2. /\ g \in Seq(Regs) /\ Len(g) = Len(h) - 1 /\ Len(h) \in Nat /\ r \in Regs
      /\ \A i \in 1 .. Len(h) - 1 : g[i] = IF i < k THEN h[i] ELSE h[i + 1]
  BY <1>1, RemoveFacts, Zenon
<1>3. /\ held' \in [Emulator -> Seq(Regs)] /\ held'[e] = g
      /\ \A f \in Emulator \ {e} : held'[f] = held[f]
  BY <1>1, <1>2
<1>0. r = h[k]
  OBVIOUS
<1> HIDE DEF h, g, r
<1>4. DOMAIN h = 1 .. Len(h) /\ DOMAIN g = 1 .. Len(h) - 1 /\ k \in Nat /\ k >= 1 /\ k <= Len(h)
  BY <1>1, <1>2
<1> DEFINE At(i) == IF i < k THEN i ELSE i + 1
<1>5. ASSUME NEW i \in 1 .. Len(h) - 1
      PROVE  g[i] = h[At(i)] /\ At(i) \in 1 .. Len(h) /\ At(i) # k
  <2>1. CASE i < k
    <3>1. At(i) = i /\ i \in 1 .. Len(h) /\ i # k
      BY <1>2, <1>4, <2>1
    <3> QED
      BY <1>2, <2>1, <3>1
  <2>2. CASE ~(i < k)
    <3>1. At(i) = i + 1 /\ i + 1 \in 1 .. Len(h) /\ i + 1 # k
      BY <1>2, <1>4, <2>2
    <3> QED
      BY <1>2, <2>2, <3>1
  <2> QED
    BY <2>1, <2>2
<1>6. ASSUME NEW i \in 1 .. Len(h), i # k PROVE \E j \in 1 .. Len(h) - 1 : At(j) = i
  <2>1. CASE i < k
    <3>1. i \in 1 .. Len(h) - 1
      BY <1>2, <1>4, <2>1
    <3> QED
      BY <2>1, <3>1
  <2>2. CASE ~(i < k)
    <3>1. i - 1 \in 1 .. Len(h) - 1 /\ ~(i - 1 < k) /\ (i - 1) + 1 = i
      BY <1>2, <1>4, <1>6, <2>2
    <3> QED
      BY <3>1
  <2> QED
    BY <2>1, <2>2
<1>7. \A i, j \in 1 .. Len(h) - 1 : At(i) = At(j) => i = j
  <2>1. ASSUME NEW i \in 1 .. Len(h) - 1, NEW j \in 1 .. Len(h) - 1, At(i) = At(j) PROVE i = j
    BY <1>2, <1>4, <2>1
  <2> QED
    BY <2>1
<1> HIDE DEF At
<1>8. Range(g) = Range(h) \ {r}
  <2>1. ASSUME NEW i \in 1 .. Len(h) - 1 PROVE g[i] \in Range(h) /\ g[i] # r
    <3>1. g[i] = h[At(i)] /\ At(i) \in DOMAIN h /\ k \in DOMAIN h /\ At(i) # k
      BY <1>1, <1>4, <1>5
    <3> QED
      BY <1>0, <1>1, <3>1 DEF Range, IsInjective
  <2>2. ASSUME NEW i \in 1 .. Len(h), h[i] # r PROVE h[i] \in Range(g)
    <3>1. i # k
      BY <1>0, <2>2
    <3>2. PICK j \in 1 .. Len(h) - 1 : At(j) = i
      BY <1>6, <3>1
    <3>3. g[j] = h[i] /\ j \in DOMAIN g
      BY <1>4, <1>5, <3>2
    <3> QED
      BY <3>3 DEF Range
  <2> QED
    BY <1>4, <2>1, <2>2 DEF Range
<1>9. IsInjective(g)
  <2>1. ASSUME NEW i \in 1 .. Len(h) - 1, NEW j \in 1 .. Len(h) - 1, g[i] = g[j]
        PROVE  i = j
    <3>1. g[i] = h[At(i)] /\ g[j] = h[At(j)] /\ At(i) \in DOMAIN h /\ At(j) \in DOMAIN h
      BY <1>4, <1>5
    <3>2. At(i) = At(j)
      BY <1>1, <2>1, <3>1 DEF IsInjective
    <3> QED
      BY <1>7, <3>2
  <2> QED
    BY <1>4, <2>1 DEF IsInjective
<1>10. r \in Range(h)
  BY <1>0, <1>1, <1>4 DEF Range
<1>11. \A f \in Emulator \ {e} : r \notin Range(held[f])
  BY <1>10 DEF OneGuardPerRegister, h
<1>12. \A f \in Emulator : IsInjective(held'[f])
  BY <1>3, <1>9 DEF OneGuardPerRegister
<1>13. \A f, f2 \in Emulator : f # f2 => Range(held'[f]) \cap Range(held'[f2]) = {}
  BY <1>3, <1>8 DEF OneGuardPerRegister, h
<1>14. allocated' = UNION {Range(held'[f]) : f \in Emulator}
  <2>1. ASSUME NEW x PROVE x \in allocated' <=> \E f \in Emulator : x \in Range(held'[f])
    <3>1. x \in allocated' <=> x # r /\ \E f \in Emulator : x \in Range(held[f])
      BY Flags DEF r, h
    <3>2. ASSUME NEW f \in Emulator
          PROVE  x \in Range(held'[f]) <=> x # r /\ x \in Range(held[f])
      BY <1>3, <1>8, <1>11 DEF h
    <3> QED
      BY <3>1, <3>2
  <2> QED
    BY <2>1
<1> QED
  BY <1>3, <1>12, <1>13, <1>14 DEF OneGuardPerRegister, h, g

----------------------------------------------------------------------------
(* The actions keep the invariant. *)

\* Taking turns, the flags are the guards of the one under way.
LEMMA Turn ==
    ASSUME AllocInv, NEW e \in Emulator, NEW op, Running(e, op), ~h_overlap
    PROVE  /\ held[e] = State(e).held /\ named[e] = State(e).named /\ pending = State(e).used
           /\ allocated = Range(State(e).held)
<1>1. /\ todo[e] # <<>> /\ panicked = {}
      /\ \A f \in Emulator \ {e} : todo[f] = <<>>
      /\ held[e] = State(e).held /\ named[e] = State(e).named /\ pending = State(e).used
  BY DEF AllocInv, Turns, Running
<1>2. \A f \in Emulator \ {e} : held[f] = <<>>
  BY <1>1 DEF AllocInv, Progress
<1>3. Range(<<>>) = {}
  BY DEF Range
<1>4. allocated = Range(held[e])
  BY <1>2, <1>3 DEF AllocInv, OneGuardPerRegister
<1> QED
  BY <1>1, <1>4

\* An emulator panics while another is under way.
LEMMA PanicKeeps ==
    ASSUME AllocInv, NEW e \in Emulator, NEW op, Running(e, op), Panic(e), h_overlap
    PROVE  AllocInv'
<1>1. /\ panicked' = panicked \cup {e} /\ allocated' = allocated \ Range(held[e])
      /\ held' = [held EXCEPT ![e] = <<>>]
      /\ UNCHANGED <<pending, todo, named, asserted, h_instr, h_done, h_overlap>>
  BY DEF Panic
<1>2. TypeOK /\ History /\ OneGuardPerRegister /\ Progress
  BY DEF AllocInv
<1>3. /\ held \in [Emulator -> Seq(Regs)] /\ held' \in [Emulator -> Seq(Regs)] /\ held'[e] = <<>>
      /\ \A f \in Emulator \ {e} : held'[f] = held[f]
  BY <1>1, <1>2 DEF TypeOK, Regs
<1>4. TypeOK'
  BY <1>1, <1>2, <1>3 DEF TypeOK, Regs
<1>5. History' /\ Turns'
  BY <1>1, <1>2 DEF History, Turns
<1>6. OneGuardPerRegister'
  <2>1. Range(<<>>) = {} /\ IsInjective(<<>>)
    BY DEF Range, IsInjective
  <2>2. ASSUME NEW x PROVE x \in allocated' <=> \E f \in Emulator : x \in Range(held'[f])
    <3>1. x \in allocated <=> \E f \in Emulator : x \in Range(held[f])
      BY <1>2, Flags
    <3>2. \A f \in Emulator \ {e} : Range(held[f]) \cap Range(held[e]) = {}
      BY <1>2 DEF OneGuardPerRegister
    <3> QED
      BY <1>1, <1>3, <2>1, <3>1, <3>2
  <2>3. allocated' = UNION {Range(held'[f]) : f \in Emulator}
    BY <2>2
  <2>4. \A f \in Emulator : IsInjective(held'[f])
    BY <1>2, <1>3, <2>1 DEF OneGuardPerRegister
  <2>5. \A f, g \in Emulator : f # g => Range(held'[f]) \cap Range(held'[g]) = {}
    BY <1>2, <1>3, <2>1 DEF OneGuardPerRegister
  <2> QED
    BY <2>3, <2>4, <2>5 DEF OneGuardPerRegister
<1>7. Progress'
  <2>1. ASSUME NEW f \in Emulator
        PROVE  (IF f \in panicked \/ todo[f] = <<>> THEN held[f] = <<>> ELSE UnderWay(f))'
    <3>1. CASE f = e
      BY <1>1, <1>3, <3>1
    <3>2. CASE f # e
      <4>1. todo'[f] = todo[f] /\ held'[f] = held[f] /\ h_instr' = h_instr
            /\ (f \in panicked' <=> f \in panicked)
        BY <1>1, <1>3, <3>2
      <4>2. Done(f)' = Done(f) /\ State(f)' = State(f)
        BY <4>1 DEF Done, State
      <4>3. UnderWay(f)' = UnderWay(f)
        BY <4>1, <4>2 DEF UnderWay
      <4> QED
        BY <1>2, <4>1, <4>3 DEF Progress
    <3> QED
      BY <3>1, <3>2
  <2> QED
    BY <2>1 DEF Progress
<1> QED
  BY <1>4, <1>5, <1>6, <1>7 DEF AllocInv

\* The next instruction is traced.
LEMMA ExpandKeeps ==
    ASSUME AllocInv, NEW e \in Emulator, NEW s \in Instruction, Expand(e, s)
    PROVE  AllocInv'
<1>1. /\ e \notin panicked /\ todo[e] = <<>>
      /\ todo' = [todo EXCEPT ![e] = Traced(s)] /\ named' = [named EXCEPT ![e] = <<>>]
      /\ h_instr' = [h_instr EXCEPT ![e] = s]
      /\ h_overlap' = (h_overlap \/ \E f \in Emulator \ {e} : todo[f] # <<>>)
      /\ UNCHANGED <<allocated, pending, held, asserted, panicked, h_done>>
  BY DEF Expand
<1>2. TypeOK /\ History /\ OneGuardPerRegister /\ Progress /\ Turns
  BY DEF AllocInv
<1>3. /\ Traced(s) \in Seq(Steps) /\ Len(Traced(s)) \in Nat /\ AloneFrom(Traced(s))[0] = Nothing
      /\ held[e] = <<>> /\ <<>> \in Seq(Regs)
  BY <1>1, <1>2, AloneFacts DEF Progress
<1>4. /\ todo' \in [Emulator -> Seq(Steps)] /\ named' \in [Emulator -> Seq(Regs)]
      /\ h_instr' \in [Emulator -> Instruction \cup {NoInstruction}]
      /\ todo'[e] = Traced(s) /\ named'[e] = <<>> /\ h_instr'[e] = s
      /\ \A f \in Emulator \ {e} : todo'[f] = todo[f] /\ h_instr'[f] = h_instr[f]
  BY <1>1, <1>2, <1>3 DEF TypeOK, History, Regs
<1>5. h_overlap' \in BOOLEAN
  BY <1>1
<1>6. TypeOK' /\ History' /\ OneGuardPerRegister'
  <2>1. TypeOK'
    BY <1>1, <1>2, <1>4 DEF TypeOK, Regs
  <2>2. h_done' \in [Emulator -> Seq(Instruction \X Seq(Regs))]
    BY <1>1, <1>2 DEF History
  <2>3. History'
    BY <1>4, <1>5, <2>2 DEF History
  <2>4. OneGuardPerRegister'
    BY <1>1, <1>2 DEF OneGuardPerRegister
  <2> QED
    BY <2>1, <2>3, <2>4
<1>7. Done(e)' = 0 /\ State(e)' = Nothing
  BY <1>3, <1>4 DEF Done, State
<1>8. Progress'
  <2>1. ASSUME NEW f \in Emulator
        PROVE  (IF f \in panicked \/ todo[f] = <<>> THEN held[f] = <<>> ELSE UnderWay(f))'
    <3>1. CASE f = e /\ Traced(s) = <<>>
      BY <1>1, <1>3, <1>4, <3>1
    <3>2. CASE f = e /\ Traced(s) # <<>>
      <4>1. 0 \in 0 .. Len(Traced(s)) - 1
        BY <1>3, <3>2, EmptySeq
      <4>2. \A j \in 1 .. Len(Traced(s)) : Traced(s)[j] = Traced(s)[0 + j]
        OBVIOUS
      <4>3. Len(held'[e]) = Len(Nothing.held)
        BY <1>1, <1>3 DEF Nothing
      <4>4. UnderWay(e)'
        BY <1>4, <1>7, <4>1, <4>2, <4>3 DEF UnderWay
      <4> QED
        BY <1>1, <1>4, <3>2, <4>4
    <3>3. CASE f # e
      <4>1. todo'[f] = todo[f] /\ held'[f] = held[f] /\ h_instr'[f] = h_instr[f] /\ panicked' = panicked
        BY <1>1, <1>4, <3>3
      <4>2. Done(f)' = Done(f) /\ State(f)' = State(f)
        BY <4>1 DEF Done, State
      <4>3. UnderWay(f)' = UnderWay(f)
        BY <4>1, <4>2 DEF UnderWay
      <4> QED
        BY <1>2, <4>1, <4>3 DEF Progress
    <3> QED
      BY <3>1, <3>2, <3>3
  <2> QED
    BY <2>1 DEF Progress
<1>9. Turns'
  <2>1. SUFFICES ASSUME ~h_overlap' PROVE Turns'
    BY DEF Turns
  <2>2. ~h_overlap /\ \A f \in Emulator \ {e} : todo[f] = <<>>
    BY <1>1, <2>1
  <2>3. panicked = {} /\ pending = <<>> /\ ExpansionMatchesBytecode
    BY <1>1, <1>2, <2>2 DEF Turns
  <2>4. ExpansionMatchesBytecode'
    BY <1>1, <2>3 DEF ExpansionMatchesBytecode
  <2>5. \A f \in Emulator \ {e} : todo'[f] = <<>>
    BY <1>4, <2>2
  <2>6. held'[e] = State(e)'.held /\ named'[e] = State(e)'.named /\ pending' = State(e)'.used
    BY <1>1, <1>3, <1>4, <1>7, <2>3 DEF Nothing
  <2> QED
    BY <1>1, <2>3, <2>4, <2>5, <2>6 DEF Turns
<1> QED
  BY <1>6, <1>8, <1>9 DEF AllocInv

\* A register is taken from a pool.
LEMMA TakeKeeps ==
    ASSUME AllocInv, NEW e \in Emulator, NEW op \in Taking, Running(e, op), Take(e, op),
           \/ op = "allocate" /\ pending' = pending
           \/ op # "allocate" /\ pending' = ListForReset(Min(InlineRegs \ allocated)),
           asserted' = asserted, panicked' = panicked, h_instr' = h_instr, h_overlap' = h_overlap
    PROVE  AllocInv'
<1> DEFINE r == Min(Pool(op) \ allocated)
           st == State(e)
           step == Head(todo[e])
           q == Min(Pool(op) \ Range(st.held))
           names == Named(op, r)
<1>1. /\ Pool(op) \ allocated # {} /\ allocated' = allocated \cup {r}
      /\ held' = [held EXCEPT ![e] = Append(@, r)] /\ Proceed(e, names)
  BY DEF Take
<1>2. r \in Regs /\ r \notin allocated /\ (op # "allocate" => r \in InlineRegs)
  <2>1. ~(Pool(op) \subseteq allocated)
    BY <1>1
  <2> QED
    BY <2>1, Registers
<1>3. TypeOK /\ History /\ OneGuardPerRegister /\ Progress /\ Turns
  BY DEF AllocInv
<1>4. pending' = IF op = "allocate" THEN pending ELSE ListForReset(r)
  BY DEF Pool
<1>5. st \in AloneState /\ step \in Steps /\ step.op = op /\ Len(held[e]) = Len(st.held)
  BY Ready
<1>6. /\ AloneStep(st, step).held = Append(st.held, q)
      /\ AloneStep(st, step).named = st.named \o Named(op, q)
      /\ AloneStep(st, step).used = IF op = "allocate" THEN st.used ELSE Listed(st.used, q)
  <2> HIDE DEF st, step
  <2>1. q = Min(Pool(step.op) \ Range(st.held)) /\ step.op \in Taking
    BY <1>5
  <2> HIDE DEF q
  <2>2. /\ AloneStep(st, step).held = Append(st.held, q)
        /\ AloneStep(st, step).named = st.named \o Named(step.op, q)
        /\ AloneStep(st, step).used = IF step.op = "allocate" THEN st.used ELSE Listed(st.used, q)
    BY <1>5, <2>1, AloneTakes
  <2> QED
    BY <1>5, <2>2
<1>7. ~h_overlap => /\ q = r /\ held[e] = st.held /\ named[e] = st.named /\ pending = st.used
  <2>1. SUFFICES ASSUME ~h_overlap PROVE q = r /\ held[e] = st.held /\ named[e] = st.named /\ pending = st.used
    OBVIOUS
  <2>2. /\ held[e] = st.held /\ named[e] = st.named /\ pending = st.used /\ allocated = Range(st.held)
    BY <2>1, Turn
  <2>3. q = r
    BY <2>2
  <2> QED
    BY <2>2, <2>3
<1>8. names \in Seq(Regs)
  <2>1. <<>> \in Seq(Regs)
    OBVIOUS
  <2> HIDE DEF r
  <2> QED
    BY <1>2, <2>1, NamedType
<1>9. names = Named(op, r)
  OBVIOUS
<1> HIDE DEF r, st, step, q, names
<1>10. /\ OneGuardPerRegister' /\ held' \in [Emulator -> Seq(Regs)] /\ held'[e] = Append(held[e], r)
       /\ \A f \in Emulator \ {e} : held'[f] = held[f]
  BY <1>1, <1>2, <1>3, GuardTaken
<1>11. st.held \in Seq(Regs) /\ held[e] \in Seq(Regs)
  BY <1>3, <1>5 DEF AloneState, TypeOK, Regs
<1>12. Len(held'[e]) = Len(AloneStep(st, step).held)
  <2>1. Len(Append(held[e], r)) = Len(held[e]) + 1 /\ Len(Append(st.held, q)) = Len(st.held) + 1
    BY <1>11
  <2> QED
    BY <1>5, <1>6, <1>10, <2>1
<1>13. /\ todo' \in [Emulator -> Seq(Steps)] /\ named' \in [Emulator -> Seq(Regs)]
       /\ History' /\ Progress'
  BY <1>1, <1>8, <1>10, <1>12, ProceedKeeps, Zenon DEF st, step
<1>14. pending' \in Seq(InlineRegs)
  <2>1. pending \in Seq(InlineRegs)
    BY <1>3 DEF TypeOK
  <2>2. r \in InlineRegs => Append(pending, r) \in Seq(InlineRegs)
    BY <2>1, AppendProperties
  <2> QED
    BY <1>2, <1>4, <2>1, <2>2 DEF ListForReset
<1>15. TypeOK'
  BY <1>1, <1>2, <1>3, <1>10, <1>13, <1>14 DEF TypeOK, Regs
<1>16. ASSUME ~h_overlap
       PROVE  /\ held'[e] = AloneStep(st, step).held
              /\ named[e] \o names = AloneStep(st, step).named
              /\ pending' = AloneStep(st, step).used
  <2>1. held[e] = st.held /\ named[e] = st.named /\ pending = st.used /\ q = r
    BY <1>7, <1>16
  <2>2. named[e] \o names = AloneStep(st, step).named
    BY <1>6, <1>9, <2>1
  <2>3. pending' = AloneStep(st, step).used
    BY <1>4, <1>6, <2>1 DEF ListForReset, Listed
  <2>4. held'[e] = AloneStep(st, step).held
    BY <1>6, <1>10, <2>1
  <2> QED
    BY <2>2, <2>3, <2>4
<1>17. Turns'
  BY <1>1, <1>8, <1>10, <1>12, <1>16, TurnsProceed, Zenon DEF st, step
<1> QED
  BY <1>10, <1>13, <1>15, <1>17 DEF AllocInv

\* allocate, with the panic when the pool is used up.
LEMMA AllocateKeeps ==
    ASSUME AllocInv, NEW e \in Emulator, Allocate(e)
    PROVE  AllocInv'
<1>1. Running(e, "allocate")
  BY DEF Allocate
<1>2. CASE Take(e, "allocate") /\ UNCHANGED <<pending, asserted, panicked, h_instr, h_overlap>>
  <2> DEFINE op == "allocate"
  <2>1. op \in Taking /\ op = "allocate"
    BY DEF Taking
  <2>2. Running(e, op) /\ Take(e, op)
    BY <1>1, <1>2
  <2> HIDE DEF op
  <2> QED
    BY <1>2, <2>1, <2>2, TakeKeeps
<1>3. CASE InstrRegs \subseteq allocated /\ Panic(e)
  <2>1. h_overlap
    <3>1. SUFFICES ASSUME ~h_overlap PROVE FALSE
      BY DEF AllocInv, History
    <3>2. allocated = Range(State(e).held)
      BY <1>1, <3>1, Turn
    <3>3. Fits(State(e), Head(todo[e])) /\ Head(todo[e]).op = "allocate"
      BY <1>1, Ready
    <3> QED
      BY <1>3, <3>2, <3>3 DEF Fits
  <2> QED
    BY <1>1, <1>3, <2>1, PanicKeeps
<1> QED
  BY <1>2, <1>3 DEF Allocate

\* allocate_for_inline.
LEMMA AllocateForInlineKeeps ==
    ASSUME AllocInv, NEW e \in Emulator, AllocateForInline(e)
    PROVE  AllocInv'
<1>1. PICK op \in {"allocate_for_inline", "allocate_for_advice"} :
        /\ Running(e, op)
        /\ \/ /\ Take(e, op)
              /\ pending' = ListForReset(Min(InlineRegs \ allocated))
              /\ UNCHANGED <<asserted, panicked, h_instr, h_overlap>>
           \/ InlineRegs \subseteq allocated /\ Panic(e)
  BY DEF AllocateForInline
<1>2. op \in Taking /\ op # "allocate"
  BY DEF Taking
<1>3. CASE /\ Take(e, op) /\ pending' = ListForReset(Min(InlineRegs \ allocated))
           /\ UNCHANGED <<asserted, panicked, h_instr, h_overlap>>
  BY <1>1, <1>2, <1>3, TakeKeeps
<1>4. CASE InlineRegs \subseteq allocated /\ Panic(e)
  <2>1. h_overlap
    <3>1. SUFFICES ASSUME ~h_overlap PROVE FALSE
      BY DEF AllocInv, History
    <3>2. allocated = Range(State(e).held)
      BY <1>1, <3>1, Turn
    <3>3. Fits(State(e), Head(todo[e])) /\ Head(todo[e]).op = op
      BY <1>1, Ready
    <3> QED
      BY <1>4, <3>2, <3>3 DEF Fits
  <2> QED
    BY <1>1, <1>4, <2>1, PanicKeeps
<1> QED
  BY <1>1, <1>3, <1>4

\* A guard is dropped.
LEMMA DropKeeps ==
    ASSUME AllocInv, NEW e \in Emulator, Drop(e)
    PROVE  AllocInv'
<1> DEFINE st == State(e)
           step == Head(todo[e])
           i == Position(held[e], step)
<1>1. /\ Running(e, "drop") /\ allocated' = allocated \ {held[e][i]}
      /\ held' = [held EXCEPT ![e] = RemoveAt(@, i)] /\ Proceed(e, <<>>)
      /\ UNCHANGED <<pending, asserted, panicked, h_instr, h_overlap>>
  BY DEF Drop, Deallocate
<1>2. /\ st \in AloneState /\ step \in Steps /\ step.op = "drop" /\ Fits(st, step)
      /\ Len(held[e]) = Len(st.held)
  BY <1>1, Ready
<1>3. TypeOK /\ OneGuardPerRegister /\ held[e] \in Seq(Regs) /\ named[e] \in Seq(Regs)
  BY DEF AllocInv, TypeOK, Regs
<1>5. ~h_overlap => held[e] = st.held /\ named[e] = st.named /\ pending = st.used
  BY <1>1, Turn
<1>6. st.held \in Seq(Regs) /\ step.guard \in 1 .. Len(st.held)
  BY <1>2 DEF AloneState, Fits
<1>7. i \in 1 .. Len(held[e]) /\ i = Position(st.held, step) /\ i \in 1 .. Len(st.held)
  <2> HIDE DEF st, step
  <2>1. i = Position(st.held, step)
    BY <1>2 DEF Position
  <2>2. Position(st.held, step) \in 1 .. Len(st.held)
    BY <1>2, <1>6, PositionIn
  <2> QED
    BY <1>2, <2>1, <2>2
<1> HIDE DEF st, step, i
<1>4. /\ AloneStep(st, step).held = RemoveAt(st.held, i)
      /\ AloneStep(st, step).named = st.named /\ AloneStep(st, step).used = st.used
  <2> DEFINE g == RemoveAt(st.held, i)
  <2>1. AloneStep(st, step) = [held |-> g, named |-> st.named, used |-> st.used]
    BY <1>2, <1>7, AloneSteps
  <2> HIDE DEF g
  <2>2. AloneStep(st, step).held = g /\ AloneStep(st, step).named = st.named /\ AloneStep(st, step).used = st.used
    BY <2>1
  <2> QED
    BY <2>2 DEF g
<1>8. /\ OneGuardPerRegister' /\ held' \in [Emulator -> Seq(Regs)] /\ held'[e] = RemoveAt(held[e], i)
      /\ \A f \in Emulator \ {e} : held'[f] = held[f]
  BY <1>1, <1>3, <1>7, GuardDropped
<1>9. Len(held'[e]) = Len(AloneStep(st, step).held)
  <2>1. Len(RemoveAt(held[e], i)) = Len(held[e]) - 1 /\ Len(RemoveAt(st.held, i)) = Len(st.held) - 1
    BY <1>3, <1>6, <1>7, RemoveFacts
  <2> QED
    BY <1>2, <1>4, <1>8, <2>1
<1>10. <<>> \in Seq(Regs)
  OBVIOUS
<1>11. /\ todo' \in [Emulator -> Seq(Steps)] /\ named' \in [Emulator -> Seq(Regs)]
       /\ History' /\ Progress'
  BY <1>1, <1>8, <1>9, <1>10, ProceedKeeps, Zenon DEF st, step
<1>12. TypeOK'
  <2>1. pending' = pending /\ asserted' = asserted /\ panicked' = panicked /\ allocated' \subseteq allocated
    BY <1>1
  <2> QED
    BY <1>3, <1>8, <1>11, <2>1 DEF TypeOK, Regs
<1>13. ASSUME ~h_overlap
       PROVE  /\ held'[e] = AloneStep(st, step).held
              /\ named[e] \o <<>> = AloneStep(st, step).named
              /\ pending' = AloneStep(st, step).used
  <2>1. held[e] = st.held /\ named[e] = st.named /\ pending = st.used
    BY <1>5, <1>13
  <2>2. named[e] \o <<>> = named[e]
    BY <1>3, ConcatEmptySeq
  <2> QED
    BY <1>1, <1>4, <1>8, <2>1, <2>2
<1>14. Turns'
  BY <1>1, <1>8, <1>9, <1>10, <1>13, TurnsProceed, Zenon DEF st, step
<1> QED
  BY <1>8, <1>11, <1>12, <1>14 DEF AllocInv

\* get_registers_for_reset, up to its assertion.
LEMMA AssertDroppedKeeps ==
    ASSUME AllocInv, NEW e \in Emulator, AssertDropped(e)
    PROVE  AllocInv'
<1>1. Running(e, "reset")
  BY DEF AssertDropped
<1>2. CASE /\ asserted' = [asserted EXCEPT ![e] = TRUE]
           /\ UNCHANGED <<allocated, pending, todo, held, named, panicked, h_instr, h_done, h_overlap>>
  <2>1. TypeOK'
    BY <1>2 DEF AllocInv, TypeOK
  <2>2. History' /\ OneGuardPerRegister'
    BY <1>2 DEF AllocInv, History, OneGuardPerRegister
  <2>3. \A f \in Emulator : Done(f)' = Done(f) /\ State(f)' = State(f)
    BY <1>2 DEF Done, State
  <2>4. Progress'
    <3>1. \A f \in Emulator : UnderWay(f)' = UnderWay(f)
      BY <1>2, <2>3 DEF UnderWay
    <3> QED
      BY <1>2, <3>1 DEF AllocInv, Progress
  <2>5. Turns'
    BY <1>2, <2>3 DEF AllocInv, Turns, ExpansionMatchesBytecode
  <2> QED
    BY <2>1, <2>2, <2>4, <2>5 DEF AllocInv
<1>3. CASE InlineRegs \cap allocated # {} /\ Panic(e)
  <2>1. h_overlap
    <3>1. SUFFICES ASSUME ~h_overlap PROVE FALSE
      BY DEF AllocInv, History
    <3>2. allocated = Range(State(e).held)
      BY <1>1, <3>1, Turn
    <3>3. Fits(State(e), Head(todo[e])) /\ Head(todo[e]).op = "reset"
      BY <1>1, Ready
    <3> QED
      BY <1>3, <3>2, <3>3 DEF Fits
  <2> QED
    BY <1>1, <1>3, <2>1, PanicKeeps
<1> QED
  BY <1>2, <1>3 DEF AssertDropped

\* finalize_inline zeroes the registers that were listed.
LEMMA TakeForResetKeeps ==
    ASSUME AllocInv, NEW e \in Emulator, TakeForReset(e)
    PROVE  AllocInv'
<1> DEFINE st == State(e)
           step == Head(todo[e])
<1>1. /\ Running(e, "reset") /\ asserted' = [asserted EXCEPT ![e] = FALSE] /\ pending' = <<>>
      /\ Proceed(e, pending)
      /\ UNCHANGED <<allocated, held, panicked, h_instr, h_overlap>>
  BY DEF TakeForReset, LeftAfterReset
<1>2. st \in AloneState /\ step \in Steps /\ step.op = "reset" /\ Len(held[e]) = Len(st.held)
  BY <1>1, Ready
<1>3. TypeOK /\ OneGuardPerRegister /\ held \in [Emulator -> Seq(Regs)]
  BY DEF AllocInv, TypeOK, Regs
<1>5. ~h_overlap => held[e] = st.held /\ named[e] = st.named /\ pending = st.used
  BY <1>1, Turn
<1> HIDE DEF st, step
<1>4. /\ AloneStep(st, step).held = st.held /\ AloneStep(st, step).named = st.named \o st.used
      /\ AloneStep(st, step).used = <<>>
  <2> DEFINE n == st.named \o st.used
  <2>1. AloneStep(st, step) = [held |-> st.held, named |-> n, used |-> <<>>]
    BY <1>2, AloneSteps
  <2> HIDE DEF n
  <2>2. AloneStep(st, step).held = st.held /\ AloneStep(st, step).named = n /\ AloneStep(st, step).used = <<>>
    BY <2>1
  <2> QED
    BY <2>2 DEF n
<1>6. held' \in [Emulator -> Seq(Regs)] /\ \A f \in Emulator \ {e} : held'[f] = held[f]
  BY <1>1, <1>3
<1>7. Len(held'[e]) = Len(AloneStep(st, step).held)
  BY <1>1, <1>2, <1>4
<1>8. pending \in Seq(Regs)
  BY <1>3, SeqMonotonic DEF TypeOK, Regs
<1>10. /\ todo' \in [Emulator -> Seq(Steps)] /\ named' \in [Emulator -> Seq(Regs)]
       /\ History' /\ Progress'
  BY <1>1, <1>6, <1>7, <1>8, ProceedKeeps, Zenon DEF st, step
<1>11. TypeOK'
  <2>1. <<>> \in Seq(InlineRegs)
    OBVIOUS
  <2> QED
    BY <1>1, <1>3, <1>10, <2>1 DEF TypeOK, Regs
<1>12. ASSUME ~h_overlap
       PROVE  /\ held'[e] = AloneStep(st, step).held
              /\ named[e] \o pending = AloneStep(st, step).named
              /\ pending' = AloneStep(st, step).used
  BY <1>1, <1>4, <1>5, <1>12
<1>13. Turns'
  BY <1>1, <1>6, <1>7, <1>8, <1>12, TurnsProceed, Zenon DEF st, step
<1>14. OneGuardPerRegister'
  BY <1>1, <1>3 DEF OneGuardPerRegister
<1> QED
  BY <1>10, <1>11, <1>13, <1>14 DEF AllocInv

\* A step that changes nothing.
LEMMA StutterKeeps ==
    ASSUME AllocInv, UNCHANGED vars
    PROVE  AllocInv'
<1>1. UNCHANGED <<allocated, pending, todo, held, named, asserted, panicked, h_instr, h_done, h_overlap>>
  BY DEF vars
<1>2. \A f \in Emulator : Done(f)' = Done(f) /\ State(f)' = State(f)
  BY <1>1 DEF Done, State
<1>3. \A f \in Emulator : UnderWay(f)' = UnderWay(f)
  BY <1>1, <1>2 DEF UnderWay
<1>4. TypeOK' /\ History' /\ OneGuardPerRegister'
  BY <1>1 DEF AllocInv, TypeOK, History, OneGuardPerRegister
<1>5. Progress'
  BY <1>1, <1>3 DEF AllocInv, Progress
<1>6. Turns'
  BY <1>1, <1>2 DEF AllocInv, Turns, ExpansionMatchesBytecode
<1> QED
  BY <1>4, <1>5, <1>6 DEF AllocInv

\* The allocator starts with nothing allocated.
LEMMA InitAlloc == Init => AllocInv
<1> SUFFICES ASSUME Init PROVE AllocInv
  OBVIOUS
<1>1. /\ <<>> \in Seq(InlineRegs) /\ <<>> \in Seq(Steps) /\ <<>> \in Seq(Regs)
      /\ <<>> \in Seq(Instruction \X Seq(Regs)) /\ Range(<<>>) = {} /\ IsInjective(<<>>)
  BY DEF Range, IsInjective
<1>2. TypeOK /\ History
  BY <1>1 DEF Init, TypeOK, History, Regs
<1>3. OneGuardPerRegister
  BY <1>1 DEF Init, OneGuardPerRegister
<1>4. Progress
  BY DEF Init, Progress
<1>5. ExpansionMatchesBytecode
  BY DEF Init, ExpansionMatchesBytecode
<1>6. Turns
  BY <1>5 DEF Init, Turns
<1> QED
  BY <1>2, <1>3, <1>4, <1>6 DEF AllocInv

\* Whatever is expanded and by whom, the guards of an expansion are as many as it
\* would hold by itself; taking turns, they are the same.
THEOREM AllocatorInvariant == Spec => []AllocInv
<1>1. ASSUME AllocInv, [Next]_vars PROVE AllocInv'
  <2>1. CASE UNCHANGED vars
    BY <1>1, <2>1, StutterKeeps
  <2>2. ASSUME NEW e \in Emulator,
               \/ \E s \in Instruction : Expand(e, s)
               \/ Allocate(e) \/ AllocateForInline(e) \/ Drop(e) \/ AssertDropped(e) \/ TakeForReset(e)
        PROVE  AllocInv'
    BY <1>1, <2>2, ExpandKeeps, AllocateKeeps, AllocateForInlineKeeps, DropKeeps, AssertDroppedKeeps,
       TakeForResetKeeps
  <2> QED
    BY <1>1, <2>1, <2>2 DEF Next
<1> QED
  BY <1>1, InitAlloc, PTL DEF Spec

\* Guards and lists hold registers of the pools (VirtualRegisterAllocator).
THEOREM AllocatorType == Spec => []TypeOK
<1>1. AllocInv => TypeOK
  BY DEF AllocInv
<1> QED
  BY <1>1, AllocatorInvariant, PTL

\* However many emulators share the allocator and whichever of them panic, a
\* register has one guard and every flag a guard (allocate, VirtualRegisterGuard::drop).
THEOREM GuardsAreUnique == Spec => []OneGuardPerRegister
<1>1. AllocInv => OneGuardPerRegister
  BY DEF AllocInv
<1> QED
  BY <1>1, AllocatorInvariant, PTL

\* As long as the emulators take turns, each names the registers that its bytecode
\* names, after any number of expansions (decode against the tracer).
THEOREM TracerNamesBytecode == Spec => []TurnsMatchBytecode
<1>1. AllocInv => TurnsMatchBytecode
  BY DEF AllocInv, Turns, TurnsMatchBytecode
<1> QED
  BY <1>1, AllocatorInvariant, PTL

\* And none runs out of registers or finds one of an inline's undropped (the panic
\* of allocate, the assertion of get_registers_for_reset).
THEOREM TurnsNeverPanic == Spec => []NoPanic
<1>1. AllocInv => NoPanic
  BY DEF AllocInv, Turns, NoPanic
<1> QED
  BY <1>1, AllocatorInvariant, PTL

=============================================================================
