-------------------------- MODULE ProofStages_claims --------------------------
(***************************************************************************)
(* Invariants of ProofStages about the claims of both sides, for every     *)
(* configuration of the program, the one-hot polynomials and the advice:   *)
(* AppendedOnce, KernelsMatch, EveryClaimUsed and OpenedAtUnifiedPoint.    *)
(*                                                                         *)
(* The inductive invariant is KnowsInv: at the beginning of a stage a side *)
(* knows a set of claims that depends on the configuration alone, K1(c) to *)
(* K7(c, layout), each with its key and its point, has appended exactly    *)
(* their keys, each once, and has used those the stages so far ask for,    *)
(* Used1 to Used7(c).  Each instance of each batch is shown to find the    *)
(* claims it asks for among those of the stages before (Given), at the     *)
(* point of its eq polynomial, and to leave claims of its own; a batch of  *)
(* such instances takes a side from one set to the next.                   *)
(*                                                                         *)
(* The invariants are read off the sets.  A list without repetition is as  *)
(* long as its set (AppendedOnce), no instance found a point other than    *)
(* its own (KernelsMatch), and the claims of all stages together are the   *)
(* ones used by some later stage or by the opening (EveryClaimUsed).       *)
(* OpenedAtUnifiedPoint relates the points of the last set: the schedule   *)
(* of the advice says in which rounds of stages 6 and 7 the variables of a *)
(* block are bound, and the order of the rounds which coordinates of the   *)
(* unified point they are.                                                 *)
(***************************************************************************)
EXTENDS ProofStages_proofs

----------------------------------------------------------------------------
(* The first stage. *)

\* The point of a sumcheck over the cycles in the last rounds of a batch, and that of
\* the outer one.
CyclePt(b, max, c) == Reverse(Part(b, max, c.log_T))

\* The point of the outer sumcheck.
OuterPt(c) == OuterPoint(Part(2, 1 + c.log_T, 1 + c.log_T))

\* It is a point over the cycles.
LEMMA CyclePtIs ==
    ASSUME NEW c \in Configs, NEW b \in Nat, NEW max \in Nat, c.log_T <= max
    PROVE  CyclePt(b, max, c) \in Points /\ Len(CyclePt(b, max, c)) = c.log_T
<1>1. c.log_T \in 0 .. max
  BY ConfigAssumption
<1> DEFINE n == c.log_T
<1> HIDE DEF n
<1>2. Part(b, max, n) \in Points /\ Len(Part(b, max, n)) = n
  BY <1>1, PartFacts DEF n
<1> QED
  BY <1>2, ReversePoint DEF CyclePt, n

\* So is that of the outer sumcheck.
LEMMA OuterPtIs ==
    ASSUME NEW c \in Configs
    PROVE  OuterPt(c) \in Points /\ Len(OuterPt(c)) = c.log_T
<1> DEFINE n == 1 + c.log_T
           b == 2
           s == Part(b, n, n)
<1>1. n \in Nat /\ n \in 0 .. n /\ c.log_T \in Nat
  BY ConfigAssumption
<1>2. b \in Nat
  OBVIOUS
<1> HIDE DEF n, b
<1>3. s \in Points /\ Len(s) = n
  BY <1>1, <1>2, PartFacts
<1> HIDE DEF s
<1>4. Tail(s) \in Points /\ Len(Tail(s)) = n - 1
  <2>1. s # <<>>
    BY <1>1, <1>3 DEF n
  <2>2. ASSUME NEW S, NEW w \in Seq(S), w # <<>> PROVE Len(Tail(w)) = Len(w) - 1
    BY <2>2
  <2> QED
    BY <1>3, <2>1, <2>2, TailPoint DEF Points
<1>5. OuterPt(c) = Reverse(Tail(s))
  BY DEF OuterPt, OuterPoint, s, n, b
<1>6. n - 1 = c.log_T
  BY <1>1 DEF n
<1> DEFINE t == Tail(s)
<1> HIDE DEF t
<1>7. Reverse(t) \in Points /\ Len(Reverse(t)) = Len(t)
  BY <1>4, ReversePoint DEF t
<1> QED
  BY <1>4, <1>5, <1>6, <1>7 DEF t

\* An instance in the last rounds of its batch, by the challenges of these.
LEMMA GivenPlain ==
    ASSUME NEW c \in Configs, NEW x, Plain(x), NEW n \in Nat, x.rounds = n, NEW b \in Nat, NEW max \in Nat,
           n <= max, NEW T, x.uses \subseteq T, NEW U, Leaves(x, Part(b, max, n), U),
           NEW N, Sound(U, N, c)
    PROVE  Given(x, b, max, T, U, c)
<1>1. Slice(x, Challenges(b, max)) = Part(b, max, n)
  BY PlainSlice
<1> QED
  BY <1>1 DEF Given

\* One that opens some polynomials at one point.
LEMMA LeavesEach ==
    ASSUME NEW x, NEW r, NEW polys, Different(polys), NEW s, NEW p, NEW q,
           x.prover[r] = OpenedEach(polys, s, p, q), x.verifier[r] = ExpectEach(polys, s, p)
    PROVE  Leaves(x, r, EachOf(polys, s, p))
<1>1. /\ Says(OpenedEach(polys, s, p, q), Uses(IdsAt(Range(polys), s), p))
      /\ Says(ExpectEach(polys, s, p), Uses(IdsAt(Range(polys), s), p))
  BY SaysEach, Zenon
<1> QED
  BY <1>1, Zenon DEF Leaves, EachOf

\* The claims of the first stage.
SkipClaims == {Use(Outer("UnivariateSkip"), Part(1, 1, 1))}

\* Its claims: all inputs of the constraint system.
OuterClaims(c) == EachOf(R1CSInputs, "SpartanOuter", OuterPt(c))

\* The first round of the outer sumcheck, which needs no claim.
LEMMA SkipGiven ==
    ASSUME NEW c \in Configs, NEW T, NEW b, b = 1, NEW max, max = 1
    PROVE  Given(OuterUniSkip, b, max, T, SkipClaims, c) /\ Sound(SkipClaims, {"SpartanOuter"}, c)
<1> DEFINE x == OuterUniSkip
           r == Part(b, max, max)
<1>1. Plain(x) /\ x.rounds = max /\ max \in Nat /\ b \in Nat /\ max \in 0 .. max
  BY OuterUniSkipFacts
<1>2. r \in Points
  BY <1>1, PartFacts
<1>3. x.uses = {}
  BY DEF OuterUniSkip, Instance
<1>4. x.prover[r] = <<Opened(Outer("UnivariateSkip"), r, r)>>
      /\ x.verifier[r] = <<Expect(Outer("UnivariateSkip"), r)>>
  BY <1>2 DEF OuterUniSkip, Instance, OuterUniSkipProver, OuterUniSkipVerifier
<1>5. SkipClaims = {Use(Outer("UnivariateSkip"), r)}
  BY DEF SkipClaims
<1> HIDE DEF x, r
<1>6. Leaves(x, r, SkipClaims)
  BY <1>4, <1>5, LeavesOne DEF Leaves
<1>7. Sound(SkipClaims, {"SpartanOuter"}, c)
  <2>1. Virt("UnivariateSkip") \in Polynomials(c)
    BY PolynomialsHave DEF Witnesses
  <2>2. Outer("UnivariateSkip") = At(Virt("UnivariateSkip"), "SpartanOuter")
    BY DEF Outer
  <2> QED
    BY <1>2, <1>5, <2>1, <2>2, SoundOne
<1>8. Given(x, b, max, T, SkipClaims, c)
  BY <1>1, <1>3, <1>6, <1>7, GivenPlain DEF r
<1> QED
  BY <1>7, <1>8 DEF x

\* The other rounds, which need the claim of the first.
LEMMA OuterGiven ==
    ASSUME NEW c \in Configs, NEW acc, NEW T, Knows(acc, T), SkipClaims \subseteq T,
           NEW b, b = 2, NEW max, max = 1 + c.log_T
    PROVE  Given(OuterRemaining(acc, c), b, max, T, OuterClaims(c), c)
           /\ Sound(OuterClaims(c), {"SpartanOuter"}, c)
<1> DEFINE x == OuterRemaining(acc, c)
           r == Part(b, max, max)
           k == Outer("UnivariateSkip")
<1>1. Plain(x) /\ x.rounds = max
  BY OuterRemainingFacts
<1>0. max \in Nat /\ b \in Nat /\ max \in 0 .. max
  BY ConfigAssumption
<1>2. r \in Points
  BY <1>0, PartFacts
<1>3. x.uses = {Use(k, PointOf(acc, k))}
  BY DEF OuterRemaining, Instance
<1>4. x.prover[r] = OpenedEach(R1CSInputs, "SpartanOuter", OuterPoint(r), OuterPoint(r))
      /\ x.verifier[r] = ExpectEach(R1CSInputs, "SpartanOuter", OuterPoint(r))
  BY <1>2 DEF OuterRemaining, Instance, OuterProver, OuterVerifier
<1>5. OuterPt(c) = OuterPoint(r)
  BY DEF OuterPt
<1> HIDE DEF x, r, k
<1>6. Leaves(x, r, OuterClaims(c))
  BY <1>4, <1>5, InputsDiffer, LeavesEach DEF OuterClaims
<1>7. Sound(OuterClaims(c), {"SpartanOuter"}, c)
  <2> DEFINE s == "SpartanOuter"
             p == OuterPt(c)
  <2>1. p \in Points /\ Range(R1CSInputs) \subseteq Polynomials(c)
    BY OuterPtIs, PolynomialsHave
  <2> HIDE DEF s, p
  <2>2. Sound(EachOf(R1CSInputs, s, p), {s}, c)
    BY <2>1, SoundEach
  <2> QED
    BY <2>2 DEF OuterClaims, s, p
<1>8. x.uses \subseteq T
  <2>1. Use(k, Part(1, 1, 1)) \in T
    BY DEF SkipClaims, k
  <2>2. PointOf(acc, k) = Part(1, 1, 1)
    BY <2>1, KnownUse
  <2> QED
    BY <1>3, <2>1, <2>2
<1>9. Given(x, b, max, T, OuterClaims(c), c)
  BY <1>0, <1>1, <1>6, <1>7, <1>8, GivenPlain DEF r
<1> QED
  BY <1>7, <1>9 DEF x

----------------------------------------------------------------------------
(* The second stage. *)

\* An instance that opens some polynomials at one point.
OpensEach(x, r, polys, s, p, c) ==
    /\ \E q : x.prover[r] = OpenedEach(polys, s, p, q)
    /\ x.verifier[r] = ExpectEach(polys, s, p)
    /\ Different(polys) /\ Range(polys) \subseteq Polynomials(c) /\ p \in Points

\* A plain instance with n rounds, the last ones of a batch of max.
InLast(x, n, b, max) == Plain(x) /\ x.rounds = n /\ n \in Nat /\ b \in Nat /\ max \in Nat /\ n <= max

\* It leaves the claims of its list at its point.
LEMMA EachGiven ==
    ASSUME NEW c \in Configs, NEW x, NEW n, NEW b, NEW max, InLast(x, n, b, max), NEW T, x.uses \subseteq T,
           NEW polys, NEW s, NEW p, OpensEach(x, Part(b, max, n), polys, s, p, c)
    PROVE  Given(x, b, max, T, EachOf(polys, s, p), c) /\ Sound(EachOf(polys, s, p), {s}, c)
<1> DEFINE r == Part(b, max, n)
<1> HIDE DEF r
<1>1. PICK q : x.prover[r] = OpenedEach(polys, s, p, q)
  BY DEF OpensEach, r
<1>2. /\ x.verifier[r] = ExpectEach(polys, s, p)
      /\ Different(polys) /\ Range(polys) \subseteq Polynomials(c) /\ p \in Points
  BY DEF OpensEach, r
<1>3. Leaves(x, r, EachOf(polys, s, p))
  BY <1>1, <1>2, LeavesEach
<1>4. Sound(EachOf(polys, s, p), {s}, c)
  BY <1>2, SoundEach
<1>5. Plain(x) /\ x.rounds = n /\ n \in Nat /\ b \in Nat /\ max \in Nat /\ n <= max
  BY DEF InLast
<1> QED
  BY <1>3, <1>4, <1>5, GivenPlain DEF r

\* A challenge part is a point of as many coordinates.
LEMMA LastPoint ==
    ASSUME NEW x, NEW n, NEW b, NEW max, InLast(x, n, b, max)
    PROVE  Part(b, max, n) \in Points /\ Len(Part(b, max, n)) = n
<1>1. b \in Nat /\ max \in Nat /\ n \in 0 .. max
  BY DEF InLast
<1> QED
  BY <1>1, PartFacts

\* What an accumulator knows from the first stage.
LEMMA OuterKnown ==
    ASSUME NEW c \in Configs, NEW acc, NEW T, Knows(acc, T), OuterClaims(c) \subseteq T,
           NEW n \in VirtualInputs
    PROVE  Use(Outer(n), OuterPt(c)) \in T /\ PointOf(acc, Outer(n)) = OuterPt(c)
<1>1. Virt(n) \in Range(R1CSInputs)
  BY InputsAre
<1> DEFINE q == Virt(n)
           p == OuterPt(c)
           s == "SpartanOuter"
<1> HIDE DEF q, p, s
<1>2. Use(At(q, s), p) \in EachOf(R1CSInputs, s, p)
  BY <1>1, InEach DEF q
<1>3. Use(Outer(n), OuterPt(c)) \in T
  BY <1>2 DEF q, p, s, Outer, OuterClaims
<1> QED
  BY <1>3, KnownUse

\* The skipped round of the product sumcheck.
ProductSkipClaims == {Use(Product("UnivariateSkip"), Part(3, 1, 1))}

\* The first round of the product sumcheck, from the outer one's claims.
LEMMA ProductSkipGiven ==
    ASSUME NEW c \in Configs, NEW acc, NEW T, Knows(acc, T), OuterClaims(c) \subseteq T,
           NEW b, b = 3, NEW max, max = 1
    PROVE  /\ Given(ProductUniSkip(acc), b, max, T, ProductSkipClaims, c)
           /\ Sound(ProductSkipClaims, {"SpartanProductVirtualization"}, c)
<1> DEFINE x == ProductUniSkip(acc)
           r == Part(b, max, max)
<1>1. Plain(x) /\ x.rounds = max /\ max \in Nat /\ b \in Nat /\ max \in 0 .. max
  BY ProductUniSkipFacts
<1>2. r \in Points
  BY <1>1, PartFacts
<1>3. x.uses = Uses({Outer("Product"), Outer("ShouldBranch"), Outer("ShouldJump")},
                    PointOf(acc, Outer("Product")))
  BY DEF ProductUniSkip, Instance
<1>4. x.prover[r] = <<Opened(Product("UnivariateSkip"), r, r)>>
      /\ x.verifier[r] = <<Expect(Product("UnivariateSkip"), r)>>
  BY <1>2 DEF ProductUniSkip, Instance, ProductUniSkipProver, ProductUniSkipVerifier
<1>5. ProductSkipClaims = {Use(Product("UnivariateSkip"), r)}
  BY DEF ProductSkipClaims
<1> HIDE DEF x, r
<1>6. Leaves(x, r, ProductSkipClaims)
  BY <1>4, <1>5, LeavesOne DEF Leaves
<1>7. Sound(ProductSkipClaims, {"SpartanProductVirtualization"}, c)
  <2>1. Virt("UnivariateSkip") \in Polynomials(c)
    BY PolynomialsHave DEF Witnesses
  <2>2. Product("UnivariateSkip") = At(Virt("UnivariateSkip"), "SpartanProductVirtualization")
    BY DEF Product
  <2> QED
    BY <1>2, <1>5, <2>1, <2>2, SoundOne
<1>8. x.uses \subseteq T
  <2>1. "Product" \in VirtualInputs /\ "ShouldBranch" \in VirtualInputs /\ "ShouldJump" \in VirtualInputs
    BY DEF VirtualInputs
  <2>2. /\ Use(Outer("Product"), OuterPt(c)) \in T /\ Use(Outer("ShouldBranch"), OuterPt(c)) \in T
        /\ Use(Outer("ShouldJump"), OuterPt(c)) \in T
        /\ PointOf(acc, Outer("Product")) = OuterPt(c)
    BY <2>1, OuterKnown
  <2> QED
    BY <1>3, <2>2 DEF Uses
<1>9. Given(x, b, max, T, ProductSkipClaims, c)
  BY <1>1, <1>6, <1>7, <1>8, GivenPlain DEF r
<1> QED
  BY <1>7, <1>9 DEF x

\* The factors of the product sumcheck and the operands of the lookups.
M4(c) == c.ram_log_K + c.log_T

\* The cycle of stage 2.
Pt2(c) == CyclePt(4, M4(c), c)

\* The claims of the product sumcheck.
ProductClaims(c) == EachOf(ProductFactors, "SpartanProductVirtualization", Pt2(c))

\* The claims of the first reduction of the lookups.
LookupClaims(c) == EachOf(LookupPolys, "InstructionClaimReduction", Pt2(c))

\* The cycle of stage 2 is a point over the cycles.
LEMMA Pt2Is ==
    ASSUME NEW c \in Configs
    PROVE  Pt2(c) \in Points /\ Len(Pt2(c)) = c.log_T
<1> DEFINE max == M4(c)
           b == 4
<1>1. max \in Nat /\ b \in Nat /\ c.log_T <= max
  BY ConfigAssumption DEF M4
<1> HIDE DEF max, b
<1> QED
  BY <1>1, CyclePtIs DEF Pt2, max, b

\* The other rounds of the product sumcheck.
LEMMA ProductGiven ==
    ASSUME NEW c \in Configs, NEW acc, NEW T, Knows(acc, T), ProductSkipClaims \subseteq T,
           NEW b, b = 4, NEW max, max = M4(c)
    PROVE  /\ Given(ProductRemainder(acc, c), b, max, T, ProductClaims(c), c)
           /\ Sound(ProductClaims(c), {"SpartanProductVirtualization"}, c)
<1> DEFINE x == ProductRemainder(acc, c)
           n == c.log_T
           r == Part(b, max, n)
           k == Product("UnivariateSkip")
           s == "SpartanProductVirtualization"
           p == Pt2(c)
<1>1. InLast(x, n, b, max)
  BY CycleFacts, ConfigAssumption DEF InLast, M4
<1>2. r \in Points
  <2> HIDE DEF x, n
  <2> QED
    BY <1>1, LastPoint
<1>3. x.uses = {Use(k, PointOf(acc, k))}
  BY DEF ProductRemainder, Instance
<1>4. x.prover[r] = OpenedEach(ProductFactors, s, Reverse(r), Reverse(r))
      /\ x.verifier[r] = ExpectEach(ProductFactors, s, Reverse(r))
  BY <1>2 DEF ProductRemainder, Instance, ProductProver, ProductVerifier
<1>5. p = Reverse(r)
  BY DEF Pt2, CyclePt
<1>6. p \in Points /\ Different(ProductFactors) /\ Range(ProductFactors) \subseteq Polynomials(c)
  BY Pt2Is, FactorsDiffer, PolynomialsHave
<1> HIDE DEF x, k, s, p
<1>7. OpensEach(x, r, ProductFactors, s, p, c)
  BY <1>4, <1>5, <1>6 DEF OpensEach
<1>8. x.uses \subseteq T
  <2>1. Use(k, Part(3, 1, 1)) \in T
    BY DEF ProductSkipClaims, k
  <2>2. PointOf(acc, k) = Part(3, 1, 1)
    BY <2>1, KnownUse
  <2> QED
    BY <1>3, <2>1, <2>2
<1> HIDE DEF n
<1>9. Given(x, b, max, T, EachOf(ProductFactors, s, p), c) /\ Sound(EachOf(ProductFactors, s, p), {s}, c)
  BY <1>1, <1>7, <1>8, EachGiven DEF r
<1> QED
  BY <1>9 DEF x, s, p, ProductClaims

\* The first reduction of the lookups.
LEMMA LookupGiven ==
    ASSUME NEW c \in Configs, NEW acc, NEW T, Knows(acc, T), OuterClaims(c) \subseteq T,
           NEW b, b = 4, NEW max, max = M4(c)
    PROVE  /\ Given(InstructionReduction(acc, c), b, max, T, LookupClaims(c), c)
           /\ Sound(LookupClaims(c), {"InstructionClaimReduction"}, c)
<1> DEFINE x == InstructionReduction(acc, c)
           n == c.log_T
           r == Part(b, max, n)
           s == "InstructionClaimReduction"
           p == Pt2(c)
<1>1. InLast(x, n, b, max)
  BY CycleFacts, ConfigAssumption DEF InLast, M4
<1>2. r \in Points
  <2> HIDE DEF x, n
  <2> QED
    BY <1>1, LastPoint
<1>3. x.uses = Uses({Outer("LookupOutput"), Outer("LeftLookupOperand"),
                   Outer("RightLookupOperand"), Outer("LeftInstructionInput"),
                   Outer("RightInstructionInput")}, PointOf(acc, Outer("LookupOutput")))
  BY DEF InstructionReduction, Instance
<1>4. x.prover[r] = OpenedEach(LookupPolys, s, Reverse(r), LowToHigh(r))
      /\ x.verifier[r] = ExpectEach(LookupPolys, s, Reverse(r))
  BY <1>2 DEF InstructionReduction, Instance, InstructionReductionProver, InstructionReductionVerifier,
              LookupPolys
<1>5. p = Reverse(r)
  BY DEF Pt2, CyclePt
<1>6. p \in Points /\ Different(LookupPolys) /\ Range(LookupPolys) \subseteq Polynomials(c)
  BY Pt2Is, ListsDiffer, ShortPolynomials
<1> HIDE DEF x, s, p
<1>7. OpensEach(x, r, LookupPolys, s, p, c)
  BY <1>4, <1>5, <1>6 DEF OpensEach
<1>8. x.uses \subseteq T
  <2>1. {"LookupOutput", "LeftLookupOperand", "RightLookupOperand", "LeftInstructionInput",
         "RightInstructionInput"} \subseteq VirtualInputs
    BY DEF VirtualInputs
  <2>2. /\ \A v \in {"LookupOutput", "LeftLookupOperand", "RightLookupOperand", "LeftInstructionInput",
                     "RightInstructionInput"} : Use(Outer(v), OuterPt(c)) \in T
        /\ PointOf(acc, Outer("LookupOutput")) = OuterPt(c)
    BY <2>1, OuterKnown
  <2> QED
    BY <1>3, <2>2 DEF Uses
<1> HIDE DEF n
<1>9. Given(x, b, max, T, EachOf(LookupPolys, s, p), c) /\ Sound(EachOf(LookupPolys, s, p), {s}, c)
  BY <1>1, <1>7, <1>8, EachGiven DEF r
<1> QED
  BY <1>9 DEF x, s, p, LookupClaims

\* A point of two parts.
LEMMA JoinSplit ==
    ASSUME NEW s \in Points, NEW t \in Points, NEW a, a = Len(s)
    PROVE  s \o t \in Points /\ Len(s \o t) = a + Len(t) /\ First(s \o t, a) = s /\ From(s \o t, a) = t
<1> DEFINE w == s \o t
           n == Len(s)
           m == Len(t)
           f == First(w, a)
           g == From(w, a)
<1>1. w \in Points /\ Len(w) = n + m /\ n \in Nat /\ m \in Nat
  BY JoinPoints DEF Points
<1>2. PlacesOf(s, n) /\ PlacesOf(t, m)
  BY PointPlaces
<1> HIDE DEF n, m
<1>3. Joined(s, n, t, m)
  BY <1>1, <1>2, JoinPlaces
<1>7. a = n
  BY DEF n
<1>4. /\ \A i \in 1 .. n : w[i] = s[i]
      /\ \A i \in 1 .. m : w[n + i] = t[i]
  BY <1>3 DEF Joined
<1> HIDE DEF w
<1>5. f \in Points /\ Len(f) = n /\ \A j \in 1 .. n : f[j] = w[j]
  <2>1. a \in Nat /\ a <= Len(w)
    BY <1>1, <1>7
  <2> QED
    BY <1>1, <1>7, <2>1, FirstPart
<1>6. PartOf(g, w, a, m)
  <2>1. a \in Nat /\ a <= Len(w) /\ m = Len(w) - a
    BY <1>1, <1>7
  <2> QED
    BY <1>1, <2>1, LastPart
<1> HIDE DEF f, g
<1>8. PlacesOf(f, n)
  BY <1>5, PointPlaces
<1>9. f = s
  <2>1. \A i \in 1 .. n : f[i] = s[i]
    BY <1>4, <1>5
  <2> QED
    BY <1>1, <1>2, <1>8, <2>1, SamePlaces
<1>10. g = t
  <2>1. \A i \in 1 .. m : g[i] = t[i]
    BY <1>4, <1>6, <1>7 DEF PartOf
  <2>2. PlacesOf(g, m)
    BY <1>6 DEF PartOf
  <2> QED
    BY <1>1, <1>2, <2>1, <2>2, SamePlaces
<1>11. f = First(w, a) /\ g = From(w, a)
  BY DEF f, g
<1> QED
  BY <1>1, <1>7, <1>9, <1>10, <1>11 DEF w, m

\* A point is its first coordinates and the others.
LEMMA SplitJoin ==
    ASSUME NEW s \in Points, NEW a \in Nat, a <= Len(s)
    PROVE  First(s, a) \o From(s, a) = s
<1> DEFINE f == First(s, a)
           g == From(s, a)
           n == Len(s)
           m == n - a
           w == f \o g
<1>1. n \in Nat /\ m \in Nat /\ PlacesOf(s, n)
  BY PointPlaces
<1>2. f \in Points /\ Len(f) = a /\ \A j \in 1 .. a : f[j] = s[j]
  BY FirstPart
<1>3. PartOf(g, s, a, m)
  BY LastPart
<1> HIDE DEF f, g, n
<1>4. PlacesOf(f, a) /\ PlacesOf(g, m)
  BY <1>2, <1>3, PointPlaces DEF PartOf
<1> HIDE DEF m
<1>5. Joined(f, a, g, m) /\ PlacesOf(w, a + m)
  BY <1>1, <1>4, JoinPlaces, JoinedPlaces
<1>6. a + m = n
  BY <1>1 DEF m
<1>7. \A i \in 1 .. n : w[i] = s[i]
  <2> SUFFICES ASSUME NEW i \in 1 .. n PROVE w[i] = s[i]
    OBVIOUS
  <2> HIDE DEF w
  <2>1. CASE i <= a
    BY <1>2, <1>5, <2>1 DEF Joined, w
  <2>2. CASE i > a
    <3>1. i - a \in 1 .. m /\ i = a + (i - a)
      BY <1>1, <1>6, <2>2
    <3>2. w[a + (i - a)] = g[i - a]
      BY <1>5, <3>1 DEF Joined, w
    <3>3. g[i - a] = s[a + (i - a)]
      BY <1>3, <3>1 DEF PartOf
    <3> QED
      BY <3>1, <3>2, <3>3
  <2> QED
    BY <1>1, <2>1, <2>2
<1> HIDE DEF w
<1>8. w = s
  BY <1>1, <1>5, <1>6, <1>7, SamePlaces
<1> QED
  BY <1>8 DEF w, f, g

\* The point of read-write checking, its address and its cycle.
LEMMA ReadWriteSplit ==
    ASSUME NEW K \in Nat, NEW T \in Nat, NEW p1 \in 0 .. T, NEW p2 \in 0 .. K,
           NEW r \in Points, Len(r) = K + T, NEW point, point = ReadWritePoint(T, p1, p2, r)
    PROVE  /\ point \in Points /\ Len(point) = K + T
           /\ First(point, K) \in Points /\ Len(First(point, K)) = K
           /\ From(point, K) \in Points /\ Len(From(point, K)) = T
<1> DEFINE n == K + T
<1>1. n \in Nat /\ n = K + T /\ Len(r) = n
  OBVIOUS
<1>2. PlacedBy(point, r, K, T, p1, p2, n)
  <2> HIDE DEF n
  <2> QED
    BY <1>1, ReadWritePlaces
<1>3. point \in Points
  <2>1. p2 \in Nat /\ p1 + p2 <= Len(r)
    BY <1>1
  <2> QED
    BY <2>1, ReadWritePointFacts
<1>4. Len(point) = n
  BY <1>1, <1>2, PlacesAreSeq DEF PlacedBy
<1>5. K <= Len(point) /\ Len(point) - K = T
  BY <1>1, <1>4
<1> QED
  BY <1>3, <1>4, <1>5, FirstFacts, FromFacts

\* RAM's point in stage 2, and the address the checks beside it end with.
RamPt(c) == ReadWritePoint(c.log_T, c.p1, c.p2, Part(4, M4(c), M4(c)))

\* The address of RAM's point.
RamAddr(c) == First(RamPt(c), c.ram_log_K)

\* Its cycle.
RamCyc(c) == From(RamPt(c), c.ram_log_K)

\* The sizes of read-write checking of RAM.
LEMMA RamSizes ==
    ASSUME NEW c \in Configs
    PROVE  /\ c.log_T \in Nat /\ c.ram_log_K \in Nat /\ c.p1 \in 0 .. c.log_T /\ c.p2 \in 0 .. c.ram_log_K
           /\ M4(c) \in Nat /\ M4(c) = c.ram_log_K + c.log_T
<1>1. /\ c.log_T \in Nat /\ c.ram_log_K \in Nat /\ c.p1 \in 0 .. c.log_T /\ c.p2 \in 0 .. c.ram_log_K
  BY ConfigAssumption
<1> QED
  BY <1>1 DEF M4

\* All challenges of a batch.
LEMMA WholePart ==
    ASSUME NEW b \in Nat, NEW max \in Nat
    PROVE  Part(b, max, max) \in Points /\ Len(Part(b, max, max)) = max
           /\ \A j \in 1 .. max : Part(b, max, max)[j] = <<b, j>>
<1>1. max \in 0 .. max
  OBVIOUS
<1>2. /\ Part(b, max, max) \in Points /\ Len(Part(b, max, max)) = max
      /\ \A j \in 1 .. max : Part(b, max, max)[j] = <<b, (max - max) + j>>
  BY <1>1, PartFacts
<1>3. \A j \in 1 .. max : (max - max) + j = j
  OBVIOUS
<1> QED
  BY <1>2, <1>3

\* RAM's point, its address and its cycle.
LEMMA RamPtIs ==
    ASSUME NEW c \in Configs
    PROVE  /\ RamPt(c) \in Points /\ Len(RamPt(c)) = c.ram_log_K + c.log_T
           /\ RamAddr(c) \in Points /\ Len(RamAddr(c)) = c.ram_log_K
           /\ RamCyc(c) \in Points /\ Len(RamCyc(c)) = c.log_T
           /\ RamAddr(c) \o RamCyc(c) = RamPt(c)
<1> DEFINE K == c.ram_log_K
           T == c.log_T
           p1 == c.p1
           p2 == c.p2
           b == 4
           m == M4(c)
           r == Part(b, m, m)
           point == ReadWritePoint(T, p1, p2, r)
<1>1. K \in Nat /\ T \in Nat /\ p1 \in 0 .. T /\ p2 \in 0 .. K /\ m = K + T /\ m \in Nat /\ b \in Nat
  BY RamSizes
<1> HIDE DEF K, T, p1, p2, m, b
<1>2. r \in Points /\ Len(r) = K + T
  BY <1>1, WholePart
<1> HIDE DEF r
<1>3. point = ReadWritePoint(T, p1, p2, r)
  OBVIOUS
<1> HIDE DEF point
<1>4. /\ point \in Points /\ Len(point) = K + T
      /\ First(point, K) \in Points /\ Len(First(point, K)) = K
      /\ From(point, K) \in Points /\ Len(From(point, K)) = T
  BY <1>1, <1>2, <1>3, ReadWriteSplit
<1>5. First(point, K) \o From(point, K) = point
  <2>1. K <= Len(point)
    BY <1>1, <1>4
  <2> QED
    BY <1>1, <1>4, <2>1, SplitJoin, Zenon
<1>6. RamPt(c) = point /\ RamAddr(c) = First(point, K) /\ RamCyc(c) = From(point, K)
  <2>1. RamPt(c) = point
    BY DEF RamPt, point, r, T, p1, p2, m, b
  <2> QED
    BY <2>1, Zenon DEF RamAddr, RamCyc, K
<1> QED
  BY <1>4, <1>5, <1>6 DEF K, T

\* The checks of the address end with that of read-write checking.
LEMMA GappedIs ==
    ASSUME NEW c \in Configs, NEW s, s = SubSeq(Challenges(4, M4(c)), c.p1 + 1, M4(c))
    PROVE  s \in Points /\ Len(s) = GappedRounds(c) /\ GappedAddress(c, s) = RamAddr(c)
<1> DEFINE K == c.ram_log_K
           T == c.log_T
           p1 == c.p1
           p2 == c.p2
           b == 4
           m == M4(c)
           all == Challenges(b, m)
           r == Part(b, m, m)
           n == m - p1
           k == p2 + (T - p1)
           f == First(s, p2)
           g == From(s, k)
           h == K - p2
           w == f \o g
           v == Reverse(w)
           point == RamPt(c)
           u == RamAddr(c)
<1>1. K \in Nat /\ T \in Nat /\ p1 \in 0 .. T /\ p2 \in 0 .. K /\ m = K + T /\ m \in Nat /\ b \in Nat
  BY RamSizes
<1>20. s = SubSeq(all, p1 + 1, m) /\ GappedRounds(c) = T + K - p1 /\ GappedAddress(c, s) = v
  BY DEF GappedRounds, GappedAddress, Gap
<1>21. point = ReadWritePoint(T, p1, p2, r)
  BY DEF RamPt
<1>22. u = First(point, K) /\ u \in Points /\ Len(u) = K /\ point \in Points /\ Len(point) = K + T
  BY RamPtIs DEF RamAddr
<1> HIDE DEF K, T, p1, p2, m, b, point, u
<1>2. all \in Points /\ Len(all) = m /\ \A j \in 1 .. m : all[j] = <<b, j>>
  BY <1>1, ChallengesPoint DEF Challenges
<1>3. r \in Points /\ Len(r) = m /\ \A j \in 1 .. m : r[j] = <<b, j>>
  BY <1>1, WholePart
<1> HIDE DEF all, r
<1>4. n \in Nat /\ k \in Nat /\ h \in Nat /\ p2 \in Nat /\ p1 \in Nat /\ p1 <= m /\ p2 <= n /\ k <= n /\ n - k = h
      /\ p2 + h = K /\ n = T + K - p1 /\ m <= Len(all)
  BY <1>1, <1>2
<1>5. PartOf(s, all, p1, n)
  <2> HIDE DEF n, k, h, f, g, w, v
  <2>1. n = m - p1
    BY DEF n
  <2> QED
    BY <1>1, <1>2, <1>4, <1>20, <2>1, PartPlaces
<1>6. s \in Points /\ Len(s) = n /\ \A j \in 1 .. n : s[j] = <<b, p1 + j>>
  <2>1. \A j \in 1 .. n : p1 + j \in 1 .. m
    BY <1>1
  <2> QED
    BY <1>2, <1>5, <2>1 DEF PartOf
<1>7. f \in Points /\ Len(f) = p2 /\ \A j \in 1 .. p2 : f[j] = s[j]
  <2>1. p2 \in Nat /\ p2 <= Len(s) /\ f = First(s, p2) /\ s \in Points
    BY <1>4, <1>6
  <2> HIDE DEF n, k, h, f
  <2> QED
    BY <2>1, FirstPart
<1>8. PartOf(g, s, k, h)
  <2> HIDE DEF n, k, h
  <2> QED
    BY <1>4, <1>6, LastPart
<1>23. \A j \in 1 .. h : k + j \in 1 .. n /\ p1 + (k + j) = T + p2 + j
  BY <1>1
<1>24. \A j \in 1 .. p2 : j \in 1 .. n
  BY <1>4
<1> HIDE DEF f, g, n, k, h
<1>9. PlacesOf(f, p2) /\ PlacesOf(g, h)
  BY <1>7, <1>8, PointPlaces DEF PartOf
<1>10. Joined(f, p2, g, h)
  BY <1>4, <1>9, JoinPlaces
<1>11. w \in Points /\ Len(w) = K
  BY <1>4, <1>7, <1>8, JoinPoints DEF PartOf
<1>12. \A j \in 1 .. p2 : w[j] = <<b, p1 + j>>
  BY <1>6, <1>7, <1>10, <1>24 DEF Joined
<1>13. \A j \in 1 .. h : w[p2 + j] = <<b, T + p2 + j>>
  <2> SUFFICES ASSUME NEW j \in 1 .. h PROVE w[p2 + j] = <<b, T + p2 + j>>
    OBVIOUS
  <2>1. w[p2 + j] = g[j]
    BY <1>10 DEF Joined
  <2>2. g[j] = s[k + j]
    BY <1>8 DEF PartOf
  <2>3. s[k + j] = <<b, p1 + (k + j)>>
    BY <1>6, <1>23
  <2> QED
    BY <1>23, <2>1, <2>2, <2>3
<1> HIDE DEF w
<1>14. v \in Points /\ Len(v) = K
  BY <1>11, ReversePoint
<1>15. PlacesOf(v, K) /\ \A j \in 1 .. K : v[j] = w[K + 1 - j]
  BY <1>11, ReversePlaces
<1> HIDE DEF v
<1>16. PlacedBy(point, r, K, T, p1, p2, m)
  BY <1>1, <1>3, <1>21, ReadWritePlaces
<1>17. PlacesOf(u, K) /\ \A j \in 1 .. K : u[j] = point[j]
  <2>1. K <= Len(point)
    BY <1>1, <1>22
  <2> QED
    BY <1>1, <1>22, <2>1, FirstPart, PointPlaces
<1>18. \A j \in 1 .. K : v[j] = u[j]
  <2> SUFFICES ASSUME NEW j \in 1 .. K PROVE v[j] = u[j]
    OBVIOUS
  <2>1. j \in 1 .. m /\ u[j] = r[RoundOf(K, T, p1, p2, j)] /\ v[j] = w[K + 1 - j]
    <3>1. j \in 1 .. m
      BY <1>1
    <3> QED
      BY <1>15, <1>16, <1>17, <3>1 DEF PlacedBy
  <2>2. CASE j <= K - p2
    <3>1. RoundOf(K, T, p1, p2, j) = K + T + 1 - j /\ K + T + 1 - j \in 1 .. m
      BY <1>1, <2>2 DEF RoundOf
    <3>2. K + 1 - j - p2 \in 1 .. h /\ p2 + (K + 1 - j - p2) = K + 1 - j
          /\ T + p2 + (K + 1 - j - p2) = K + T + 1 - j
      BY <1>1, <2>2 DEF h
    <3>3. w[K + 1 - j] = <<b, K + T + 1 - j>>
      BY <1>13, <3>2
    <3> QED
      BY <1>3, <2>1, <3>1, <3>3
  <2>3. CASE ~(j <= K - p2)
    <3>1. RoundOf(K, T, p1, p2, j) = K + 1 + p1 - j /\ K + 1 + p1 - j \in 1 .. m
      BY <1>1, <2>3 DEF RoundOf
    <3>2. K + 1 - j \in 1 .. p2 /\ p1 + (K + 1 - j) = K + 1 + p1 - j
      BY <1>1, <2>3
    <3>3. w[K + 1 - j] = <<b, K + 1 + p1 - j>>
      BY <1>12, <3>2
    <3> QED
      BY <1>3, <2>1, <3>1, <3>3
  <2> QED
    BY <2>2, <2>3
<1>19. v = u
  BY <1>1, <1>15, <1>17, <1>18, SamePlaces
<1> QED
  BY <1>4, <1>6, <1>19, <1>20 DEF u

\* Three claims of different keys.
LEMMA ThreeJoin == \A x, y, z : <<x, y>> \o <<z>> = <<x, y, z>>
<1> SUFFICES ASSUME NEW x, NEW y, NEW z PROVE <<x, y>> \o <<z>> = <<x, y, z>>
  OBVIOUS
<1> DEFINE S == {x, y, z}
           s == <<x, y>>
           t == <<z>>
           u == <<x, y, z>>
<1>1. s \in Seq(S) /\ t \in Seq(S) /\ u \in Seq(S)
  OBVIOUS
<1>2. Len(s) = 2 /\ Len(t) = 1 /\ Len(u) = 3 /\ s \o t \in Seq(S) /\ Len(s \o t) = 3
  BY <1>1
<1>3. \A i \in 1 .. 3 : i = 1 \/ i = 2 \/ i = 3
  OBVIOUS
<1>4. (s \o t)[1] = x /\ (s \o t)[2] = y /\ (s \o t)[3] = z
  BY <1>1, <1>2
<1>5. \A i \in 1 .. 3 : (s \o t)[i] = u[i]
  BY <1>3, <1>4
<1> HIDE DEF s, t, u
<1>6. s \o t = u
  BY <1>1, <1>2, <1>5, SeqEqual
<1> QED
  BY <1>6 DEF s, t, u

\* A list of three claims with keys of their own.
LEMMA SaysThree ==
    ASSUME NEW x, NEW y, NEW z, x.key # y.key, x.key # z.key, y.key # z.key
    PROVE  Says(<<x, y, z>>, {Use(x.key, x.point), Use(y.key, y.point), Use(z.key, z.point)})
<1> DEFINE u == Use(x.key, x.point)
           v == Use(y.key, y.point)
           w == Use(z.key, z.point)
<1>1. u.key = x.key /\ v.key = y.key /\ w.key = z.key
  BY UseIs
<1>2. Says(<<x>>, {u}) /\ Says(<<y>>, {v}) /\ Says(<<z>>, {w})
  BY SaysOne
<1> HIDE DEF u, v, w
<1>3. Apart({u}, {v}) /\ Apart({u} \cup {v}, {w})
  BY <1>1 DEF Apart
<1>4. Says(<<x>> \o <<y>>, {u} \cup {v})
  BY <1>2, <1>3, SaysJoin, Zenon
<1>5. Says(<<x, y>>, {u} \cup {v})
  BY <1>4, TwoJoin, Zenon
<1>6. Says(<<x, y>> \o <<z>>, ({u} \cup {v}) \cup {w})
  BY <1>2, <1>3, <1>5, SaysJoin, Zenon
<1>7. Says(<<x, y, z>>, ({u} \cup {v}) \cup {w})
  BY <1>6, ThreeJoin, Zenon
<1>8. ({u} \cup {v}) \cup {w} = {u, v, w}
  OBVIOUS
<1> QED
  BY <1>7, <1>8, Zenon DEF u, v, w

\* Three claims of different keys.
LEMMA LeavesThree ==
    ASSUME NEW k, NEW p, NEW b, NEW j, NEW q, NEW d, NEW l, NEW o, NEW e, j # k, l # k, l # j
    PROVE  /\ Says(<<Opened(k, p, b), Opened(j, q, d), Opened(l, o, e)>>, {Use(k, p), Use(j, q), Use(l, o)})
           /\ Says(<<Expect(k, p), Expect(j, q), Expect(l, o)>>, {Use(k, p), Use(j, q), Use(l, o)})
<1> DEFINE x == Opened(k, p, b)
           y == Opened(j, q, d)
           z == Opened(l, o, e)
           u == Expect(k, p)
           v == Expect(j, q)
           w == Expect(l, o)
<1>1. /\ x.key = k /\ x.point = p /\ y.key = j /\ y.point = q /\ z.key = l /\ z.point = o
      /\ u.key = k /\ u.point = p /\ v.key = j /\ v.point = q /\ w.key = l /\ w.point = o
  BY OpenedIs
<1> HIDE DEF x, y, z, u, v, w
<1>2. Says(<<x, y, z>>, {Use(x.key, x.point), Use(y.key, y.point), Use(z.key, z.point)})
  BY <1>1, SaysThree
<1>3. Says(<<u, v, w>>, {Use(u.key, u.point), Use(v.key, v.point), Use(w.key, w.point)})
  BY <1>1, SaysThree
<1> QED
  BY <1>1, <1>2, <1>3, Zenon DEF x, y, z, u, v, w

\* Read-write checking of RAM.
RamClaims(c) ==
    {Use(RamRW("RamVal"), RamPt(c)), Use(RamRW("RamRa"), RamPt(c)),
     Use(RamInc("RamReadWriteChecking"), RamCyc(c))}

\* Read-write checking of RAM takes the outer sumcheck's values and leaves its claims.
LEMMA RamGiven ==
    ASSUME NEW c \in Configs, NEW acc, NEW T, Knows(acc, T), OuterClaims(c) \subseteq T,
           NEW b, b = 4, NEW max, max = M4(c)
    PROVE  /\ Given(RamReadWrite(acc, c), b, max, T, RamClaims(c), c)
           /\ Sound(RamClaims(c), {"RamReadWriteChecking"}, c)
<1> DEFINE x == RamReadWrite(acc, c)
           r == Part(b, max, max)
           s == "RamReadWriteChecking"
           p == RamPt(c)
           q == RamCyc(c)
           k1 == RamRW("RamVal")
           k2 == RamRW("RamRa")
           k3 == RamInc("RamReadWriteChecking")
<1>1. Plain(x) /\ x.rounds = max /\ max \in Nat /\ b \in Nat
  BY RamReadWriteFacts, RamSizes
<1>2. r \in Points
  <2> HIDE DEF x
  <2> QED
    BY <1>1, WholePart
<1>3. x.uses = Uses({Outer("RamReadValue"), Outer("RamWriteValue")}, PointOf(acc, Outer("RamReadValue")))
  BY DEF RamReadWrite, Instance
<1>4. x.prover[r] = RamReadWriteProver(c, r) /\ x.verifier[r] = RamReadWriteVerifier(c, r)
  BY <1>2 DEF RamReadWrite, Instance
<1>5. p = ReadWritePoint(c.log_T, c.p1, c.p2, r) /\ q = From(p, c.ram_log_K)
  BY DEF RamPt, RamCyc
<1>6. PICK e, f, g : RamReadWriteProver(c, r) = <<Opened(k1, p, e), Opened(k2, p, f), Opened(k3, q, g)>>
  BY <1>5 DEF RamReadWriteProver
<1>7. RamReadWriteVerifier(c, r) = <<Expect(k1, p), Expect(k2, p), Expect(k3, q)>>
  BY <1>5 DEF RamReadWriteVerifier
<1>8. k1 # k2 /\ k1 # k3 /\ k2 # k3
  BY DEF RamRW, RamInc, At, Virt, Comm
<1>9. RamClaims(c) = {Use(k1, p), Use(k2, p), Use(k3, q)}
  BY DEF RamClaims
<1> HIDE DEF x, r, p, q, k1, k2, k3
<1>10. Leaves(x, r, RamClaims(c))
  BY <1>4, <1>6, <1>7, <1>8, <1>9, LeavesThree DEF Leaves
<1>11. Sound(RamClaims(c), {s}, c)
  <2>1. Virt("RamVal") \in Polynomials(c) /\ Virt("RamRa") \in Polynomials(c) /\ Comm("RamInc") \in Polynomials(c)
    BY PolynomialsHave DEF Witnesses
  <2>2. p \in Points /\ q \in Points
    BY RamPtIs DEF p, q
  <2>3. k1 = At(Virt("RamVal"), s) /\ k2 = At(Virt("RamRa"), s) /\ k3 = At(Comm("RamInc"), s)
    BY DEF k1, k2, k3, RamRW, RamInc
  <2> HIDE DEF s
  <2>4. Sound({Use(k1, p)}, {s}, c) /\ Sound({Use(k2, p)}, {s}, c) /\ Sound({Use(k3, q)}, {s}, c)
    BY <2>1, <2>2, <2>3, SoundOne
  <2> QED
    BY <1>9, <2>4 DEF Sound
<1>12. x.uses \subseteq T
  <2>1. "RamReadValue" \in VirtualInputs /\ "RamWriteValue" \in VirtualInputs
    BY DEF VirtualInputs
  <2>2. /\ Use(Outer("RamReadValue"), OuterPt(c)) \in T /\ Use(Outer("RamWriteValue"), OuterPt(c)) \in T
        /\ PointOf(acc, Outer("RamReadValue")) = OuterPt(c)
    BY <2>1, OuterKnown
  <2> QED
    BY <1>3, <2>2 DEF Uses
<1>13. Given(x, b, max, T, RamClaims(c), c)
  BY <1>1, <1>10, <1>11, <1>12, GivenPlain DEF r
<1> QED
  BY <1>11, <1>13 DEF x

\* The RAF and the output check.
RafClaims(c) == {Use(RamRa("RamRafEvaluation"), RamAddr(c) \o OuterPt(c))}

\* The claim of the output check.
OutputClaims(c) == {Use(At(Virt("RamValFinal"), "RamOutputCheck"), RamAddr(c))}

\* The challenges of the RAF and the output check, without those of the gap.
LEMMA GappedSlice ==
    ASSUME NEW c \in Configs, NEW x, x.offset = GappedOffset(c), x.rounds = GappedRounds(c),
           NEW b, b = 4, NEW max, max = M4(c)
    PROVE  Slice(x, Challenges(b, max)) = SubSeq(Challenges(4, M4(c)), c.p1 + 1, M4(c))
<1>1. max \in Nat /\ b \in Nat /\ c.log_T \in Nat /\ c.ram_log_K \in Nat /\ c.p1 \in 0 .. c.log_T
      /\ max = c.ram_log_K + c.log_T
  BY RamSizes
<1>2. Len(Challenges(b, max)) = max
  BY <1>1, ChallengesPoint
<1>3. x.offset[max] = max - (c.log_T + c.ram_log_K) + c.p1
  BY <1>1 DEF GappedOffset
<1>4. x.offset[max] = c.p1
  BY <1>1, <1>3
<1>5. c.p1 + x.rounds = max
  BY <1>1 DEF GappedRounds
<1> QED
  BY <1>2, <1>4, <1>5 DEF Slice

\* The RAF and the output check.
LEMMA GappedGiven ==
    ASSUME NEW c \in Configs, NEW acc, NEW T, Knows(acc, T), OuterClaims(c) \subseteq T,
           NEW b, b = 4, NEW max, max = M4(c)
    PROVE  /\ Given(RamRaf(acc, c), b, max, T, RafClaims(c), c)
           /\ Given(RamOutput(c), b, max, T, OutputClaims(c), c)
           /\ Sound(RafClaims(c), {"RamRafEvaluation"}, c) /\ Sound(OutputClaims(c), {"RamOutputCheck"}, c)
<1> DEFINE x == RamRaf(acc, c)
           y == RamOutput(c)
           s == SubSeq(Challenges(4, M4(c)), c.p1 + 1, M4(c))
           r_cycle == PointOf(acc, Outer("RamAddress"))
<1>1. AccPoints(acc)
  BY DEF Knows
<1>2. /\ x.offset = GappedOffset(c) /\ x.rounds = GappedRounds(c)
      /\ y.offset = GappedOffset(c) /\ y.rounds = GappedRounds(c)
  BY <1>1, GappedFacts
<1>3. s \in Points /\ GappedAddress(c, s) = RamAddr(c)
  BY GappedIs
<1>4. /\ x.prover[s] = RamRafProver(r_cycle, c, s) /\ x.verifier[s] = RamRafVerifier(r_cycle, c, s)
      /\ x.uses = Uses({Outer("RamAddress")}, r_cycle)
  BY <1>3 DEF RamRaf, Gapped, Instance
<1>5. /\ y.prover[s] = RamOutputProver(c, s) /\ y.verifier[s] = RamOutputVerifier(c, s) /\ y.uses = {}
  BY <1>3 DEF RamOutput, Gapped, Instance
<1>6. Use(Outer("RamAddress"), OuterPt(c)) \in T /\ r_cycle = OuterPt(c)
  <2>1. "RamAddress" \in VirtualInputs
    BY DEF VirtualInputs
  <2> QED
    BY <2>1, OuterKnown
<1> HIDE DEF x, y, s, r_cycle
<1>7. Slice(x, Challenges(b, max)) = s /\ Slice(y, Challenges(b, max)) = s
  BY <1>2, GappedSlice DEF s
<1>8. Leaves(x, s, RafClaims(c))
  BY <1>3, <1>4, <1>6, LeavesOne DEF Leaves, RafClaims, RamRafProver, RamRafVerifier
<1>9. Leaves(y, s, OutputClaims(c))
  BY <1>3, <1>5, LeavesOne DEF Leaves, OutputClaims, RamOutputProver, RamOutputVerifier
<1>10. Sound(RafClaims(c), {"RamRafEvaluation"}, c) /\ Sound(OutputClaims(c), {"RamOutputCheck"}, c)
  <2>1. RamAddr(c) \in Points /\ RamAddr(c) \o OuterPt(c) \in Points
    BY RamPtIs, OuterPtIs, JoinPoints
  <2>2. Virt("RamRa") \in Polynomials(c) /\ Virt("RamValFinal") \in Polynomials(c)
    BY PolynomialsHave DEF Witnesses
  <2>3. RamRa("RamRafEvaluation") = At(Virt("RamRa"), "RamRafEvaluation")
    BY DEF RamRa
  <2> QED
    BY <2>1, <2>2, <2>3, SoundOne DEF RafClaims, OutputClaims
<1>11. x.uses \subseteq T /\ y.uses \subseteq T
  BY <1>4, <1>5, <1>6 DEF Uses
<1> QED
  BY <1>7, <1>8, <1>9, <1>10, <1>11 DEF Given, x, y

\* Keys of claims.
LEMMA KeysAre ==
    /\ \A S, p : Keys(Uses(S, p)) = S
    /\ \A U, V : Keys(U \cup V) = Keys(U) \cup Keys(V)
    /\ \A k, p : Keys({Use(k, p)}) = {k}
<1>1. ASSUME NEW S, NEW p PROVE Keys(Uses(S, p)) = S
  <2>1. \A k : Use(k, p).key = k
    BY UseIs
  <2>2. \A u : u \in Uses(S, p) <=> \E k \in S : u = Use(k, p)
    BY DEF Uses
  <2> DEFINE U == Uses(S, p)
  <2>3. \A k : k \in Keys(U) <=> \E u \in U : k = u.key
    BY DEF Keys
  <2> HIDE DEF U
  <2>4. \A k : k \in Keys(U) <=> k \in S
    BY <2>1, <2>2, <2>3 DEF U
  <2> QED
    BY <2>4 DEF U
<1>2. ASSUME NEW U, NEW V PROVE Keys(U \cup V) = Keys(U) \cup Keys(V)
  BY DEF Keys
<1>3. ASSUME NEW k, NEW p PROVE Keys({Use(k, p)}) = {k}
  BY DEF Keys, Use
<1> QED
  BY <1>1, <1>2, <1>3

\* What a stage does to a side: claims V are added, and those with keys in Q are used.
Went(side, t, T, V, Q) ==
    /\ SideKnows(t, T \cup V)
    /\ t.wrong = side.wrong /\ t.advice = side.advice
    /\ side.used \subseteq t.used /\ Q \subseteq t.used

\* A batch is such a step.
LEMMA RanWent ==
    ASSUME NEW side, NEW t, NEW T, NEW V, NEW R, Ran(side, t, T, V, R), NEW Q, Q \subseteq R
    PROVE  Went(side, t, T, V, Q)
<1> QED
  BY DEF Ran, Went

\* Two such steps.
LEMMA WentTwice ==
    ASSUME NEW side, NEW t, NEW T, NEW V, NEW Q, Went(side, t, T, V, Q),
           NEW u, NEW W, NEW R, Went(t, u, T \cup V, W, R)
    PROVE  Went(side, u, T, V \cup W, Q \cup R)
<1>1. T \cup (V \cup W) = (T \cup V) \cup W
  OBVIOUS
<1>2. SideKnows(u, T \cup (V \cup W))
  BY <1>1, Zenon DEF Went
<1> QED
  BY <1>2 DEF Went

\* No claim at all has no key in common with any.
LEMMA NothingKnown ==
    ASSUME NEW U
    PROVE  Apart({}, U)
<1> QED
  BY DEF Apart

\* The rounds of a batch of one.
LEMMA OneMax ==
    ASSUME NEW x, NEW m \in Nat, x.rounds = m
    PROVE  m = MaxRounds(<<x>>)
<1> DEFINE batch == <<x>>
           n == 1
<1>1. n \in Nat \ {0} /\ DOMAIN batch = 1 .. n /\ \A i \in 1 .. n : batch[i].rounds = m
  OBVIOUS
<1>2. 1 \in 1 .. n
  OBVIOUS
<1> HIDE DEF batch, n
<1>3. /\ \A i \in 1 .. n : batch[i].rounds \in Nat /\ batch[i].rounds <= m
      /\ \E i \in 1 .. n : batch[i].rounds = m
  BY <1>1, <1>2
<1>4. MaxRounds(batch) = m
  BY <1>1, <1>3, MaxRoundsIs
<1> QED
  BY <1>4 DEF batch

\* Stage 1.
K1(c) == SkipClaims \cup OuterClaims(c)

\* The claims of stage 1.
LEMMA K1Sound ==
    ASSUME NEW c \in Configs
    PROVE  /\ Sound(SkipClaims, {"SpartanOuter"}, c) /\ Sound(OuterClaims(c), {"SpartanOuter"}, c)
           /\ Apart(SkipClaims, OuterClaims(c)) /\ Sound(K1(c), {"SpartanOuter"}, c)
<1> DEFINE p == OuterPt(c)
           s == "SpartanOuter"
<1>0. p \in Points /\ Range(R1CSInputs) \subseteq Polynomials(c)
  BY OuterPtIs, PolynomialsHave
<1>1. Sound(SkipClaims, {"SpartanOuter"}, c)
  <2> DEFINE b == 1
             max == 1
  <2>1. b = 1 /\ max = 1
    OBVIOUS
  <2> HIDE DEF b, max
  <2> QED
    BY <2>1, SkipGiven
<1>2. Sound(OuterClaims(c), {"SpartanOuter"}, c)
  <2> HIDE DEF p, s
  <2>1. Sound(EachOf(R1CSInputs, s, p), {s}, c)
    BY <1>0, SoundEach
  <2> QED
    BY <2>1 DEF p, s, OuterClaims
<1>3. Apart(SkipClaims, OuterClaims(c))
  <2>1. \A u \in SkipClaims : u.key.poly = Virt("UnivariateSkip")
    BY DEF SkipClaims, Use, Outer, At
  <2>2. \A u \in OuterClaims(c) : u.key.poly \in Range(R1CSInputs)
    BY EachIs DEF OuterClaims
  <2>3. Virt("UnivariateSkip") \notin Range(R1CSInputs)
    <3>1. \A n \in VirtualInputs : n # "UnivariateSkip"
      BY DEF VirtualInputs
    <3>2. \A n : Virt(n)[2] = n /\ Virt(n)[1] = "virtual"
      BY DEF Virt
    <3>3. \A n \in VirtualInputs : Virt(n) # Virt("UnivariateSkip")
      BY <3>1, <3>2
    <3>4. Virt("UnivariateSkip") \notin CircuitFlags
      BY <3>2 DEF CircuitFlags
    <3> QED
      BY <3>3, <3>4, InputsAre
  <2> QED
    BY <2>1, <2>2, <2>3 DEF Apart
<1>4. Sound(K1(c), {"SpartanOuter"}, c)
  BY <1>1, <1>2 DEF Sound, K1
<1> QED
  BY <1>1, <1>2, <1>3, <1>4

\* After stage 1 a side knows them and has used the claim of the first round.
LEMMA Stage1Knows ==
    ASSUME NEW c \in Configs, NEW who \in Sides, NEW side, NEW T, T = {}, SideKnows(side, T)
    PROVE  Went(side, Stage1(who, side, c), T, K1(c), Keys(SkipClaims))
<1> DEFINE b == 1
           m == 1
           x == OuterUniSkip
           skipped == Run(who, side, b, <<x>>)
           d == 2
           n == 1 + c.log_T
           y == OuterRemaining(skipped.acc, c)
           after == Run(who, skipped, d, <<y>>)
           S == T \cup SkipClaims
<1>1. Stage1(who, side, c) = after
  BY DEF Stage1
<1>2. b = 1 /\ m = 1 /\ d = 2 /\ n = 1 + c.log_T /\ m \in Nat /\ n \in Nat
  BY ConfigAssumption
<1>3. x.rounds = m
  BY OuterUniSkipFacts
<1>4. Keys({}) \subseteq Keys(x.uses)
  BY DEF Keys
<1>5. y.uses = {Use(Outer("UnivariateSkip"), PointOf(skipped.acc, Outer("UnivariateSkip")))}
  BY DEF OuterRemaining, Instance
<1>6. Keys(SkipClaims) = Keys(y.uses)
  <2>1. Keys(SkipClaims) = {Outer("UnivariateSkip")}
    BY KeysAre DEF SkipClaims
  <2>2. Keys(y.uses) = {Outer("UnivariateSkip")}
    BY <1>5, KeysAre, Zenon
  <2> QED
    BY <2>1, <2>2
<1>14. y.rounds = n
  BY OuterRemainingFacts
<1>15. y = OuterRemaining(skipped.acc, c)
  OBVIOUS
<1> HIDE DEF b, m, x, d, n, y
<1>7. m = MaxRounds(<<x>>)
  BY <1>2, <1>3, OneMax
<1>8. Given(x, b, m, T, SkipClaims, c)
  BY <1>2, SkipGiven DEF x
<1>9. OneGivens(T, b, x, m, SkipClaims, c)
  BY <1>7, <1>8, NothingKnown DEF OneGivens
<1>10. Ran(side, skipped, T, SkipClaims, Keys(x.uses))
  BY <1>9, OneRuns
<1> HIDE DEF skipped
<1>11. SideKnows(skipped, S) /\ Knows(skipped.acc, S)
  BY <1>10 DEF Ran, SideKnows
<1>12. Given(y, d, n, S, OuterClaims(c), c)
  BY <1>2, <1>11, <1>15, OuterGiven
<1>13. Apart(S, OuterClaims(c))
  BY K1Sound
<1>16. n = MaxRounds(<<y>>)
  BY <1>2, <1>14, OneMax
<1>17. OneGivens(S, d, y, n, OuterClaims(c), c)
  BY <1>12, <1>13, <1>16 DEF OneGivens
<1> HIDE DEF S
<1>18. Ran(skipped, after, S, OuterClaims(c), Keys(y.uses))
  BY <1>11, <1>17, OneRuns
<1> HIDE DEF after
<1>19. Went(side, skipped, T, SkipClaims, Keys({}))
  BY <1>4, <1>10, RanWent
<1>20. Went(skipped, after, T \cup SkipClaims, OuterClaims(c), Keys(SkipClaims))
  BY <1>6, <1>18, RanWent DEF S
<1>21. Went(side, after, T, SkipClaims \cup OuterClaims(c), Keys({}) \cup Keys(SkipClaims))
  BY <1>19, <1>20, WentTwice
<1>22. Keys({}) \cup Keys(SkipClaims) = Keys(SkipClaims)
  BY DEF Keys
<1> QED
  BY <1>1, <1>21, <1>22, Zenon DEF K1

\* Keys of some sets of claims.
LEMMA KeysFive ==
    ASSUME NEW A, NEW B, NEW D, NEW E, NEW F
    PROVE  Keys(A \cup B \cup D \cup E \cup F) = Keys(A) \cup Keys(B) \cup Keys(D) \cup Keys(E) \cup Keys(F)
<1>1. Keys(A \cup B \cup D \cup E \cup F) = Keys(A \cup B \cup D \cup E) \cup Keys(F)
  BY KeysAre, Zenon
<1>2. Keys(A \cup B \cup D \cup E) = Keys(A \cup B \cup D) \cup Keys(E)
  BY KeysAre, Zenon
<1>3. Keys(A \cup B \cup D) = Keys(A \cup B) \cup Keys(D)
  BY KeysAre, Zenon
<1>4. Keys(A \cup B) = Keys(A) \cup Keys(B)
  BY KeysAre, Zenon
<1> QED
  BY <1>1, <1>2, <1>3, <1>4, Zenon

\* The keys of three sets of claims.
LEMMA KeysThree ==
    ASSUME NEW A, NEW B, NEW D
    PROVE  Keys(A \cup B \cup D) = Keys(A) \cup Keys(B) \cup Keys(D)
<1>3. Keys(A \cup B \cup D) = Keys(A \cup B) \cup Keys(D)
  BY KeysAre, Zenon
<1>4. Keys(A \cup B) = Keys(A) \cup Keys(B)
  BY KeysAre, Zenon
<1> QED
  BY <1>3, <1>4, Zenon

\* Stage 2.
Beside2(c) ==
    RamClaims(c) \cup ProductClaims(c) \cup LookupClaims(c) \cup RafClaims(c) \cup OutputClaims(c)

\* The claims of stage 2.
Stage2Claims(c) == ProductSkipClaims \cup Beside2(c)

\* What is known after stage 2.
K2(c) == K1(c) \cup Stage2Claims(c)

\* What the first round of the product sumcheck uses.
Uses3 == {Outer("Product"), Outer("ShouldBranch"), Outer("ShouldJump")}

\* What the batch of stage 2 uses.
Uses4 ==
    {Outer("RamReadValue"), Outer("RamWriteValue"), Product("UnivariateSkip"), Outer("LookupOutput"),
     Outer("LeftLookupOperand"), Outer("RightLookupOperand"), Outer("LeftInstructionInput"),
     Outer("RightInstructionInput"), Outer("RamAddress")}

\* The sumchecks of stage 1.
Names1 == {"SpartanOuter"}

\* Those of the first two stages.
Names2 == {"SpartanOuter", "SpartanProductVirtualization", "RamReadWriteChecking", "InstructionClaimReduction",
           "RamRafEvaluation", "RamOutputCheck"}

\* What is added has keys of its own.
New2(c) ==
    /\ Apart(K1(c), ProductSkipClaims)
    /\ \A U \in {RamClaims(c), ProductClaims(c), LookupClaims(c), RafClaims(c), OutputClaims(c)} :
          Apart(K1(c) \cup ProductSkipClaims, U)
    /\ Apart(RamClaims(c), ProductClaims(c)) /\ Apart(RamClaims(c), LookupClaims(c))
    /\ Apart(RamClaims(c), RafClaims(c)) /\ Apart(RamClaims(c), OutputClaims(c))
    /\ Apart(ProductClaims(c), LookupClaims(c)) /\ Apart(ProductClaims(c), RafClaims(c))
    /\ Apart(ProductClaims(c), OutputClaims(c))
    /\ Apart(LookupClaims(c), RafClaims(c)) /\ Apart(LookupClaims(c), OutputClaims(c))
    /\ Apart(RafClaims(c), OutputClaims(c))

\* The claims of stage 2, sumcheck by sumcheck.
LEMMA Sound2 ==
    ASSUME NEW c \in Configs
    PROVE  /\ Sound(ProductSkipClaims, {"SpartanProductVirtualization"}, c)
           /\ Sound(RamClaims(c), {"RamReadWriteChecking"}, c)
           /\ Sound(ProductClaims(c), {"SpartanProductVirtualization"}, c)
           /\ Sound(LookupClaims(c), {"InstructionClaimReduction"}, c)
           /\ Sound(RafClaims(c), {"RamRafEvaluation"}, c) /\ Sound(OutputClaims(c), {"RamOutputCheck"}, c)
<1>1. /\ Virt("RamVal") \in Polynomials(c) /\ Virt("RamRa") \in Polynomials(c) /\ Comm("RamInc") \in Polynomials(c)
      /\ Virt("UnivariateSkip") \in Polynomials(c) /\ Virt("RamValFinal") \in Polynomials(c)
  BY PolynomialsHave DEF Witnesses
<1>2. /\ RamPt(c) \in Points /\ RamCyc(c) \in Points /\ RamAddr(c) \in Points
      /\ RamAddr(c) \o OuterPt(c) \in Points /\ Pt2(c) \in Points
  BY RamPtIs, OuterPtIs, JoinPoints, Pt2Is
<1>3. Part(3, 1, 1) \in Points
  <2> DEFINE b == 3
             m == 1
  <2>1. b \in Nat /\ m \in Nat
    OBVIOUS
  <2> HIDE DEF b, m
  <2>2. Part(b, m, m) \in Points
    BY <2>1, WholePart
  <2> QED
    BY <2>2 DEF b, m
<1>4. Sound(ProductSkipClaims, {"SpartanProductVirtualization"}, c)
  BY <1>1, <1>3, SoundOne DEF ProductSkipClaims, Product
<1>5. Sound(RamClaims(c), {"RamReadWriteChecking"}, c)
  <2> DEFINE s == "RamReadWriteChecking"
  <2> HIDE DEF s
  <2>1. /\ Sound({Use(At(Virt("RamVal"), s), RamPt(c))}, {s}, c)
        /\ Sound({Use(At(Virt("RamRa"), s), RamPt(c))}, {s}, c)
        /\ Sound({Use(At(Comm("RamInc"), s), RamCyc(c))}, {s}, c)
    BY <1>1, <1>2, SoundOne
  <2> QED
    BY <2>1 DEF Sound, RamClaims, s, RamRW, RamInc
<1>6. Sound(ProductClaims(c), {"SpartanProductVirtualization"}, c)
  BY <1>2, PolynomialsHave, SoundEach DEF ProductClaims
<1>7. Sound(LookupClaims(c), {"InstructionClaimReduction"}, c)
  BY <1>2, ShortPolynomials, SoundEach DEF LookupClaims
<1>8. Sound(RafClaims(c), {"RamRafEvaluation"}, c) /\ Sound(OutputClaims(c), {"RamOutputCheck"}, c)
  BY <1>1, <1>2, SoundOne DEF RafClaims, OutputClaims, RamRa
<1> QED
  BY <1>4, <1>5, <1>6, <1>7, <1>8

\* All claims so far, and that those of stage 2 are new.
LEMMA K2Sound ==
    ASSUME NEW c \in Configs
    PROVE  Sound(K2(c), Names2, c) /\ New2(c)
<1> DEFINE T == K1(c)
           S == K1(c) \cup ProductSkipClaims
           P == {"SpartanProductVirtualization"}
<1> HIDE DEF T, S
<1>4. Sound(ProductSkipClaims, P, c)
  BY Sound2
<1>5. Sound(RamClaims(c), {"RamReadWriteChecking"}, c)
  BY Sound2
<1>6. Sound(ProductClaims(c), P, c)
  BY Sound2
<1>7. Sound(LookupClaims(c), {"InstructionClaimReduction"}, c)
  BY Sound2
<1>8. Sound(RafClaims(c), {"RamRafEvaluation"}, c) /\ Sound(OutputClaims(c), {"RamOutputCheck"}, c)
  BY Sound2
<1>9. Sound(T, Names1, c)
  BY K1Sound DEF T, Names1
<1> DEFINE A == RamClaims(c)
           B == ProductClaims(c)
           D == LookupClaims(c)
           E == RafClaims(c)
           F == OutputClaims(c)
           Z == ProductSkipClaims
<1>10. Apart(Z, B)
  <2>1. \A u \in Z : u.key.poly = Virt("UnivariateSkip")
    BY DEF ProductSkipClaims, Use, Product, At
  <2>2. \A u \in B : u.key.poly \in Range(ProductFactors)
    BY EachIs DEF ProductClaims
  <2>3. Virt("UnivariateSkip") \notin Range(ProductFactors)
    BY FactorsAre DEF Virt, OpFlag, InstrFlag
  <2> QED
    BY <2>1, <2>2, <2>3 DEF Apart
<1> HIDE DEF A, B, D, E, F, Z
<1>11. Apart(T, Z)
  BY <1>4, <1>9, OtherSumchecks DEF Names1, Z
<1>12. Sound(S, Names1 \cup P, c)
  BY <1>4, <1>9 DEF S, T, Sound
<1>13. Apart(S, A) /\ Apart(S, D) /\ Apart(S, E) /\ Apart(S, F)
  BY <1>5, <1>7, <1>8, <1>12, OtherSumchecks DEF Names1, A, D, E, F
<1>14. Apart(S, B)
  <2>1. Apart(T, B)
    BY <1>6, <1>9, OtherSumchecks DEF Names1, B
  <2> QED
    BY <1>10, <2>1 DEF Apart, S, T, Z
<1>15. /\ Apart(A, B) /\ Apart(A, D) /\ Apart(A, E) /\ Apart(A, F)
       /\ Apart(B, D) /\ Apart(B, E) /\ Apart(B, F) /\ Apart(D, E) /\ Apart(D, F) /\ Apart(E, F)
  BY <1>5, <1>6, <1>7, <1>8, OtherSumchecks DEF A, B, D, E, F
<1>16. New2(c)
  BY <1>11, <1>13, <1>14, <1>15 DEF New2, A, B, D, E, F, Z, T, S
<1>17. Sound(K2(c), Names2, c)
  BY <1>4, <1>5, <1>6, <1>7, <1>8, <1>9 DEF Sound, K2, Stage2Claims, Beside2, T, Names1, Names2
<1> QED
  BY <1>16, <1>17

\* The batch of stage 2 is as long as read-write checking of RAM.
LEMMA Rounds4 ==
    ASSUME NEW c \in Configs, NEW acc, AccPoints(acc)
    PROVE  M4(c) = MaxRounds(<<RamReadWrite(acc, c), ProductRemainder(acc, c),
                               InstructionReduction(acc, c), RamRaf(acc, c), RamOutput(c)>>)
<1> DEFINE x1 == RamReadWrite(acc, c)
           x2 == ProductRemainder(acc, c)
           x3 == InstructionReduction(acc, c)
           x4 == RamRaf(acc, c)
           x5 == RamOutput(c)
           m == M4(c)
           n == 5
           batch == <<x1, x2, x3, x4, x5>>
<1>1. /\ x1.rounds = c.ram_log_K + c.log_T /\ x2.rounds = c.log_T /\ x3.rounds = c.log_T
      /\ x4.rounds = GappedRounds(c) /\ x5.rounds = GappedRounds(c)
  BY RamReadWriteFacts, CycleFacts, GappedFacts
<1>2. /\ c.log_T \in Nat /\ c.ram_log_K \in Nat /\ c.p1 \in 0 .. c.log_T /\ m \in Nat
      /\ m = c.ram_log_K + c.log_T /\ GappedRounds(c) = c.log_T + c.ram_log_K - c.p1
  BY RamSizes DEF GappedRounds
<1> HIDE DEF x1, x2, x3, x4, x5, m
<1>3. /\ x1.rounds = m /\ x2.rounds \in 0 .. m /\ x3.rounds \in 0 .. m
      /\ x4.rounds \in 0 .. m /\ x5.rounds \in 0 .. m
  BY <1>1, <1>2
<1>4. n \in Nat \ {0} /\ DOMAIN batch = 1 .. n
  OBVIOUS
<1>5. \A i \in 1 .. n : batch[i].rounds \in 0 .. m
  BY <1>2, <1>3
<1>6. batch[1].rounds = m /\ 1 \in 1 .. n
  BY <1>3
<1> HIDE DEF batch, n
<1>7. \A i \in 1 .. n : batch[i].rounds \in Nat /\ batch[i].rounds <= m
  BY <1>2, <1>5
<1>8. MaxRounds(batch) = m
  BY <1>2, <1>4, <1>6, <1>7, MaxRoundsIs
<1> QED
  BY <1>8 DEF batch, x1, x2, x3, x4, x5, m

\* What the second batch of stage 2 adds and uses.
LEMMA Beside2Knows ==
    ASSUME NEW c \in Configs, NEW who \in Sides, NEW side, NEW S, S = K1(c) \cup ProductSkipClaims,
           SideKnows(side, S), New2(c),
           NEW acc, acc = side.acc, NEW b, b = 4, NEW batch,
           batch = <<RamReadWrite(acc, c), ProductRemainder(acc, c), InstructionReduction(acc, c),
                     RamRaf(acc, c), RamOutput(c)>>
    PROVE  Went(side, Run(who, side, b, batch), S, Beside2(c), Uses4)
<1> DEFINE x1 == RamReadWrite(acc, c)
           x2 == ProductRemainder(acc, c)
           x3 == InstructionReduction(acc, c)
           x4 == RamRaf(acc, c)
           x5 == RamOutput(c)
           m == M4(c)
           U1 == RamClaims(c)
           U2 == ProductClaims(c)
           U3 == LookupClaims(c)
           U4 == RafClaims(c)
           U5 == OutputClaims(c)
<1>1. Knows(acc, S) /\ AccPoints(acc) /\ OuterClaims(c) \subseteq S /\ ProductSkipClaims \subseteq S /\ m = M4(c)
  BY DEF SideKnows, Knows, K1
<1>2. batch = <<x1, x2, x3, x4, x5>> /\ m = MaxRounds(<<x1, x2, x3, x4, x5>>)
  BY <1>1, Rounds4
<1>3. Uses4 \subseteq Keys(x1.uses \cup x2.uses \cup x3.uses \cup x4.uses \cup x5.uses)
  <2>1. x1.uses = Uses({Outer("RamReadValue"), Outer("RamWriteValue")}, PointOf(acc, Outer("RamReadValue")))
    BY DEF RamReadWrite, Instance
  <2>2. x2.uses = {Use(Product("UnivariateSkip"), PointOf(acc, Product("UnivariateSkip")))}
    BY DEF ProductRemainder, Instance
  <2>3. x3.uses = Uses({Outer("LookupOutput"), Outer("LeftLookupOperand"),
                        Outer("RightLookupOperand"), Outer("LeftInstructionInput"),
                        Outer("RightInstructionInput")}, PointOf(acc, Outer("LookupOutput")))
    BY DEF InstructionReduction, Instance
  <2>4. x4.uses = Uses({Outer("RamAddress")}, PointOf(acc, Outer("RamAddress")))
    BY DEF RamRaf, Gapped, Instance
  <2> HIDE DEF x1, x2, x3, x4, x5
  <2>5. /\ Keys(x1.uses) = {Outer("RamReadValue"), Outer("RamWriteValue")}
        /\ Keys(x2.uses) = {Product("UnivariateSkip")}
        /\ Keys(x3.uses) = {Outer("LookupOutput"), Outer("LeftLookupOperand"),
                            Outer("RightLookupOperand"), Outer("LeftInstructionInput"),
                            Outer("RightInstructionInput")}
        /\ Keys(x4.uses) = {Outer("RamAddress")}
    <3>1. Keys(x1.uses) = {Outer("RamReadValue"), Outer("RamWriteValue")}
      BY <2>1, KeysAre, Zenon
    <3>2. Keys(x2.uses) = {Product("UnivariateSkip")}
      BY <2>2, KeysAre, Zenon
    <3>3. Keys(x3.uses) = {Outer("LookupOutput"), Outer("LeftLookupOperand"),
                           Outer("RightLookupOperand"), Outer("LeftInstructionInput"),
                           Outer("RightInstructionInput")}
      BY <2>3, KeysAre, Zenon
    <3>4. Keys(x4.uses) = {Outer("RamAddress")}
      BY <2>4, KeysAre, Zenon
    <3> QED
      BY <3>1, <3>2, <3>3, <3>4, Zenon
  <2> DEFINE A == x1.uses
             B == x2.uses
             D == x3.uses
             E == x4.uses
             F == x5.uses
  <2>6. Uses4 \subseteq Keys(A) \cup Keys(B) \cup Keys(D) \cup Keys(E)
    BY <2>5 DEF Uses4
  <2> HIDE DEF A, B, D, E, F
  <2>7. Uses4 \subseteq Keys(A \cup B \cup D \cup E \cup F)
    BY <2>6, KeysFive
  <2> QED
    BY <2>7 DEF A, B, D, E, F
<1>4. /\ Apart(S, U1) /\ Apart(S, U2) /\ Apart(S, U3) /\ Apart(S, U4) /\ Apart(S, U5)
      /\ Apart(U1, U2) /\ Apart(U1, U3) /\ Apart(U1, U4) /\ Apart(U1, U5)
      /\ Apart(U2, U3) /\ Apart(U2, U4) /\ Apart(U2, U5)
      /\ Apart(U3, U4) /\ Apart(U3, U5) /\ Apart(U4, U5)
  BY DEF New2
<1> HIDE DEF m
<1>5. /\ Given(x1, b, m, S, U1, c) /\ Given(x2, b, m, S, U2, c) /\ Given(x3, b, m, S, U3, c)
      /\ Given(x4, b, m, S, U4, c) /\ Given(x5, b, m, S, U5, c)
  BY <1>1, RamGiven, ProductGiven, LookupGiven, GappedGiven
<1>6. Beside2(c) = U1 \cup U2 \cup U3 \cup U4 \cup U5
  BY DEF Beside2
<1> HIDE DEF x1, x2, x3, x4, x5, U1, U2, U3, U4, U5
<1>7. FiveGivens(S, b, x1, x2, x3, x4, x5, m, U1, U2, U3, U4, U5, c)
  BY <1>2, <1>4, <1>5 DEF FiveGivens
<1>8. Ran(side, Run(who, side, b, <<x1, x2, x3, x4, x5>>), S, U1 \cup U2 \cup U3 \cup U4 \cup U5,
          Keys(x1.uses \cup x2.uses \cup x3.uses \cup x4.uses \cup x5.uses))
  BY <1>7, FiveRuns
<1> DEFINE t == Run(who, side, b, batch)
           W == Beside2(c)
           R == Keys(x1.uses \cup x2.uses \cup x3.uses \cup x4.uses \cup x5.uses)
<1>9. Ran(side, t, S, W, R)
  BY <1>2, <1>6, <1>8, Zenon
<1> HIDE DEF t, W, R
<1>10. Went(side, t, S, W, Uses4)
  BY <1>3, <1>9, RanWent DEF R
<1> QED
  BY <1>10 DEF t, W

\* After stage 2 a side knows its claims and has used those it needs.
LEMMA Stage2Knows ==
    ASSUME NEW c \in Configs, NEW who \in Sides, NEW side, NEW T, T = K1(c), SideKnows(side, T)
    PROVE  Went(side, Stage2(who, side, c), T, Stage2Claims(c), Uses3 \cup Uses4)
<1> DEFINE b == 3
           m == 1
           x == ProductUniSkip(side.acc)
           skipped == Run(who, side, b, <<x>>)
           d == 4
           acc == skipped.acc
           batch == <<RamReadWrite(acc, c), ProductRemainder(acc, c), InstructionReduction(acc, c),
                      RamRaf(acc, c), RamOutput(c)>>
           after == Run(who, skipped, d, batch)
           S == T \cup ProductSkipClaims
<1>1. Stage2(who, side, c) = after
  BY DEF Stage2
<1>2. b = 3 /\ m = 1 /\ d = 4 /\ m \in Nat /\ OuterClaims(c) \subseteq T /\ Knows(side.acc, T)
  BY DEF K1, SideKnows
<1>3. x.rounds = m
  BY ProductUniSkipFacts
<1>4. Uses3 = Keys(x.uses)
  <2>1. x.uses = Uses({Outer("Product"), Outer("ShouldBranch"), Outer("ShouldJump")},
                      PointOf(side.acc, Outer("Product")))
    BY DEF ProductUniSkip, Instance
  <2> QED
    BY <2>1, KeysAre, Zenon DEF Uses3
<1>15. x = ProductUniSkip(side.acc)
  OBVIOUS
<1> HIDE DEF b, m, x, d
<1>7. m = MaxRounds(<<x>>)
  BY <1>2, <1>3, OneMax
<1>8. Given(x, b, m, T, ProductSkipClaims, c)
  BY <1>2, <1>15, ProductSkipGiven
<1>5. New2(c)
  BY K2Sound
<1>6. Apart(T, ProductSkipClaims)
  BY <1>5 DEF New2
<1>9. OneGivens(T, b, x, m, ProductSkipClaims, c)
  BY <1>6, <1>7, <1>8 DEF OneGivens
<1>10. Ran(side, skipped, T, ProductSkipClaims, Keys(x.uses))
  BY <1>9, OneRuns
<1>16. batch = <<RamReadWrite(acc, c), ProductRemainder(acc, c), InstructionReduction(acc, c),
                 RamRaf(acc, c), RamOutput(c)>> /\ acc = skipped.acc /\ S = K1(c) \cup ProductSkipClaims
  OBVIOUS
<1> HIDE DEF skipped, acc, batch
<1>11. SideKnows(skipped, S)
  BY <1>10 DEF Ran
<1> HIDE DEF S
<1>12. Went(skipped, after, S, Beside2(c), Uses4)
  BY <1>2, <1>5, <1>11, <1>16, Beside2Knows
<1> HIDE DEF after
<1>13. Went(side, skipped, T, ProductSkipClaims, Uses3)
  BY <1>4, <1>10, RanWent
<1>14. Went(skipped, after, T \cup ProductSkipClaims, Beside2(c), Uses4)
  BY <1>12 DEF S
<1>17. Went(side, after, T, ProductSkipClaims \cup Beside2(c), Uses3 \cup Uses4)
  BY <1>13, <1>14, WentTwice
<1> QED
  BY <1>1, <1>17, Zenon DEF Stage2Claims

----------------------------------------------------------------------------
(* The third stage. *)

\* A point without others after it.
LEMMA FirstWhole ==
    ASSUME NEW s \in Points, NEW n, n = Len(s)
    PROVE  First(s, n) = s
<1> DEFINE f == First(s, n)
<1>1. n \in Nat /\ n <= Len(s) /\ PlacesOf(s, n)
  BY PointPlaces DEF Points
<1>2. f \in Points /\ Len(f) = n /\ \A j \in 1 .. n : f[j] = s[j]
  BY <1>1, FirstPart
<1> HIDE DEF f
<1>3. PlacesOf(f, n)
  BY <1>2, PointPlaces
<1>4. f = s
  BY <1>1, <1>2, <1>3, SamePlaces
<1> QED
  BY <1>4 DEF f

\* A claim of a list is found at its point.
LEMMA EachKnown ==
    ASSUME NEW acc, NEW T, Knows(acc, T), NEW polys, NEW s, NEW p, EachOf(polys, s, p) \subseteq T,
           NEW q \in Range(polys)
    PROVE  Use(At(q, s), p) \in T /\ PointOf(acc, At(q, s)) = p
<1>1. Use(At(q, s), p) \in T
  BY InEach
<1> QED
  BY <1>1, KnownUse

\* The same for a factor of the products.
LEMMA ProductKnown ==
    ASSUME NEW c \in Configs, NEW acc, NEW T, Knows(acc, T), ProductClaims(c) \subseteq T,
           NEW q \in Range(ProductFactors)
    PROVE  Use(ProductOf(q), Pt2(c)) \in T /\ PointOf(acc, ProductOf(q)) = Pt2(c)
<1> DEFINE s == "SpartanProductVirtualization"
           p == Pt2(c)
<1> HIDE DEF s, p
<1>1. EachOf(ProductFactors, s, p) \subseteq T
  BY DEF ProductClaims, s, p
<1>2. Use(At(q, s), p) \in T /\ PointOf(acc, At(q, s)) = p
  BY <1>1, EachKnown
<1> QED
  BY <1>2 DEF s, p, ProductOf

\* The same for the first reduction of the lookups.
LEMMA LookupKnown ==
    ASSUME NEW c \in Configs, NEW acc, NEW T, Knows(acc, T), LookupClaims(c) \subseteq T,
           NEW n, Virt(n) \in Range(LookupPolys)
    PROVE  Use(InstrRed(n), Pt2(c)) \in T /\ PointOf(acc, InstrRed(n)) = Pt2(c)
<1> DEFINE s == "InstructionClaimReduction"
           p == Pt2(c)
           q == Virt(n)
<1> HIDE DEF s, p, q
<1>1. EachOf(LookupPolys, s, p) \subseteq T /\ q \in Range(LookupPolys)
  BY DEF LookupClaims, s, p, q
<1>2. Use(At(q, s), p) \in T /\ PointOf(acc, At(q, s)) = p
  BY <1>1, EachKnown
<1> QED
  BY <1>2 DEF s, p, q, InstrRed

\* The claims of stage 3.
Pt3(c) == CyclePt(5, c.log_T, c)

\* The claims of the shift sumcheck.
ShiftClaims(c) == EachOf(ShiftPolys, "SpartanShift", Pt3(c))

\* Those of the instruction inputs.
OperandClaims(c) == EachOf(InputPolys, "InstructionInputVirtualization", Pt3(c))

\* Those of the reduction of the registers.
ValueClaims(c) == EachOf(ValuePolys, "RegistersClaimReduction", Pt3(c))

\* The cycle of stage 3 is a point over the cycles.
LEMMA Pt3Is ==
    ASSUME NEW c \in Configs
    PROVE  Pt3(c) \in Points /\ Len(Pt3(c)) = c.log_T
<1> DEFINE max == c.log_T
           b == 5
<1>1. max \in Nat /\ b \in Nat /\ c.log_T <= max
  BY ConfigAssumption
<1> HIDE DEF max, b
<1> QED
  BY <1>1, CyclePtIs DEF Pt3, max, b

\* The claims on the next cycle that the outer sumcheck left.
ShiftUses1 == {Outer("NextUnexpandedPC"), Outer("NextPC"), Outer("NextIsVirtual"), Outer("NextIsFirstInSequence")}

\* The shift sumcheck takes the claims on the next cycle.
LEMMA ShiftGiven ==
    ASSUME NEW c \in Configs, NEW acc, NEW T, Knows(acc, T), OuterClaims(c) \subseteq T,
           ProductClaims(c) \subseteq T, NEW b, b = 5, NEW max, max = c.log_T
    PROVE  /\ Given(Shift(acc, c), b, max, T, ShiftClaims(c), c)
           /\ ShiftUses1 \cup {Product("NextIsNoop")} \subseteq Keys(Shift(acc, c).uses)
<1> DEFINE x == Shift(acc, c)
           n == c.log_T
           r == Part(b, max, n)
           s == "SpartanShift"
           p == Pt3(c)
           f == First(PointOf(acc, Outer("NextPC")), c.log_T)
           g == First(PointOf(acc, Product("NextIsNoop")), c.log_T)
<1>1. InLast(x, n, b, max)
  BY CycleFacts, ConfigAssumption DEF InLast
<1>2. r \in Points
  <2> HIDE DEF x, n
  <2> QED
    BY <1>1, LastPoint
<1>3. x.uses = Uses(ShiftUses1, f) \cup Uses({Product("NextIsNoop")}, g)
  BY DEF Shift, Instance, ShiftUses1
<1>4. x.prover[r] = OpenedEach(ShiftPolys, s, Reverse(r), LowToHigh(r))
      /\ x.verifier[r] = ExpectEach(ShiftPolys, s, Reverse(r))
  BY <1>2 DEF Shift, Instance, ShiftProver, ShiftVerifier, ShiftPolys
<1>5. p = Reverse(r)
  BY DEF Pt3, CyclePt
<1>6. p \in Points /\ Different(ShiftPolys) /\ Range(ShiftPolys) \subseteq Polynomials(c)
  BY Pt3Is, ListsDiffer, ShortPolynomials
<1> HIDE DEF x, s, p
<1>7. OpensEach(x, r, ShiftPolys, s, p, c)
  BY <1>4, <1>5, <1>6 DEF OpensEach
<1>8. x.uses \subseteq T
  <2>1. "NextUnexpandedPC" \in VirtualInputs /\ "NextPC" \in VirtualInputs /\ "NextIsVirtual" \in VirtualInputs
        /\ "NextIsFirstInSequence" \in VirtualInputs
    BY DEF VirtualInputs
  <2>2. /\ Use(Outer("NextUnexpandedPC"), OuterPt(c)) \in T /\ Use(Outer("NextPC"), OuterPt(c)) \in T
        /\ Use(Outer("NextIsVirtual"), OuterPt(c)) \in T /\ Use(Outer("NextIsFirstInSequence"), OuterPt(c)) \in T
        /\ PointOf(acc, Outer("NextPC")) = OuterPt(c)
    BY <2>1, OuterKnown
  <2>3. Virt("NextIsNoop") \in Range(ProductFactors)
    BY FactorsAre
  <2>4. Use(Product("NextIsNoop"), Pt2(c)) \in T /\ PointOf(acc, Product("NextIsNoop")) = Pt2(c)
    BY <2>3, ProductKnown DEF ProductOf, Product
  <2>5. f = OuterPt(c) /\ g = Pt2(c)
    BY <2>2, <2>4, OuterPtIs, Pt2Is, FirstWhole
  <2> HIDE DEF f, g
  <2>6. Uses(ShiftUses1, f) \subseteq T
    BY <2>2, <2>5 DEF Uses, ShiftUses1
  <2>7. Uses({Product("NextIsNoop")}, g) \subseteq T
    BY <2>4, <2>5 DEF Uses
  <2> QED
    BY <1>3, <2>6, <2>7
<1> HIDE DEF n
<1>9. Given(x, b, max, T, EachOf(ShiftPolys, s, p), c)
  BY <1>1, <1>7, <1>8, EachGiven DEF r
<1>10. ShiftUses1 \cup {Product("NextIsNoop")} \subseteq Keys(x.uses)
  <2> HIDE DEF f, g
  <2>1. Keys(x.uses) = Keys(Uses(ShiftUses1, f)) \cup Keys(Uses({Product("NextIsNoop")}, g))
    BY <1>3, KeysAre, Zenon
  <2>2. Keys(x.uses) = ShiftUses1 \cup {Product("NextIsNoop")}
    BY <2>1, KeysAre, Zenon
  <2> QED
    BY <2>2
<1> QED
  BY <1>9, <1>10 DEF x, s, p, ShiftClaims

\* The operands of an instruction, which two sumchecks of stage 2 left.
InputUses ==
    {Product("LeftInstructionInput"), Product("RightInstructionInput"),
     InstrRed("LeftInstructionInput"), InstrRed("RightInstructionInput")}

\* The instruction inputs, from the operands of two sumchecks of stage 2.
LEMMA InstructionInputGiven ==
    ASSUME NEW c \in Configs, NEW acc, NEW T, Knows(acc, T), LookupClaims(c) \subseteq T,
           ProductClaims(c) \subseteq T, NEW b, b = 5, NEW max, max = c.log_T
    PROVE  /\ Given(InstructionInput(acc), b, max, T, OperandClaims(c), c)
           /\ Keys(InstructionInput(acc).uses) = InputUses
           /\ InstructionInput(acc).rounds = c.log_T
<1> DEFINE x == InstructionInput(acc)
           n == c.log_T
           r == Part(b, max, n)
           s == "InstructionInputVirtualization"
           p == Pt3(c)
           f == PointOf(acc, Product("LeftInstructionInput"))
           o1 == "LeftInstructionInput"
           o2 == "RightInstructionInput"
<1>1. Use(Product(o1), Pt2(c)) \in T /\ f = Pt2(c) /\ Use(Product(o2), Pt2(c)) \in T
  <2>1. Virt(o1) \in Range(ProductFactors) /\ Virt(o2) \in Range(ProductFactors)
    BY FactorsAre
  <2> QED
    BY <2>1, ProductKnown DEF ProductOf, Product
<1>2. Use(InstrRed(o1), Pt2(c)) \in T /\ Use(InstrRed(o2), Pt2(c)) \in T
  <2>1. Virt(o1) \in Range(LookupPolys) /\ Virt(o2) \in Range(LookupPolys)
    BY ListRanges
  <2> QED
    BY <2>1, LookupKnown
<1>3. x.uses = Uses(InputUses, f)
  <2>1. x.uses = Uses({Product(o) : o \in {o1, o2}} \cup {InstrRed(o) : o \in {o1, o2}}, f)
    BY DEF InstructionInput, Instance
  <2>2. {Product(o) : o \in {o1, o2}} \cup {InstrRed(o) : o \in {o1, o2}} = InputUses
    BY DEF InputUses
  <2> QED
    BY <2>1, <2>2, Zenon
<1>4. InLast(x, n, b, max)
  <2>1. AccPoints(acc)
    BY DEF Knows
  <2>2. Plain(x) /\ x.rounds = Len(f)
    <3>1. Plain(x)
      BY <2>1, InstructionInputFacts
    <3>2. x.rounds = Len(f)
      BY DEF InstructionInput, Instance
    <3> QED
      BY <3>1, <3>2
  <2> QED
    BY <1>1, <2>2, Pt2Is, ConfigAssumption DEF InLast
<1>5. r \in Points
  <2> HIDE DEF x, n
  <2> QED
    BY <1>4, LastPoint
<1>6. x.prover[r] = OpenedEach(InputPolys, s, Reverse(r), LowToHigh(r))
      /\ x.verifier[r] = ExpectEach(InputPolys, s, Reverse(r))
  BY <1>5 DEF InstructionInput, Instance, InstructionInputProver, InstructionInputVerifier, InputPolys
<1>7. p = Reverse(r)
  BY DEF Pt3, CyclePt
<1>8. p \in Points /\ Different(InputPolys) /\ Range(InputPolys) \subseteq Polynomials(c)
  BY Pt3Is, ListsDiffer, ShortPolynomials
<1> HIDE DEF x, s, p, f
<1>9. OpensEach(x, r, InputPolys, s, p, c)
  BY <1>6, <1>7, <1>8 DEF OpensEach
<1>10. x.uses \subseteq T
  BY <1>1, <1>2, <1>3 DEF Uses, InputUses
<1>11. x.rounds = n
  BY <1>4 DEF InLast
<1> HIDE DEF n
<1>12. Given(x, b, max, T, EachOf(InputPolys, s, p), c)
  BY <1>4, <1>9, <1>10, EachGiven DEF r
<1>13. Keys(x.uses) = InputUses
  BY <1>3, KeysAre, Zenon
<1> QED
  BY <1>11, <1>12, <1>13 DEF x, s, p, OperandClaims, n

\* The values of the registers.
ValueUses == {Outer("RdWriteValue"), Outer("Rs1Value"), Outer("Rs2Value")}

\* The reduction of the registers, from the outer sumcheck's values.
LEMMA ValueGiven ==
    ASSUME NEW c \in Configs, NEW acc, NEW T, Knows(acc, T), OuterClaims(c) \subseteq T,
           NEW b, b = 5, NEW max, max = c.log_T
    PROVE  /\ Given(RegistersReduction(acc, c), b, max, T, ValueClaims(c), c)
           /\ Keys(RegistersReduction(acc, c).uses) = ValueUses
<1> DEFINE x == RegistersReduction(acc, c)
           n == c.log_T
           r == Part(b, max, n)
           s == "RegistersClaimReduction"
           p == Pt3(c)
           f == PointOf(acc, Outer("LookupOutput"))
           g == PointOf(acc, Outer("RdWriteValue"))
<1>1. InLast(x, n, b, max)
  BY CycleFacts, ConfigAssumption DEF InLast
<1>2. r \in Points
  <2> HIDE DEF x, n
  <2> QED
    BY <1>1, LastPoint
<1>3. x.uses = Uses(ValueUses, f) \cup Uses(ValueUses, g)
  BY DEF RegistersReduction, Instance, ValueUses
<1>4. x.prover[r] = OpenedEach(ValuePolys, s, Reverse(r), LowToHigh(r))
      /\ x.verifier[r] = ExpectEach(ValuePolys, s, Reverse(r))
  BY <1>2 DEF RegistersReduction, Instance, RegistersReductionProver, RegistersReductionVerifier, ValuePolys
<1>5. p = Reverse(r)
  BY DEF Pt3, CyclePt
<1>6. p \in Points /\ Different(ValuePolys) /\ Range(ValuePolys) \subseteq Polynomials(c)
  BY Pt3Is, ListsDiffer, ShortPolynomials
<1>7. /\ Use(Outer("RdWriteValue"), OuterPt(c)) \in T /\ Use(Outer("Rs1Value"), OuterPt(c)) \in T
      /\ Use(Outer("Rs2Value"), OuterPt(c)) \in T /\ f = OuterPt(c) /\ g = OuterPt(c)
  <2>1. /\ "LookupOutput" \in VirtualInputs /\ "RdWriteValue" \in VirtualInputs
        /\ "Rs1Value" \in VirtualInputs /\ "Rs2Value" \in VirtualInputs
    BY DEF VirtualInputs
  <2> QED
    BY <2>1, OuterKnown
<1> HIDE DEF x, s, p, f, g
<1>8. OpensEach(x, r, ValuePolys, s, p, c)
  BY <1>4, <1>5, <1>6 DEF OpensEach
<1>9. x.uses \subseteq T
  BY <1>3, <1>7 DEF Uses, ValueUses
<1> HIDE DEF n
<1>10. Given(x, b, max, T, EachOf(ValuePolys, s, p), c)
  BY <1>1, <1>8, <1>9, EachGiven DEF r
<1>11. Keys(x.uses) = ValueUses
  <2>1. Keys(x.uses) = Keys(Uses(ValueUses, f)) \cup Keys(Uses(ValueUses, g))
    BY <1>3, KeysAre, Zenon
  <2>2. Keys(Uses(ValueUses, f)) = ValueUses /\ Keys(Uses(ValueUses, g)) = ValueUses
    BY KeysAre, Zenon
  <2> QED
    BY <2>1, <2>2
<1> QED
  BY <1>10, <1>11 DEF x, s, p, ValueClaims

\* Stage 3.
Stage3Claims(c) == ShiftClaims(c) \cup OperandClaims(c) \cup ValueClaims(c)

\* What is known after stage 3.
K3(c) == K2(c) \cup Stage3Claims(c)

\* The sumchecks of three stages.
Names3 == Names2 \cup {"SpartanShift", "InstructionInputVirtualization", "RegistersClaimReduction"}

\* What stage 3 uses.
Uses5 == ShiftUses1 \cup {Product("NextIsNoop")} \cup InputUses \cup ValueUses

\* The claims of stage 3 have keys of their own.
New3(c) ==
    /\ Apart(K2(c), ShiftClaims(c)) /\ Apart(K2(c), OperandClaims(c)) /\ Apart(K2(c), ValueClaims(c))
    /\ Apart(ShiftClaims(c), OperandClaims(c)) /\ Apart(ShiftClaims(c), ValueClaims(c))
    /\ Apart(OperandClaims(c), ValueClaims(c))

\* The claims of stage 3, sumcheck by sumcheck.
LEMMA Sound3 ==
    ASSUME NEW c \in Configs
    PROVE  /\ Sound(ShiftClaims(c), {"SpartanShift"}, c)
           /\ Sound(OperandClaims(c), {"InstructionInputVirtualization"}, c)
           /\ Sound(ValueClaims(c), {"RegistersClaimReduction"}, c)
<1>1. Pt3(c) \in Points
  BY Pt3Is
<1> QED
  BY <1>1, ShortPolynomials, SoundEach DEF ShiftClaims, OperandClaims, ValueClaims

\* All claims so far, and that those of stage 3 are new.
LEMMA K3Sound ==
    ASSUME NEW c \in Configs
    PROVE  Sound(K3(c), Names3, c) /\ New3(c)
<1> DEFINE T == K2(c)
           A == ShiftClaims(c)
           B == OperandClaims(c)
           D == ValueClaims(c)
<1> HIDE DEF T, A, B, D
<1>1. /\ Sound(T, Names2, c) /\ Sound(A, {"SpartanShift"}, c)
      /\ Sound(B, {"InstructionInputVirtualization"}, c) /\ Sound(D, {"RegistersClaimReduction"}, c)
  BY K2Sound, Sound3 DEF T, A, B, D
<1>2. Apart(T, A) /\ Apart(T, B) /\ Apart(T, D)
  BY <1>1, OtherSumchecks DEF Names2
<1>3. Apart(A, B) /\ Apart(A, D) /\ Apart(B, D)
  BY <1>1, OtherSumchecks
<1>4. Sound(K3(c), Names3, c)
  BY <1>1 DEF Sound, K3, Stage3Claims, Names3, T, A, B, D
<1> QED
  BY <1>2, <1>3, <1>4 DEF New3, T, A, B, D

\* The rounds of a batch of three.
LEMMA ThreeEqual ==
    ASSUME NEW x, NEW y, NEW z, NEW m \in Nat, x.rounds = m, y.rounds \in 0 .. m, z.rounds \in 0 .. m
    PROVE  m = MaxRounds(<<x, y, z>>)
<1> DEFINE batch == <<x, y, z>>
           n == 3
<1>4. n \in Nat \ {0} /\ DOMAIN batch = 1 .. n
  OBVIOUS
<1>5. \A i \in 1 .. n : batch[i].rounds \in 0 .. m
  OBVIOUS
<1>6. batch[1].rounds = m /\ 1 \in 1 .. n
  OBVIOUS
<1> HIDE DEF batch, n
<1>7. \A i \in 1 .. n : batch[i].rounds \in Nat /\ batch[i].rounds <= m
  BY <1>5
<1>8. MaxRounds(batch) = m
  BY <1>4, <1>6, <1>7, MaxRoundsIs
<1> QED
  BY <1>8 DEF batch

\* After stage 3 a side knows its claims and has used those it needs.
LEMMA Stage3Knows ==
    ASSUME NEW c \in Configs, NEW who \in Sides, NEW side, NEW T, T = K2(c), SideKnows(side, T)
    PROVE  Went(side, Stage3(who, side, c), T, Stage3Claims(c), Uses5)
<1> DEFINE acc == side.acc
           b == 5
           m == c.log_T
           x1 == Shift(acc, c)
           x2 == InstructionInput(acc)
           x3 == RegistersReduction(acc, c)
           U1 == ShiftClaims(c)
           U2 == OperandClaims(c)
           U3 == ValueClaims(c)
           t == Stage3(who, side, c)
<1>1. /\ Knows(acc, T) /\ OuterClaims(c) \subseteq T /\ ProductClaims(c) \subseteq T
      /\ LookupClaims(c) \subseteq T /\ b = 5 /\ m = c.log_T
  BY DEF SideKnows, K2, K1, Stage2Claims, Beside2
<1>2. t = Run(who, side, b, <<x1, x2, x3>>)
  BY DEF Stage3
<1>3. m \in Nat /\ x1.rounds = m /\ x3.rounds = m
  BY CycleFacts, ConfigAssumption
<1> HIDE DEF b, m, acc
<1>4. /\ Given(x1, b, m, T, U1, c) /\ Given(x2, b, m, T, U2, c) /\ Given(x3, b, m, T, U3, c)
  BY <1>1, ShiftGiven, InstructionInputGiven, ValueGiven
<1>5. /\ ShiftUses1 \cup {Product("NextIsNoop")} \subseteq Keys(x1.uses) /\ Keys(x2.uses) = InputUses
      /\ Keys(x3.uses) = ValueUses /\ x2.rounds = m
  BY <1>1, ShiftGiven, InstructionInputGiven, ValueGiven
<1>6. /\ Apart(T, U1) /\ Apart(T, U2) /\ Apart(T, U3) /\ Apart(U1, U2) /\ Apart(U1, U3) /\ Apart(U2, U3)
  BY K3Sound DEF New3
<1> HIDE DEF x1, x2, x3, U1, U2, U3, t
<1>7. m = MaxRounds(<<x1, x2, x3>>)
  BY <1>3, <1>5, ThreeEqual
<1>8. ThreeGivens(T, b, x1, x2, x3, m, U1, U2, U3, c)
  BY <1>4, <1>6, <1>7 DEF ThreeGivens
<1>9. Ran(side, Run(who, side, b, <<x1, x2, x3>>), T, U1 \cup U2 \cup U3, Keys(x1.uses \cup x2.uses \cup x3.uses))
  BY <1>8, ThreeRuns
<1> DEFINE R == Keys(x1.uses \cup x2.uses \cup x3.uses)
           W == Stage3Claims(c)
<1>10. W = U1 \cup U2 \cup U3
  BY DEF Stage3Claims, U1, U2, U3
<1>11. Uses5 \subseteq R
  <2> DEFINE A == x1.uses
             B == x2.uses
             D == x3.uses
  <2>1. Uses5 \subseteq Keys(A) \cup Keys(B) \cup Keys(D)
    BY <1>5 DEF Uses5
  <2> HIDE DEF A, B, D
  <2>2. Uses5 \subseteq Keys(A \cup B \cup D)
    BY <2>1, KeysThree
  <2> QED
    BY <2>2 DEF A, B, D
<1>12. Ran(side, t, T, W, R)
  BY <1>2, <1>9, <1>10, Zenon
<1> HIDE DEF R, W
<1>13. Went(side, t, T, W, Uses5)
  BY <1>11, <1>12, RanWent
<1> QED
  BY <1>13 DEF t, W

----------------------------------------------------------------------------
(* The fourth stage. *)

\* The kinds of advice that are there, each once.
KindsListed(s, k, p, l, q) == Different(s) /\ \A x : x \in Range(s) <=> (p /\ x = k) \/ (q /\ x = l)

\* No kind of advice is in a list twice.
LEMMA OnlyDiffer ==
    ASSUME NEW k, NEW l, k # l, NEW p \in BOOLEAN, NEW q \in BOOLEAN,
           NEW s, s = Only(k, p) \o Only(l, q)
    PROVE  KindsListed(s, k, p, l, q)
<1>1. CASE p /\ q
  <2>1. s = <<k, l>>
    BY <1>1, TwoJoin DEF Only
  <2> QED
    <3>1. PlacesOf(s, 2)
      BY <2>1 DEF PlacesOf
    <3>2. \A i, j \in DOMAIN s : s[i] = s[j] => i = j
      BY <2>1
    <3>3. Range(s) = {k, l}
      BY <2>1, RangeOf2
    <3> QED
      BY <1>1, <3>1, <3>2, <3>3 DEF Different, KindsListed
<1>2. CASE p /\ ~q
  <2>1. s = <<k>>
    BY <1>2 DEF Only
  <2>2. PlacesOf(s, 1) /\ DOMAIN s = {1} /\ s[1] = k
    BY <2>1 DEF PlacesOf
  <2> QED
    BY <1>2, <2>2 DEF Different, Range, KindsListed
<1>3. CASE ~p /\ q
  <2>1. s = <<l>>
    BY <1>3 DEF Only
  <2>2. PlacesOf(s, 1) /\ DOMAIN s = {1} /\ s[1] = l
    BY <2>1 DEF PlacesOf
  <2> QED
    BY <1>3, <2>2 DEF Different, Range, KindsListed
<1>4. CASE ~p /\ ~q
  <2>1. s = <<>>
    BY <1>4 DEF Only
  <2>2. DOMAIN s = {} /\ s = [i \in 1 .. 0 |-> s[i]] /\ 1 .. 0 = {}
    BY <2>1
  <2>3. PlacesOf(s, 0)
    BY <2>2, Zenon DEF PlacesOf
  <2> QED
    BY <1>4, <2>2, <2>3 DEF Different, Range, KindsListed
<1> QED
  BY <1>1, <1>2, <1>3, <1>4

\* The kinds of advice of a proof, in either order.
LEMMA KindsAre ==
    ASSUME NEW c \in Configs
    PROVE  /\ Different(KindsOf(c)) /\ Different(AdviceOrder(c))
           /\ Range(AdviceOrder(c)) = Range(KindsOf(c)) /\ Range(KindsOf(c)) \subseteq AdviceKinds
           /\ \A kind \in Range(KindsOf(c)) : AdviceVars(c, kind) \in Nat \ {0}
           /\ \A kind \in AdviceKinds : kind \in Range(KindsOf(c)) <=> AdviceVars(c, kind) > 0
<1> DEFINE p == c.untrusted > 0
           q == c.trusted > 0
           k == "untrusted"
           l == "trusted"
           s == KindsOf(c)
           t == AdviceOrder(c)
<1>0. c.untrusted \in Nat /\ c.trusted \in Nat /\ k # l
  BY ConfigAssumption
<1>1. s = Only(k, p) \o Only(l, q) /\ t = Only(l, q) \o Only(k, p) /\ p \in BOOLEAN /\ q \in BOOLEAN
  BY DEF KindsOf, AdviceOrder
<1>2. /\ \A x : x \in {y \in {k, l} : AdviceVars(c, y) > 0} <=> (p /\ x = k) \/ (q /\ x = l)
      /\ AdviceVars(c, k) \in Nat /\ AdviceVars(c, l) \in Nat /\ AdviceKinds = {k, l}
  BY <1>0 DEF AdviceVars, AdviceKinds
<1> HIDE DEF p, q, k, l, s, t
<1>3. KindsListed(s, k, p, l, q)
  BY <1>0, <1>1, OnlyDiffer, Zenon
<1>4. KindsListed(t, l, q, k, p)
  <2>1. l # k
    BY <1>0
  <2> QED
    BY <1>1, <2>1, OnlyDiffer, Zenon
<1>5. Range(t) = Range(s) /\ Range(s) = {y \in {k, l} : AdviceVars(c, y) > 0}
  BY <1>2, <1>3, <1>4 DEF KindsListed
<1> QED
  BY <1>2, <1>3, <1>4, <1>5 DEF s, t, KindsListed

\* The advice's claims.
AdviceAddr(c, kind) == LastOf(RamAddr(c), AdviceVars(c, kind))

\* The claims on the advice at the address of RAM's point.
AdviceClaims(c) == {Use(AdviceAt(kind, "RamValCheck"), AdviceAddr(c, kind)) : kind \in Range(KindsOf(c))}

\* Both sides append these claims.
LEMMA AdviceSays ==
    ASSUME NEW c \in Configs, NEW acc, PointOf(acc, RamRW("RamVal")) = RamPt(c)
    PROVE  Says(ProverAdvice(acc, c), AdviceClaims(c)) /\ Says(VerifierAdvice(acc, c), AdviceClaims(c))
<1> DEFINE kinds == KindsOf(c)
<1>1. Different(kinds)
  BY KindsAre
<1>2. PICK n \in Nat : PlacesOf(kinds, n)
  BY <1>1 DEF Different
<1> DEFINE keys == [i \in 1 .. n |-> AdviceAt(kinds[i], "RamValCheck")]
           points == [i \in 1 .. n |-> AdviceAddr(c, kinds[i])]
           U == AdviceClaims(c)
           v == VerifierAdvice(acc, c)
           w == ProverAdvice(acc, c)
<1>3. DOMAIN kinds = 1 .. n
  BY <1>2 DEF PlacesOf
<1>4. ASSUME NEW i \in 1 .. n PROVE AdvicePoint(acc, c, kinds[i]) = points[i]
  BY DEF AdvicePoint, AdviceAddr, RamAddr
<1>5. w = [i \in 1 .. n |-> Opened(keys[i], points[i], points[i])]
  <2>1. w = [i \in 1 .. n |-> Opened(keys[i], AdvicePoint(acc, c, kinds[i]), AdvicePoint(acc, c, kinds[i]))]
    BY <1>3 DEF ProverAdvice, AdviceAt
  <2> HIDE DEF keys, points, kinds
  <2> QED
    BY <1>4, <2>1
<1>6. v = [i \in 1 .. n |-> Expect(keys[i], points[i])]
  <2>1. v = [i \in 1 .. n |-> Expect(keys[i], AdvicePoint(acc, c, kinds[i]))]
    BY <1>3 DEF VerifierAdvice, AdviceAt
  <2> HIDE DEF keys, points, kinds
  <2> QED
    BY <1>4, <2>1
<1>7. \A i, j \in 1 .. n : keys[i] = keys[j] => i = j
  <2> SUFFICES ASSUME NEW i \in 1 .. n, NEW j \in 1 .. n, keys[i] = keys[j] PROVE i = j
    OBVIOUS
  <2>1. kinds[i] = kinds[j]
    BY DEF AdviceAt, At, Advice
  <2> QED
    BY <1>1, <1>3, <2>1 DEF Different
<1>8. \A i \in 1 .. n : Use(keys[i], points[i]) \in U
  BY <1>3 DEF AdviceClaims, Range
<1>9. \A u \in U : \E i \in 1 .. n : u = Use(keys[i], points[i])
  <2> SUFFICES ASSUME NEW u \in U PROVE \E i \in 1 .. n : u = Use(keys[i], points[i])
    OBVIOUS
  <2>1. PICK kind \in Range(kinds) : u = Use(AdviceAt(kind, "RamValCheck"), AdviceAddr(c, kind))
    BY DEF AdviceClaims
  <2>2. PICK i \in 1 .. n : kind = kinds[i]
    BY <1>3 DEF Range
  <2> QED
    BY <2>1, <2>2
<1> HIDE DEF keys, points, U, v, w, kinds
<1>10. Listing(w, n, keys, points, U)
  <2>1. PlacesOf(w, n) /\ \A i \in 1 .. n : w[i] = Opened(keys[i], points[i], points[i])
    BY <1>5 DEF PlacesOf
  <2> QED
    BY <1>7, <1>8, <1>9, <2>1, OpenedIs DEF Listing
<1>11. Listing(v, n, keys, points, U)
  <2>1. PlacesOf(v, n) /\ \A i \in 1 .. n : v[i] = Expect(keys[i], points[i])
    BY <1>6 DEF PlacesOf
  <2>2. \A i \in 1 .. n : v[i].key = keys[i] /\ v[i].point = points[i]
    <3> SUFFICES ASSUME NEW i \in 1 .. n PROVE v[i].key = keys[i] /\ v[i].point = points[i]
      OBVIOUS
    <3>1. v[i] = Expect(keys[i], points[i])
      BY <2>1
    <3> QED
      BY <3>1 DEF Expect
  <2> QED
    BY <1>7, <1>8, <1>9, <2>1, <2>2 DEF Listing
<1> QED
  BY <1>10, <1>11, SaysFunction DEF U, v, w

\* They are claims on the advice, at points.
LEMMA AdviceSound ==
    ASSUME NEW c \in Configs
    PROVE  /\ Sound(AdviceClaims(c), {"RamValCheck"}, c)
           /\ \A kind \in Range(KindsOf(c)) : AdviceAddr(c, kind) \in Points
           /\ Of(AdviceClaims(c), {Advice(kind) : kind \in AdviceKinds})
<1>1. \A kind \in Range(KindsOf(c)) : AdviceAddr(c, kind) \in Points /\ Advice(kind) \in Polynomials(c)
                                      /\ kind \in AdviceKinds
  <2> SUFFICES ASSUME NEW kind \in Range(KindsOf(c))
               PROVE  AdviceAddr(c, kind) \in Points /\ Advice(kind) \in Polynomials(c) /\ kind \in AdviceKinds
    OBVIOUS
  <2>1. kind \in AdviceKinds /\ AdviceVars(c, kind) \in Nat
    BY KindsAre
  <2>2. RamAddr(c) \in Points
    BY RamPtIs
  <2> QED
    BY <2>1, <2>2, LastOfPoint, PolynomialsHave DEF AdviceAddr
<1>2. ASSUME NEW u \in AdviceClaims(c)
      PROVE  /\ u.key.sumcheck = "RamValCheck" /\ u.key.poly \in Polynomials(c) /\ u.point \in Points
             /\ u.key.poly \in {Advice(kind) : kind \in AdviceKinds}
  <2>1. PICK kind \in Range(KindsOf(c)) : u = Use(AdviceAt(kind, "RamValCheck"), AdviceAddr(c, kind))
    BY DEF AdviceClaims
  <2>2. u.key = At(Advice(kind), "RamValCheck") /\ u.point = AdviceAddr(c, kind)
    BY <2>1, UseIs DEF AdviceAt
  <2> QED
    BY <1>1, <2>2, AtIs
<1> QED
  BY <1>1, <1>2 DEF Sound, Of

\* Read-write checking of the registers.
M6(c) == LogRegisters + c.log_T

\* The point of read-write checking of the registers.
RegPt(c) == ReadWritePoint(c.log_T, c.q1, c.q2, Part(6, M6(c), M6(c)))

\* Its address.
RegAddr(c) == First(RegPt(c), LogRegisters)

\* Its cycle.
RegCyc(c) == From(RegPt(c), LogRegisters)

\* The claims it leaves.
RegisterClaims(c) ==
    {Use(RegRW("RegistersVal"), RegPt(c)), Use(RegRW("Rs1Ra"), RegPt(c)), Use(RegRW("Rs2Ra"), RegPt(c)),
     Use(RegRW("RdWa"), RegPt(c)), Use(RdInc("RegistersReadWriteChecking"), RegCyc(c))}

\* The sizes of read-write checking of the registers.
LEMMA RegSizes ==
    ASSUME NEW c \in Configs
    PROVE  /\ c.log_T \in Nat /\ LogRegisters \in Nat /\ c.q1 \in 0 .. c.log_T /\ c.q2 \in 0 .. LogRegisters
           /\ M6(c) \in Nat /\ M6(c) = LogRegisters + c.log_T /\ c.log_T <= M6(c)
<1>1. c.log_T \in Nat /\ LogRegisters \in Nat /\ c.q1 \in 0 .. c.log_T /\ c.q2 \in 0 .. LogRegisters
  BY ConfigAssumption, OneHotAssumption
<1> QED
  BY <1>1 DEF M6

\* Its point, the address and the cycle.
LEMMA RegPtIs ==
    ASSUME NEW c \in Configs
    PROVE  /\ RegPt(c) \in Points /\ Len(RegPt(c)) = LogRegisters + c.log_T
           /\ RegAddr(c) \in Points /\ Len(RegAddr(c)) = LogRegisters
           /\ RegCyc(c) \in Points /\ Len(RegCyc(c)) = c.log_T
           /\ RegAddr(c) \o RegCyc(c) = RegPt(c)
<1> DEFINE K == LogRegisters
           T == c.log_T
           p1 == c.q1
           p2 == c.q2
           b == 6
           m == M6(c)
           r == Part(b, m, m)
           point == ReadWritePoint(T, p1, p2, r)
<1>1. K \in Nat /\ T \in Nat /\ p1 \in 0 .. T /\ p2 \in 0 .. K /\ m = K + T /\ m \in Nat /\ b \in Nat
  BY RegSizes
<1> HIDE DEF K, T, p1, p2, m, b
<1>2. r \in Points /\ Len(r) = K + T
  BY <1>1, WholePart
<1> HIDE DEF r
<1>3. point = ReadWritePoint(T, p1, p2, r)
  OBVIOUS
<1> HIDE DEF point
<1>4. /\ point \in Points /\ Len(point) = K + T
      /\ First(point, K) \in Points /\ Len(First(point, K)) = K
      /\ From(point, K) \in Points /\ Len(From(point, K)) = T
  BY <1>1, <1>2, <1>3, ReadWriteSplit
<1>5. First(point, K) \o From(point, K) = point
  <2>1. K <= Len(point)
    BY <1>1, <1>4
  <2> QED
    BY <1>1, <1>4, <2>1, SplitJoin
<1> QED
  BY <1>4, <1>5 DEF RegPt, RegAddr, RegCyc, point, r, K, T, p1, p2, b, m

\* Read-write checking of the registers and the two reductions it takes claims of.
LEMMA SaysFour ==
    ASSUME NEW k, NEW l, NEW m, NEW n, k # l, k # m, k # n, l # m, l # n, m # n, NEW i, i # k, i # l, i # m, i # n,
           NEW p, NEW q, NEW b, NEW d, NEW e
    PROVE  /\ Says(<<Opened(k, p, b), Opened(l, p, b), Opened(m, p, d), Opened(n, p, b), Opened(i, q, e)>>,
                   {Use(k, p), Use(l, p), Use(m, p), Use(n, p), Use(i, q)})
<1> DEFINE s == <<Opened(k, p, b), Opened(l, p, b), Opened(m, p, d)>>
           t == <<Opened(n, p, b), Opened(i, q, e)>>
           U == {Use(k, p), Use(l, p), Use(m, p)}
           V == {Use(n, p), Use(i, q)}
<1>1. Says(s, U)
  BY LeavesThree
<1>2. Says(t, V)
  BY LeavesTwo
<1>3. Apart(U, V)
  BY UseIs DEF Apart
<1>4. s \o t = <<Opened(k, p, b), Opened(l, p, b), Opened(m, p, d), Opened(n, p, b), Opened(i, q, e)>>
  BY FiveJoin, Zenon
<1>5. U \cup V = {Use(k, p), Use(l, p), Use(m, p), Use(n, p), Use(i, q)}
  <2> DEFINE a1 == Use(k, p)
             a2 == Use(l, p)
             a3 == Use(m, p)
             a4 == Use(n, p)
             a5 == Use(i, q)
  <2> HIDE DEF a1, a2, a3, a4, a5
  <2>1. {a1, a2, a3} \cup {a4, a5} = {a1, a2, a3, a4, a5}
    OBVIOUS
  <2> QED
    BY <2>1 DEF a1, a2, a3, a4, a5
<1> HIDE DEF s, t, U, V
<1>6. Says(s \o t, U \cup V)
  BY <1>1, <1>2, <1>3, SaysJoin
<1> QED
  BY <1>4, <1>5, <1>6, Zenon

\* The five keys are different.
LEMMA RegisterKeys ==
    LET k1 == RegRW("RegistersVal")
        k2 == RegRW("Rs1Ra")
        k3 == RegRW("Rs2Ra")
        k4 == RegRW("RdWa")
        k5 == RdInc("RegistersReadWriteChecking")
    IN  /\ k1 # k2 /\ k1 # k3 /\ k1 # k4 /\ k2 # k3 /\ k2 # k4 /\ k3 # k4
        /\ k5 # k1 /\ k5 # k2 /\ k5 # k3 /\ k5 # k4
  BY DEF RegRW, RdInc, At, Virt, Comm

\* The claims on the registers.
LEMMA RegisterSound ==
    ASSUME NEW c \in Configs
    PROVE  Sound(RegisterClaims(c), {"RegistersReadWriteChecking"}, c)
<1> DEFINE s == "RegistersReadWriteChecking"
           p == RegPt(c)
           q == RegCyc(c)
<1>1. /\ Virt("RegistersVal") \in Polynomials(c) /\ Virt("Rs1Ra") \in Polynomials(c)
      /\ Virt("Rs2Ra") \in Polynomials(c) /\ Virt("RdWa") \in Polynomials(c) /\ Comm("RdInc") \in Polynomials(c)
  BY PolynomialsHave DEF Witnesses
<1>2. p \in Points /\ q \in Points
  BY RegPtIs
<1>3. /\ RegRW("RegistersVal") = At(Virt("RegistersVal"), s) /\ RegRW("Rs1Ra") = At(Virt("Rs1Ra"), s)
      /\ RegRW("Rs2Ra") = At(Virt("Rs2Ra"), s) /\ RegRW("RdWa") = At(Virt("RdWa"), s)
      /\ RdInc(s) = At(Comm("RdInc"), s)
  BY DEF RegRW, RdInc
<1>4. RegisterClaims(c) = {Use(RegRW("RegistersVal"), p), Use(RegRW("Rs1Ra"), p), Use(RegRW("Rs2Ra"), p),
                           Use(RegRW("RdWa"), p), Use(RdInc(s), q)}
  BY DEF RegisterClaims
<1> HIDE DEF s, p, q
<1>5. /\ Sound({Use(RegRW("RegistersVal"), p)}, {s}, c) /\ Sound({Use(RegRW("Rs1Ra"), p)}, {s}, c)
      /\ Sound({Use(RegRW("Rs2Ra"), p)}, {s}, c) /\ Sound({Use(RegRW("RdWa"), p)}, {s}, c)
      /\ Sound({Use(RdInc(s), q)}, {s}, c)
  BY <1>1, <1>2, <1>3, SoundOne
<1>6. Sound(RegisterClaims(c), {s}, c)
  BY <1>4, <1>5 DEF Sound
<1> QED
  BY <1>6 DEF s

\* What read-write checking of the registers uses.
Uses6 == {RegRed("RdWriteValue"), RegRed("Rs1Value"), RegRed("Rs2Value"),
          InstrInput("Rs1Value"), InstrInput("Rs2Value")}

\* Read-write checking of the registers.
LEMMA RegisterGiven ==
    ASSUME NEW c \in Configs, NEW acc, NEW S, Knows(acc, S), ValueClaims(c) \subseteq S,
           OperandClaims(c) \subseteq S, NEW T, S \subseteq T, NEW b, b = 6, NEW max, max = M6(c)
    PROVE  /\ Given(RegistersReadWrite(acc, c), b, max, T, RegisterClaims(c), c)
           /\ Keys(RegistersReadWrite(acc, c).uses) = Uses6
<1> DEFINE x == RegistersReadWrite(acc, c)
           r == Part(b, max, max)
           s == "RegistersReadWriteChecking"
           p == RegPt(c)
           q == RegCyc(c)
           k1 == RegRW("RegistersVal")
           k2 == RegRW("Rs1Ra")
           k3 == RegRW("Rs2Ra")
           k4 == RegRW("RdWa")
           k5 == RdInc("RegistersReadWriteChecking")
           f == PointOf(acc, RegRed("RdWriteValue"))
           U == RegisterClaims(c)
<1>1. Plain(x) /\ x.rounds = max /\ max \in Nat /\ b \in Nat
  BY RegistersReadWriteFacts, RegSizes
<1>2. r \in Points
  <2> HIDE DEF x
  <2> QED
    BY <1>1, WholePart
<1>3. x.uses = Uses(Uses6, f)
  <2>1. x.uses = Uses({RegRed("RdWriteValue")} \cup {RegRed(v) : v \in {"Rs1Value", "Rs2Value"}}
                         \cup {InstrInput(v) : v \in {"Rs1Value", "Rs2Value"}}, f)
    BY DEF RegistersReadWrite, Instance
  <2>2. {RegRed("RdWriteValue")} \cup {RegRed(v) : v \in {"Rs1Value", "Rs2Value"}}
                         \cup {InstrInput(v) : v \in {"Rs1Value", "Rs2Value"}} = Uses6
    BY DEF Uses6
  <2> QED
    BY <2>1, <2>2, Zenon
<1>4. x.prover[r] = RegistersReadWriteProver(c, r) /\ x.verifier[r] = RegistersReadWriteVerifier(c, r)
  BY <1>2 DEF RegistersReadWrite, Instance
<1>5. p = ReadWritePoint(c.log_T, c.q1, c.q2, r) /\ q = From(p, LogRegisters)
  BY DEF RegPt, RegCyc
<1>6. PICK e, g : RegistersReadWriteProver(c, r)
                    = <<Opened(k1, p, e), Opened(k2, p, e), Opened(k3, p, p), Opened(k4, p, e), Opened(k5, q, g)>>
  BY <1>5 DEF RegistersReadWriteProver
<1>7. RegistersReadWriteVerifier(c, r) = ExpectEach(AccessPolys, s, p) \o << Expect(k5, q) >>
  BY <1>5 DEF RegistersReadWriteVerifier, AccessPolys
<1>8. /\ k1 # k2 /\ k1 # k3 /\ k1 # k4 /\ k2 # k3 /\ k2 # k4 /\ k3 # k4
      /\ k5 # k1 /\ k5 # k2 /\ k5 # k3 /\ k5 # k4
  BY RegisterKeys
<1>9. U = {Use(k1, p), Use(k2, p), Use(k3, p), Use(k4, p), Use(k5, q)}
  BY DEF RegisterClaims
<1>10. EachOf(AccessPolys, s, p) = {Use(k1, p), Use(k2, p), Use(k3, p), Use(k4, p)}
  <2>1. EachOf(AccessPolys, s, p) = Uses(IdsAt({Virt("RegistersVal"), Virt("Rs1Ra"), Virt("Rs2Ra"), Virt("RdWa")}, s), p)
    BY ListRanges DEF EachOf
  <2>2. IdsAt({Virt("RegistersVal"), Virt("Rs1Ra"), Virt("Rs2Ra"), Virt("RdWa")}, s) = {k1, k2, k3, k4}
    BY DEF IdsAt, RegRW
  <2> HIDE DEF k1, k2, k3, k4, p, s
  <2>3. Uses({k1, k2, k3, k4}, p) = {Use(k1, p), Use(k2, p), Use(k3, p), Use(k4, p)}
    BY DEF Uses
  <2> QED
    BY <2>1, <2>2, <2>3, Zenon
<1> HIDE DEF x, r, p, q, k1, k2, k3, k4, k5, s, f
<1>11. Says(x.prover[r], U)
  BY <1>4, <1>6, <1>8, <1>9, SaysFour
<1>12. Says(x.verifier[r], U)
  <2> DEFINE V == EachOf(AccessPolys, s, p)
             W == {Use(k5, q)}
             l == ExpectEach(AccessPolys, s, p)
             m == << Expect(k5, q) >>
  <2>1. Says(l, V)
    BY ListsDiffer, SaysEach DEF EachOf
  <2>2. Says(m, W)
    BY LeavesOne
  <2>3. Apart(V, W)
    BY <1>8, <1>10, UseIs DEF Apart
  <2>4. U = V \cup W
    BY <1>9, <1>10
  <2>5. x.verifier[r] = l \o m
    BY <1>4, <1>7
  <2> HIDE DEF V, W, l, m, U
  <2>6. Says(l \o m, V \cup W)
    BY <2>1, <2>2, <2>3, SaysJoin
  <2> QED
    BY <2>4, <2>5, <2>6, Zenon
<1>13. Sound(U, {"RegistersReadWriteChecking"}, c)
  BY RegisterSound
<1>14. x.uses \subseteq T
  <2> DEFINE i == "InstructionInputVirtualization"
             j == "RegistersClaimReduction"
             o == Pt3(c)
  <2>1. /\ Virt("RdWriteValue") \in Range(ValuePolys) /\ Virt("Rs1Value") \in Range(ValuePolys)
        /\ Virt("Rs2Value") \in Range(ValuePolys)
        /\ Virt("Rs1Value") \in Range(InputPolys) /\ Virt("Rs2Value") \in Range(InputPolys)
    BY ListRanges
  <2>2. EachOf(ValuePolys, j, o) \subseteq S /\ EachOf(InputPolys, i, o) \subseteq S
    BY DEF ValueClaims, OperandClaims
  <2>3. /\ RegRed("RdWriteValue") = At(Virt("RdWriteValue"), j) /\ RegRed("Rs1Value") = At(Virt("Rs1Value"), j)
        /\ RegRed("Rs2Value") = At(Virt("Rs2Value"), j)
        /\ InstrInput("Rs1Value") = At(Virt("Rs1Value"), i) /\ InstrInput("Rs2Value") = At(Virt("Rs2Value"), i)
    BY DEF RegRed, InstrInput
  <2> HIDE DEF i, j, o
  <2>4. /\ Use(RegRed("RdWriteValue"), o) \in S /\ Use(RegRed("Rs1Value"), o) \in S /\ Use(RegRed("Rs2Value"), o) \in S
        /\ PointOf(acc, RegRed("RdWriteValue")) = o
    BY <2>1, <2>2, <2>3, EachKnown
  <2>5. Use(InstrInput("Rs1Value"), o) \in S /\ Use(InstrInput("Rs2Value"), o) \in S
    BY <2>1, <2>2, <2>3, EachKnown
  <2> QED
    BY <1>3, <2>4, <2>5 DEF f, Uses, Uses6
<1> HIDE DEF U
<1>15. Leaves(x, r, U)
  BY <1>11, <1>12 DEF Leaves
<1>16. Given(x, b, max, T, U, c)
  BY <1>1, <1>13, <1>14, <1>15, GivenPlain DEF r
<1>17. Keys(x.uses) = Uses6
  BY <1>3, KeysAre, Zenon
<1> QED
  BY <1>16, <1>17 DEF x, U

\* The value of RAM while the program runs.
Pt4(c) == CyclePt(6, M6(c), c)

\* The claims of the check of RAM's values.
RamValClaims(c) ==
    {Use(RamRa("RamValCheck"), RamAddr(c) \o Pt4(c)), Use(RamInc("RamValCheck"), Pt4(c))}

\* The claim on RAM at the end.
RamFinal == At(Virt("RamValFinal"), "RamOutputCheck")

\* What that check uses: RAM's value, its end and the advice in its beginning.
Uses7(c) == {RamRW("RamVal"), RamFinal} \cup {AdviceAt(kind, "RamValCheck") : kind \in Range(KindsOf(c))}

\* The cycle of stage 4 is a point over the cycles.
LEMMA Pt4Is ==
    ASSUME NEW c \in Configs
    PROVE  /\ Pt4(c) \in Points /\ Len(Pt4(c)) = c.log_T
           /\ RamAddr(c) \o Pt4(c) \in Points
<1> DEFINE max == M6(c)
           b == 6
<1>1. max \in Nat /\ b \in Nat /\ c.log_T <= max
  BY RegSizes
<1> HIDE DEF max, b
<1>2. Pt4(c) \in Points /\ Len(Pt4(c)) = c.log_T
  BY <1>1, CyclePtIs DEF Pt4, max, b
<1> QED
  BY <1>2, RamPtIs, JoinPoints

\* The claims of the check of RAM's values.
LEMMA RamValSound ==
    ASSUME NEW c \in Configs
    PROVE  /\ Sound(RamValClaims(c), {"RamValCheck"}, c)
           /\ Of(RamValClaims(c), {Virt("RamRa"), Comm("RamInc")})
<1> DEFINE s == "RamValCheck"
           p == RamAddr(c) \o Pt4(c)
           q == Pt4(c)
<1>1. Virt("RamRa") \in Polynomials(c) /\ Comm("RamInc") \in Polynomials(c) /\ p \in Points /\ q \in Points
  BY PolynomialsHave, Pt4Is DEF Witnesses
<1>2. RamRa(s) = At(Virt("RamRa"), s) /\ RamInc(s) = At(Comm("RamInc"), s)
  BY DEF RamRa, RamInc
<1>3. RamValClaims(c) = {Use(RamRa(s), p), Use(RamInc(s), q)}
  BY DEF RamValClaims
<1> HIDE DEF s, p, q
<1>4. Sound({Use(RamRa(s), p)}, {s}, c) /\ Sound({Use(RamInc(s), q)}, {s}, c)
  BY <1>1, <1>2, SoundOne
<1>5. Sound(RamValClaims(c), {s}, c)
  BY <1>3, <1>4 DEF Sound
<1>6. Of(RamValClaims(c), {Virt("RamRa"), Comm("RamInc")})
  BY <1>2, <1>3, UseIs, AtIs DEF Of
<1> QED
  BY <1>5, <1>6 DEF s

\* The check of RAM's values.
LEMMA RamValGiven ==
    ASSUME NEW c \in Configs, NEW acc, NEW T, Knows(acc, T), RamClaims(c) \subseteq T,
           OutputClaims(c) \subseteq T, AdviceClaims(c) \subseteq T, NEW b, b = 6, NEW max, max = M6(c)
    PROVE  /\ Given(RamVal(acc, c), b, max, T, RamValClaims(c), c)
           /\ Keys(RamVal(acc, c).uses) = Uses7(c)
           /\ RamVal(acc, c).rounds = c.log_T
<1> DEFINE x == RamVal(acc, c)
           n == c.log_T
           r == Part(b, max, n)
           q == Pt4(c)
           a == RamAddr(c)
           f == PointOf(acc, RamRW("RamVal"))
           g == First(f, c.ram_log_K)
           U == RamValClaims(c)
           k1 == RamRa("RamValCheck")
           k2 == RamInc("RamValCheck")
           A == {Use(AdviceAt(kind, "RamValCheck"), LastOf(g, AdviceVars(c, kind))) : kind \in Range(KindsOf(c))}
<1>1. Use(RamRW("RamVal"), RamPt(c)) \in T /\ f = RamPt(c)
  <2>1. Use(RamRW("RamVal"), RamPt(c)) \in T
    BY DEF RamClaims
  <2> QED
    BY <2>1, KnownUse
<1>2. g = a
  BY <1>1 DEF RamAddr
<1>3. Use(RamFinal, a) \in T
  BY DEF OutputClaims, RamFinal
<1>4. InLast(x, n, b, max)
  <2>1. AccPoints(acc)
    BY DEF Knows
  <2>2. Plain(x) /\ x.rounds = n
    BY <2>1, RamValFacts
  <2> QED
    BY <2>2, RegSizes DEF InLast
<1>5. r \in Points
  <2> HIDE DEF x, n
  <2> QED
    BY <1>4, LastPoint
<1>6. x.prover[r] = RamValProver(g, r) /\ x.verifier[r] = RamValVerifier(g, r)
  BY <1>5 DEF RamVal, Instance
<1>7. q = Reverse(r)
  BY DEF Pt4, CyclePt
<1>8. x.uses = {Use(RamRW("RamVal"), f), Use(RamFinal, g)} \cup A
  BY DEF RamVal, Instance, RamFinal, AdviceAt
<1>9. A = AdviceClaims(c)
  <2>1. A = {Use(AdviceAt(kind, "RamValCheck"), LastOf(a, AdviceVars(c, kind))) : kind \in Range(KindsOf(c))}
    BY <1>2
  <2> QED
    BY <2>1 DEF AdviceClaims, AdviceAddr
<1>10. k1 # k2
  BY DEF RamRa, RamInc, At, Virt, Comm
<1>11. U = {Use(k1, a \o q), Use(k2, q)}
  BY DEF RamValClaims
<1>12. PICK d, e : RamValProver(g, r) = <<Opened(k1, a \o q, d), Opened(k2, q, e)>>
  BY <1>2, <1>7 DEF RamValProver
<1>13. RamValVerifier(g, r) = <<Expect(k1, a \o q), Expect(k2, q)>>
  BY <1>2, <1>7 DEF RamValVerifier
<1> HIDE DEF x, q, a, f, g, k1, k2, A
<1>14. Leaves(x, r, U)
  <2> DEFINE p == a \o q
             w == x.prover[r]
             v == x.verifier[r]
             P == {Use(k1, p), Use(k2, q)}
  <2>1. w = <<Opened(k1, p, d), Opened(k2, q, e)>> /\ v = <<Expect(k1, p), Expect(k2, q)>> /\ U = P
    BY <1>6, <1>11, <1>12, <1>13
  <2> HIDE DEF p, w, v, U
  <2>2. Says(<<Opened(k1, p, d), Opened(k2, q, e)>>, P) /\ Says(<<Expect(k1, p), Expect(k2, q)>>, P)
    BY <1>10, LeavesTwo
  <2> HIDE DEF P
  <2>3. Says(w, U) /\ Says(v, U)
    BY <2>1, <2>2, Zenon
  <2> QED
    BY <2>3 DEF Leaves, w, v
<1>15. Sound(U, {"RamValCheck"}, c)
  BY RamValSound
<1>16. x.uses \subseteq T
  BY <1>1, <1>2, <1>3, <1>8, <1>9
<1>17. Plain(x) /\ x.rounds = n /\ n \in Nat /\ b \in Nat /\ max \in Nat /\ n <= max
  BY <1>4 DEF InLast
<1> HIDE DEF U, n
<1>18. Given(x, b, max, T, U, c)
  BY <1>14, <1>15, <1>16, <1>17, GivenPlain DEF r
<1>19. Keys(x.uses) = Uses7(c)
  <2>1. Keys(A) = {AdviceAt(kind, "RamValCheck") : kind \in Range(KindsOf(c))}
    <3>1. \A k : k \in Keys(A) <=> \E u \in A : k = u.key
      BY DEF Keys
    <3>2. \A u : u \in A <=> \E kind \in Range(KindsOf(c)) : u = Use(AdviceAt(kind, "RamValCheck"), AdviceAddr(c, kind))
      BY <1>9 DEF AdviceClaims
    <3>3. \A k : k \in Keys(A) <=> \E kind \in Range(KindsOf(c)) : k = AdviceAt(kind, "RamValCheck")
      BY <3>1, <3>2, UseIs
    <3> QED
      BY <3>3
  <2>2. Keys({Use(RamRW("RamVal"), f), Use(RamFinal, g)}) = {RamRW("RamVal"), RamFinal}
    BY UseIs DEF Keys
  <2> DEFINE B == {Use(RamRW("RamVal"), f), Use(RamFinal, g)}
  <2>3. x.uses = B \cup A
    BY <1>8
  <2> HIDE DEF B
  <2>4. Keys(x.uses) = Keys(B) \cup Keys(A)
    BY <2>3, KeysAre, Zenon
  <2> QED
    BY <2>1, <2>2, <2>4 DEF B, Uses7
<1> QED
  BY <1>17, <1>18, <1>19 DEF x, U, n

\* Stage 4.
Stage4Claims(c) == AdviceClaims(c) \cup (RegisterClaims(c) \cup RamValClaims(c))

\* What is known after stage 4.
K4(c) == K3(c) \cup Stage4Claims(c)

\* The sumchecks of four stages.
Names4 == Names3 \cup {"RegistersReadWriteChecking", "RamValCheck"}

\* The claims of stage 4 have keys of their own.
New4(c) ==
    /\ Apart(K3(c), AdviceClaims(c)) /\ Apart(K3(c), RegisterClaims(c)) /\ Apart(K3(c), RamValClaims(c))
    /\ Apart(AdviceClaims(c), RegisterClaims(c)) /\ Apart(AdviceClaims(c), RamValClaims(c))
    /\ Apart(RegisterClaims(c), RamValClaims(c))

\* All claims so far, and that those of stage 4 are new.
LEMMA K4Sound ==
    ASSUME NEW c \in Configs
    PROVE  Sound(K4(c), Names4, c) /\ New4(c)
<1> DEFINE T == K3(c)
           A == AdviceClaims(c)
           B == RegisterClaims(c)
           D == RamValClaims(c)
<1> HIDE DEF T, A, B, D
<1>1. /\ Sound(T, Names3, c) /\ Sound(A, {"RamValCheck"}, c)
      /\ Sound(B, {"RegistersReadWriteChecking"}, c) /\ Sound(D, {"RamValCheck"}, c)
  BY K3Sound, AdviceSound, RegisterSound, RamValSound DEF T, A, B, D
<1>2. Apart(T, A) /\ Apart(T, B) /\ Apart(T, D)
  BY <1>1, OtherSumchecks DEF Names3, Names2
<1>3. Apart(A, B) /\ Apart(B, D)
  BY <1>1, OtherSumchecks
<1>4. Apart(A, D)
  <2> DEFINE P == {Advice(kind) : kind \in AdviceKinds}
             Q == {Virt("RamRa"), Comm("RamInc")}
  <2>1. Of(A, P) /\ Of(D, Q)
    BY AdviceSound, RamValSound DEF A, D
  <2>2. P \cap Q = {}
    BY DEF Advice, Virt, Comm
  <2> HIDE DEF P, Q
  <2> QED
    BY <2>1, <2>2, OtherPolys
<1>5. Sound(K4(c), Names4, c)
  BY <1>1 DEF Sound, K4, Stage4Claims, Names4, T, A, B, D
<1> QED
  BY <1>2, <1>3, <1>4, <1>5 DEF New4, T, A, B, D

\* The keys of two sets of claims.
LEMMA KeysTwo ==
    ASSUME NEW A, NEW B
    PROVE  Keys(A \cup B) = Keys(A) \cup Keys(B)
<1> QED
  BY KeysAre, Zenon

\* The rounds of a batch of two.
LEMMA TwoEqual ==
    ASSUME NEW x, NEW y, NEW m \in Nat, x.rounds = m, y.rounds \in 0 .. m
    PROVE  m = MaxRounds(<<x, y>>)
<1> DEFINE batch == <<x, y>>
           n == 2
<1>4. n \in Nat \ {0} /\ DOMAIN batch = 1 .. n
  OBVIOUS
<1>5. \A i \in 1 .. n : batch[i].rounds \in 0 .. m
  OBVIOUS
<1>6. batch[1].rounds = m /\ 1 \in 1 .. n
  OBVIOUS
<1> HIDE DEF batch, n
<1>7. \A i \in 1 .. n : batch[i].rounds \in Nat /\ batch[i].rounds <= m
  BY <1>5
<1>8. MaxRounds(batch) = m
  BY <1>4, <1>6, <1>7, MaxRoundsIs
<1> QED
  BY <1>8 DEF batch

\* The advice's claims, before the batch.
LEMMA AdviceKnows ==
    ASSUME NEW c \in Configs, NEW who \in Sides, NEW side, NEW T, SideKnows(side, T),
           RamClaims(c) \subseteq T, Apart(T, AdviceClaims(c))
    PROVE  Went(side, AppendAdvice(who, side, c), T, AdviceClaims(c), {})
<1> DEFINE acc == side.acc
           l == IF who = "prover" THEN ProverAdvice(acc, c) ELSE VerifierAdvice(acc, c)
           U == AdviceClaims(c)
           with == AppendAdvice(who, side, c)
<1>1. AppendAdvice(who, side, c) = Appends(who, side, l)
  BY DEF AppendAdvice, Appends
<1>2. PointOf(acc, RamRW("RamVal")) = RamPt(c)
  <2>1. Use(RamRW("RamVal"), RamPt(c)) \in T /\ Knows(acc, T)
    BY DEF RamClaims, SideKnows
  <2> QED
    BY <2>1, KnownUse
<1>3. Says(ProverAdvice(acc, c), U) /\ Says(VerifierAdvice(acc, c), U)
  BY <1>2, AdviceSays
<1>4. Says(l, U)
  BY <1>3
<1>5. Enterable(U)
  BY AdviceSound, SoundEnterable
<1> HIDE DEF l, U
<1>6. SideKnows(Appends(who, side, l), T \cup U) /\ Unmoved(side, Appends(who, side, l))
  BY <1>4, <1>5, AppendsKnow DEF U
<1>7. SideKnows(with, T \cup U) /\ Unmoved(side, with)
  BY <1>1, <1>6
<1> HIDE DEF with
<1>8. Went(side, with, T, U, {})
  BY <1>7 DEF Went, Unmoved
<1> QED
  BY <1>8 DEF with, U

\* The batch.
LEMMA Beside4Knows ==
    ASSUME NEW c \in Configs, NEW who \in Sides, NEW side, NEW S, SideKnows(side, S),
           NEW old, NEW acc, Knows(acc, old), old = K3(c), S = old \cup AdviceClaims(c),
           NEW with, with = side.acc, NEW b, b = 6
    PROVE  Went(side, Run(who, side, b, <<RegistersReadWrite(acc, c), RamVal(with, c)>>), S,
                RegisterClaims(c) \cup RamValClaims(c), Uses6 \cup Uses7(c))
<1> DEFINE x == RegistersReadWrite(acc, c)
           y == RamVal(with, c)
           U == RegisterClaims(c)
           V == RamValClaims(c)
           m == M6(c)
           t == Run(who, side, b, <<x, y>>)
<1>1. /\ ValueClaims(c) \subseteq old /\ OperandClaims(c) \subseteq old /\ old \subseteq S /\ Knows(with, S)
      /\ RamClaims(c) \subseteq S /\ OutputClaims(c) \subseteq S /\ AdviceClaims(c) \subseteq S /\ m = M6(c)
  BY DEF SideKnows, K3, K2, Stage3Claims, Stage2Claims, Beside2
<1>2. m \in Nat /\ c.log_T \in 0 .. m /\ m = LogRegisters + c.log_T
  BY RegSizes
<1> HIDE DEF m
<1>3. Given(x, b, m, S, U, c) /\ Keys(x.uses) = Uses6
  BY <1>1, RegisterGiven
<1>4. Given(y, b, m, S, V, c) /\ Keys(y.uses) = Uses7(c) /\ y.rounds = c.log_T
  BY <1>1, RamValGiven
<1>5. x.rounds = m
  BY <1>2, RegistersReadWriteFacts
<1> HIDE DEF x, y
<1>6. m = MaxRounds(<<x, y>>)
  BY <1>2, <1>4, <1>5, TwoEqual
<1>7. Apart(S, U) /\ Apart(S, V) /\ Apart(U, V)
  <2>1. New4(c)
    BY K4Sound
  <2>2. /\ Apart(old, U) /\ Apart(AdviceClaims(c), U) /\ Apart(old, V) /\ Apart(AdviceClaims(c), V)
        /\ Apart(U, V)
    BY <2>1 DEF New4
  <2> HIDE DEF U, V
  <2> QED
    BY <2>2 DEF Apart
<1> HIDE DEF U, V
<1>8. TwoGivens(S, b, x, y, m, U, V, c)
  BY <1>3, <1>4, <1>6, <1>7 DEF TwoGivens
<1>9. Ran(side, t, S, U \cup V, Keys(x.uses \cup y.uses))
  BY <1>8, TwoRuns
<1> DEFINE R == Keys(x.uses \cup y.uses)
           A == x.uses
           B == y.uses
           Q == Uses6 \cup Uses7(c)
           W == U \cup V
<1>10. Q \subseteq Keys(A) \cup Keys(B)
  BY <1>3, <1>4
<1> HIDE DEF A, B, Q
<1>11. Q \subseteq Keys(A \cup B)
  BY <1>10, KeysTwo
<1>12. Q \subseteq R
  BY <1>11 DEF A, B
<1> HIDE DEF t, R, W
<1>13. Ran(side, t, S, W, R)
  BY <1>9 DEF W, R
<1>14. Went(side, t, S, W, Q)
  BY <1>12, <1>13, RanWent
<1> QED
  BY <1>14 DEF t, x, y, W, U, V, Q

\* After stage 4 a side knows its claims and has used those it needs.
LEMMA Stage4Knows ==
    ASSUME NEW c \in Configs, NEW who \in Sides, NEW side, NEW T, T = K3(c), SideKnows(side, T)
    PROVE  Went(side, Stage4(who, side, c), T, Stage4Claims(c), Uses6 \cup Uses7(c))
<1> DEFINE with == AppendAdvice(who, side, c)
           b == 6
           acc == side.acc
           next == with.acc
           after == Run(who, with, b, <<RegistersReadWrite(acc, c), RamVal(next, c)>>)
           S == T \cup AdviceClaims(c)
           W == RegisterClaims(c) \cup RamValClaims(c)
           Q == Uses6 \cup Uses7(c)
<1>1. Stage4(who, side, c) = after
  BY DEF Stage4
<1>2. Knows(acc, T) /\ RamClaims(c) \subseteq T /\ Apart(T, AdviceClaims(c)) /\ b = 6
  BY K4Sound DEF SideKnows, K3, K2, Stage2Claims, Beside2, New4
<1>3. Went(side, with, T, AdviceClaims(c), {})
  BY <1>2, AdviceKnows
<1>4. next = with.acc /\ S = T \cup AdviceClaims(c)
  OBVIOUS
<1> HIDE DEF with, b, acc, next
<1>5. SideKnows(with, S)
  BY <1>3 DEF Went
<1> HIDE DEF S
<1>6. Went(with, after, S, W, Q)
  BY <1>2, <1>4, <1>5, Beside4Knows
<1> HIDE DEF after, W, Q
<1>7. Went(with, after, T \cup AdviceClaims(c), W, Q)
  BY <1>6 DEF S
<1>8. Went(side, after, T, AdviceClaims(c) \cup W, {} \cup Q)
  BY <1>3, <1>7, WentTwice
<1>9. {} \cup Q = Q
  OBVIOUS
<1> QED
  BY <1>1, <1>8, <1>9, Zenon DEF Stage4Claims, W, Q

----------------------------------------------------------------------------
(* One claim per place of a list of keys. *)

\* A claim for each of n places, from a list of keys and a list of points.
Paired(n, keys, points) == {Use(keys[i], points[i]) : i \in 1 .. n}

\* No key is in the list twice.
OneToOne(n, keys) == \A i, j \in 1 .. n : keys[i] = keys[j] => i = j

\* Lists that are given place by place say these claims.
LEMMA SaysPaired ==
    ASSUME NEW n \in Nat, NEW keys, NEW points, NEW bounds, OneToOne(n, keys),
           NEW f, f = [i \in 1 .. n |-> Opened(keys[i], points[i], bounds[i])],
           NEW g, g = [i \in 1 .. n |-> Expect(keys[i], points[i])]
    PROVE  Says(f, Paired(n, keys, points)) /\ Says(g, Paired(n, keys, points))
<1> DEFINE U == Paired(n, keys, points)
<1>1. \A i \in 1 .. n : Use(keys[i], points[i]) \in U
  BY DEF Paired
<1>2. \A u \in U : \E i \in 1 .. n : u = Use(keys[i], points[i])
  BY DEF Paired
<1> HIDE DEF U
<1>3. PlacesOf(f, n) /\ \A i \in 1 .. n : f[i] = Opened(keys[i], points[i], bounds[i])
  BY DEF PlacesOf
<1>4. PlacesOf(g, n) /\ \A i \in 1 .. n : g[i] = Expect(keys[i], points[i])
  BY DEF PlacesOf
<1>5. \A i \in 1 .. n : f[i].key = keys[i] /\ f[i].point = points[i]
  BY <1>3, OpenedIs
<1>6. \A i \in 1 .. n : g[i].key = keys[i] /\ g[i].point = points[i]
  BY <1>4 DEF Expect
<1>7. Listing(f, n, keys, points, U) /\ Listing(g, n, keys, points, U)
  BY <1>1, <1>2, <1>3, <1>4, <1>5, <1>6 DEF Listing, OneToOne
<1> QED
  BY <1>7, SaysFunction DEF U

\* Their members and their keys.
LEMMA PairedFacts ==
    ASSUME NEW n, NEW keys, NEW points
    PROVE  /\ \A i \in 1 .. n : Use(keys[i], points[i]) \in Paired(n, keys, points)
           /\ \A u \in Paired(n, keys, points) : \E i \in 1 .. n : u = Use(keys[i], points[i])
           /\ \A k : k \in Keys(Paired(n, keys, points)) <=> \E i \in 1 .. n : k = keys[i]
<1> DEFINE U == Paired(n, keys, points)
<1>1. \A i \in 1 .. n : Use(keys[i], points[i]) \in U
  BY DEF Paired
<1>2. \A u \in U : \E i \in 1 .. n : u = Use(keys[i], points[i])
  BY DEF Paired
<1> HIDE DEF U
<1>3. \A k : k \in Keys(U) <=> \E i \in 1 .. n : k = keys[i]
  BY <1>1, <1>2, UseIs DEF Keys
<1> QED
  BY <1>1, <1>2, <1>3 DEF U

\* They are claims on polynomials of the proof, at points.
LEMMA SoundPaired ==
    ASSUME NEW n \in Nat, NEW keys, NEW points, NEW s, NEW c,
           \A i \in 1 .. n : keys[i].sumcheck = s /\ keys[i].poly \in Polynomials(c) /\ points[i] \in Points
    PROVE  Sound(Paired(n, keys, points), {s}, c)
<1> SUFFICES ASSUME NEW u \in Paired(n, keys, points)
             PROVE  u.key.sumcheck \in {s} /\ u.key.poly \in Polynomials(c) /\ u.point \in Points
  BY DEF Sound
<1>1. PICK i \in 1 .. n : u = Use(keys[i], points[i])
  BY PairedFacts
<1> QED
  BY <1>1, UseIs

----------------------------------------------------------------------------
(* Stage 5. *)

\* The rounds of stage 5.
M7(c) == LOG_K + c.log_T

\* The cycle of stage 5.
Pt5(c) == CyclePt(7, M7(c), c)

\* The address of the lookup index.
IndexAddr(c) == First(Part(7, M7(c), M7(c)), LOG_K)

\* Its chunks.
IndexChunks(c) == VirtualChunks(IndexAddr(c))

\* The keys of the chunks' claims.
IndexKeys == [i \in 1 .. VirtualD |-> ReadRaf(VirtAt("InstructionRa", i))]

\* The points of the chunks' claims.
IndexPoints(c) == ChunkPoints(IndexChunks(c), Pt5(c))

\* The claims on the chunks of the lookup index.
IndexClaims(c) == Paired(VirtualD, IndexKeys, IndexPoints(c))

\* The claims on the flags of the lookup tables.
FlagClaims(c) == EachOf(TableFlags, "InstructionReadRaf", Pt5(c))

\* The claim on the flag of the operands.
RafFlagClaims(c) == {Use(ReadRaf(Virt("InstructionRafFlag")), Pt5(c))}

\* The chunks fill the address.
LEMMA ChunkSizes ==
    /\ LOG_K \in Nat \ {0} /\ LogKVirtualChunk \in Nat \ {0} /\ LogKChunk \in Nat \ {0}
    /\ VirtualD \in Nat \ {0} /\ VirtualD * LogKVirtualChunk = LOG_K
    /\ InstructionD \in Nat \ {0} /\ InstructionD * LogKChunk = LOG_K
    /\ \E m \in Nat \ {0} : LogKVirtualChunk = m * LogKChunk
<1> DEFINE L == LOG_K
           V == LogKVirtualChunk
           K == LogKChunk
<1>1. /\ L \in Nat \ {0} /\ V \in Nat \ {0} /\ K \in Nat \ {0} /\ V % K = 0 /\ L % V = 0
      /\ VirtualD = L \div V /\ InstructionD = L \div K
  BY OneHotAssumption DEF VirtualD, InstructionD
<1> HIDE DEF L, V, K
<1>2. ASSUME NEW a \in Nat \ {0}, NEW b \in Nat \ {0}, a % b = 0
      PROVE  a \div b \in Nat \ {0} /\ (a \div b) * b = a
  BY <1>2
<1>3. V \div K \in Nat \ {0} /\ (V \div K) * K = V
  BY <1>1, <1>2
<1>4. L \div V \in Nat \ {0} /\ (L \div V) * V = L
  BY <1>1, <1>2
<1> DEFINE v == V \div K
           d == L \div V
<1>5. v \in Nat \ {0} /\ v * K = V /\ d \in Nat \ {0} /\ d * V = L
  BY <1>3, <1>4
<1> HIDE DEF v, d
<1>6. (d * v) * K = L /\ d * v \in Nat \ {0}
  BY <1>1, <1>5
<1>7. L \div K = d * v
  <2> DEFINE e == d * v
  <2>1. e \in Nat \ {0} /\ e * K = L
    BY <1>6
  <2> HIDE DEF e
  <2>2. (e * K) \div K = e
    BY <1>1, <2>1
  <2> QED
    BY <2>1, <2>2 DEF e
<1> QED
  BY <1>1, <1>4, <1>5, <1>6, <1>7 DEF L, V, K, d

\* The sizes of stage 5.
LEMMA Sizes7 ==
    ASSUME NEW c \in Configs
    PROVE  /\ c.log_T \in Nat /\ M7(c) \in Nat /\ M7(c) = LOG_K + c.log_T /\ LOG_K \in 0 .. M7(c)
           /\ c.log_T \in 0 .. M7(c)
  BY ConfigAssumption, ChunkSizes DEF M7

\* The cycle, the address and the chunks of stage 5.
LEMMA IndexIs ==
    ASSUME NEW c \in Configs
    PROVE  /\ Pt5(c) \in Points /\ Len(Pt5(c)) = c.log_T
           /\ IndexAddr(c) \in Points /\ Len(IndexAddr(c)) = LOG_K
           /\ DOMAIN IndexChunks(c) = 1 .. VirtualD
           /\ \A i \in 1 .. VirtualD :
                 /\ IndexChunks(c)[i] \in Points /\ Len(IndexChunks(c)[i]) = LogKVirtualChunk
                 /\ IndexChunks(c)[i] = SubSeq(IndexAddr(c), (i - 1) * LogKVirtualChunk + 1, i * LogKVirtualChunk)
                 /\ IndexPoints(c)[i] = IndexChunks(c)[i] \o Pt5(c)
                 /\ IndexPoints(c)[i] \in Points
<1> DEFINE max == M7(c)
           b == 7
           p == Pt5(c)
           a == IndexAddr(c)
           K == LogKVirtualChunk
           n == VirtualD
           chunks == IndexChunks(c)
<1>1. max \in Nat /\ b \in Nat /\ c.log_T <= max /\ LOG_K \in Nat /\ LOG_K <= max
  BY Sizes7
<1>2. p = CyclePt(b, max, c) /\ a = First(Part(b, max, max), LOG_K)
  BY DEF Pt5, IndexAddr
<1> HIDE DEF max, b, p, a
<1>3. p \in Points /\ Len(p) = c.log_T
  BY <1>1, <1>2, CyclePtIs
<1>4. Part(b, max, max) \in Points /\ Len(Part(b, max, max)) = max
  BY <1>1, WholePart
<1>5. a \in Points /\ Len(a) = LOG_K
  BY <1>1, <1>2, <1>4, FirstFacts
<1>6. n \in Nat /\ K \in Nat \ {0} /\ n = LOG_K \div K /\ LOG_K \in Nat
  BY ChunkSizes DEF VirtualD
<1>7. DOMAIN chunks = 1 .. n /\ \A i \in 1 .. n : chunks[i] = SubSeq(a, (i - 1) * K + 1, i * K)
  BY DEF IndexChunks, VirtualChunks, a
<1> HIDE DEF K, n, chunks
<1>8. ASSUME NEW i \in 1 .. n
      PROVE  chunks[i] \in Points /\ Len(chunks[i]) = K
  <2> DEFINE e == i * K
             s == (i - 1) * K + 1
  <2>1. e \in Nat /\ e <= LOG_K /\ s \in Nat \ {0}
    BY <1>6, ChunkBounds
  <2>3. e - s + 1 = K /\ s <= e
    BY <1>6
  <2>4. chunks[i] = SubSeq(a, s, e)
    BY <1>7
  <2> HIDE DEF e, s
  <2>2. SubSeq(a, s, e) \in Points /\ Len(SubSeq(a, s, e)) = IF s <= e THEN e - s + 1 ELSE 0
    BY <1>5, <2>1, PartOfPoint
  <2> QED
    BY <2>2, <2>3, <2>4
<1>9. ASSUME NEW i \in 1 .. n PROVE IndexPoints(c)[i] = chunks[i] \o p /\ IndexPoints(c)[i] \in Points
  <2>1. IndexPoints(c)[i] = chunks[i] \o p
    BY <1>7 DEF IndexPoints, ChunkPoints, chunks, p
  <2>2. chunks[i] \o p \in Points
    BY <1>3, <1>8, JoinPoints
  <2> QED
    BY <2>1, <2>2
<1>10. /\ p \in Points /\ Len(p) = c.log_T /\ a \in Points /\ Len(a) = LOG_K /\ DOMAIN chunks = 1 .. n
       /\ \A i \in 1 .. n :
            /\ chunks[i] \in Points /\ Len(chunks[i]) = K /\ chunks[i] = SubSeq(a, (i - 1) * K + 1, i * K)
            /\ IndexPoints(c)[i] = chunks[i] \o p /\ IndexPoints(c)[i] \in Points
  BY <1>3, <1>5, <1>7, <1>8, <1>9
<1> QED
  BY <1>10 DEF p, a, K, n, chunks

\* Claims of polynomials of one name.
Called(U, name) == \A u \in U : u.key.poly[2] = name

\* Claims on polynomials of different names have different keys.
LEMMA OtherNames ==
    ASSUME NEW U, NEW V, NEW a, NEW b, Called(U, a), Called(V, b), a # b
    PROVE  Apart(U, V)
  BY DEF Called, Apart

\* The claims of the read and address check of the lookups.
LookupIndexClaims(c) == FlagClaims(c) \cup IndexClaims(c) \cup RafFlagClaims(c)

\* The keys of the chunks are different.
LEMMA IndexKeysAre ==
    /\ OneToOne(VirtualD, IndexKeys)
    /\ \A i \in 1 .. VirtualD :
          /\ IndexKeys[i] = ReadRaf(VirtAt("InstructionRa", i))
          /\ IndexKeys[i].sumcheck = "InstructionReadRaf" /\ IndexKeys[i].poly = VirtAt("InstructionRa", i)
<1>1. \A i \in 1 .. VirtualD : IndexKeys[i] = ReadRaf(VirtAt("InstructionRa", i))
  BY DEF IndexKeys
<1>2. ASSUME NEW i \in 1 .. VirtualD
      PROVE  IndexKeys[i].sumcheck = "InstructionReadRaf" /\ IndexKeys[i].poly = VirtAt("InstructionRa", i)
  BY <1>1, AtIs DEF ReadRaf
<1>3. ASSUME NEW i \in 1 .. VirtualD, NEW j \in 1 .. VirtualD, IndexKeys[i] = IndexKeys[j] PROVE i = j
  <2>1. VirtAt("InstructionRa", i) = VirtAt("InstructionRa", j)
    BY <1>2, <1>3
  <2> QED
    BY <2>1 DEF VirtAt
<1> QED
  BY <1>1, <1>2, <1>3 DEF OneToOne

\* The names of the polynomials of its claims.
LEMMA LookupIndexNames ==
    ASSUME NEW c \in Configs
    PROVE  /\ Called(FlagClaims(c), "LookupTableFlag") /\ Called(IndexClaims(c), "InstructionRa")
           /\ Called(RafFlagClaims(c), "InstructionRafFlag")
<1>1. Called(FlagClaims(c), "LookupTableFlag")
  <2> SUFFICES ASSUME NEW u \in FlagClaims(c) PROVE u.key.poly[2] = "LookupTableFlag"
    BY DEF Called
  <2>1. u.key.poly \in Range(TableFlags)
    BY EachIs DEF FlagClaims
  <2>2. PICK i \in DOMAIN TableFlags : u.key.poly = TableFlags[i]
    BY <2>1 DEF Range
  <2>3. TableFlags[i] = VirtAt("LookupTableFlag", i)
    BY TableFlagsDiffer DEF TableFlags
  <2> QED
    BY <2>2, <2>3 DEF VirtAt
<1>2. Called(IndexClaims(c), "InstructionRa")
  <2> SUFFICES ASSUME NEW u \in IndexClaims(c) PROVE u.key.poly[2] = "InstructionRa"
    BY DEF Called
  <2>1. PICK i \in 1 .. VirtualD : u = Use(IndexKeys[i], IndexPoints(c)[i])
    BY PairedFacts DEF IndexClaims
  <2>2. u.key.poly = VirtAt("InstructionRa", i)
    BY <2>1, IndexKeysAre, UseIs
  <2> QED
    BY <2>2 DEF VirtAt
<1>3. Called(RafFlagClaims(c), "InstructionRafFlag")
  <2> SUFFICES ASSUME NEW u \in RafFlagClaims(c) PROVE u.key.poly[2] = "InstructionRafFlag"
    BY DEF Called
  <2>1. u = Use(ReadRaf(Virt("InstructionRafFlag")), Pt5(c))
    BY DEF RafFlagClaims
  <2>2. u.key.poly = Virt("InstructionRafFlag")
    BY <2>1, UseIs, AtIs DEF ReadRaf
  <2> QED
    BY <2>2 DEF Virt
<1> QED
  BY <1>1, <1>2, <1>3

\* They are claims on polynomials of the proof, at points.
LEMMA LookupIndexSound ==
    ASSUME NEW c \in Configs
    PROVE  Sound(LookupIndexClaims(c), {"InstructionReadRaf"}, c)
<1> DEFINE s == "InstructionReadRaf"
           p == Pt5(c)
           q == Virt("InstructionRafFlag")
           n == VirtualD
           k == IndexKeys
           e == IndexPoints(c)
<1>1. Sound(FlagClaims(c), {s}, c)
  BY IndexIs, PolynomialsHave, SoundEach DEF FlagClaims
<1>2. p \in Points /\ q \in Polynomials(c) /\ RafFlagClaims(c) = {Use(At(q, s), p)}
  BY IndexIs, PolynomialsHave DEF Witnesses, RafFlagClaims, ReadRaf
<1>3. n \in Nat /\ \A i \in 1 .. n : k[i].sumcheck = s /\ k[i].poly \in Polynomials(c) /\ e[i] \in Points
  BY ChunkSizes, IndexKeysAre, IndexIs, PolynomialsHave
<1>4. IndexClaims(c) = Paired(n, k, e)
  BY DEF IndexClaims
<1> HIDE DEF s, p, q, n, k, e
<1>5. Sound(RafFlagClaims(c), {s}, c)
  BY <1>2, SoundOne
<1>6. Sound(IndexClaims(c), {s}, c)
  BY <1>3, <1>4, SoundPaired
<1>7. Sound(LookupIndexClaims(c), {s}, c)
  BY <1>1, <1>5, <1>6 DEF Sound, LookupIndexClaims
<1> QED
  BY <1>7 DEF s

\* Both sides append these claims.
LEMMA ReadRafLeaves ==
    ASSUME NEW c \in Configs, NEW r, r = Part(7, M7(c), M7(c))
    PROVE  Says(ReadRafProver(r), LookupIndexClaims(c)) /\ Says(ReadRafVerifier(r), LookupIndexClaims(c))
<1> DEFINE s == "InstructionReadRaf"
           a == IndexAddr(c)
           y == From(r, LOG_K)
           p == Pt5(c)
           n == VirtualD
           k == IndexKeys
           e == IndexPoints(c)
           d == ChunkPoints(VirtualChunks(HighToLow(a)), LowToHigh(y))
           h == ReadRaf(Virt("InstructionRafFlag"))
           U == FlagClaims(c)
           V == IndexClaims(c)
           W == RafFlagClaims(c)
           f1 == OpenedEach(TableFlags, s, p, p)
           f2 == [i \in 1 .. n |-> Opened(k[i], e[i], d[i])]
           f3 == <<Opened(h, p, p)>>
           g1 == ExpectEach(TableFlags, s, p)
           g2 == [i \in 1 .. n |-> Expect(k[i], e[i])]
           g3 == <<Expect(h, p)>>
<1>1. p = Reverse(y)
  <2> DEFINE max == M7(c)
             b == 7
             m == LOG_K
  <2>1. /\ b \in Nat /\ max \in Nat /\ max \in 0 .. max /\ c.log_T \in 0 .. max /\ m = max - c.log_T
        /\ r = Part(b, max, max) /\ p = CyclePt(b, max, c) /\ y = From(r, m)
    BY Sizes7 DEF Pt5
  <2> HIDE DEF max, b, m, y, p
  <2>2. y = Part(b, max, c.log_T)
    BY <2>1, PartTwice
  <2> QED
    BY <2>1, <2>2 DEF CyclePt
<1>2. a = First(r, LOG_K)
  BY DEF IndexAddr
<1>3. e = ChunkPoints(VirtualChunks(a), p)
  BY DEF IndexPoints, IndexChunks
<1>4. \A i \in 1 .. n : k[i] = ReadRaf(VirtAt("InstructionRa", i))
  BY IndexKeysAre
<1>5. ReadRafProver(r) = f1 \o f2 \o f3
  <2> HIDE DEF a, y, p, e, k
  <2>1. ReadRafProver(r) = f1 \o [i \in 1 .. n |-> Opened(ReadRaf(VirtAt("InstructionRa", i)), e[i], d[i])] \o f3
    BY <1>1, <1>2, <1>3 DEF ReadRafProver, y
  <2> QED
    BY <1>4, <2>1
<1>6. ReadRafVerifier(r) = g1 \o g2 \o g3
  <2> HIDE DEF a, y, p, e, k
  <2>1. ReadRafVerifier(r) = g1 \o [i \in 1 .. n |-> Expect(ReadRaf(VirtAt("InstructionRa", i)), e[i])] \o g3
    BY <1>1, <1>2, <1>3 DEF ReadRafVerifier, y
  <2> QED
    BY <1>4, <2>1
<1>7. V = Paired(n, k, e) /\ n \in Nat /\ OneToOne(n, k)
  BY ChunkSizes, IndexKeysAre DEF IndexClaims
<1>8. U = EachOf(TableFlags, s, p) /\ W = {Use(h, p)} /\ Different(TableFlags)
  BY TableFlagsDiffer DEF FlagClaims, RafFlagClaims
<1>9. Apart(U, V) /\ Apart(U \cup V, W)
  <2>1. Called(U, "LookupTableFlag") /\ Called(V, "InstructionRa") /\ Called(W, "InstructionRafFlag")
    BY LookupIndexNames
  <2> HIDE DEF U, V, W
  <2>2. Apart(U, V) /\ Apart(U, W) /\ Apart(V, W)
    BY <2>1, OtherNames
  <2> QED
    BY <2>2 DEF Apart
<1> HIDE DEF s, p, n, k, e, d, h, a, y, U, V, W
<1>10. Says(f1, U) /\ Says(g1, U)
  BY <1>8, SaysEach DEF EachOf
<1>11. Says(f2, V) /\ Says(g2, V)
  <2>1. ASSUME NEW f, f = f2, NEW g, g = g2 PROVE Says(f, V) /\ Says(g, V)
    <3>1. Says(f, Paired(n, k, e)) /\ Says(g, Paired(n, k, e))
      BY <1>7, <2>1, SaysPaired
    <3> QED
      BY <1>7, <3>1
  <2> HIDE DEF f2, g2
  <2> QED
    BY <2>1
<1>12. Says(f3, W) /\ Says(g3, W)
  BY <1>8, LeavesOne
<1> HIDE DEF f1, f2, f3, g1, g2, g3
<1>13. Says(f1 \o f2, U \cup V) /\ Says(g1 \o g2, U \cup V)
  BY <1>9, <1>10, <1>11, SaysJoin
<1>14. Says(f1 \o f2 \o f3, U \cup V \cup W) /\ Says(g1 \o g2 \o g3, U \cup V \cup W)
  BY <1>9, <1>12, <1>13, SaysJoin
<1>15. LookupIndexClaims(c) = U \cup V \cup W
  BY DEF LookupIndexClaims, U, V, W
<1> QED
  BY <1>5, <1>6, <1>14, <1>15, Zenon

\* The lookups' claims at the cycle of stage 2.
Uses8 ==
    {InstrRed("LookupOutput"), Product("LookupOutput"), InstrRed("LeftLookupOperand"),
     InstrRed("RightLookupOperand")}

\* The read and address check of the lookups.
LEMMA ReadRafGiven ==
    ASSUME NEW c \in Configs, NEW acc, NEW T, Knows(acc, T), LookupClaims(c) \subseteq T,
           ProductClaims(c) \subseteq T, NEW b, b = 7, NEW max, max = M7(c)
    PROVE  /\ Given(InstructionReadRaf(acc, c), b, max, T, LookupIndexClaims(c), c)
           /\ Keys(InstructionReadRaf(acc, c).uses) = Uses8
           /\ InstructionReadRaf(acc, c).rounds = max
<1> DEFINE x == InstructionReadRaf(acc, c)
           r == Part(b, max, max)
           f == PointOf(acc, InstrRed("LookupOutput"))
           U == LookupIndexClaims(c)
<1>1. Plain(x) /\ x.rounds = max /\ max \in Nat /\ b \in Nat
  BY ReadRafFacts, Sizes7
<1>2. r \in Points
  <2> HIDE DEF x
  <2> QED
    BY <1>1, WholePart
<1>3. x.uses = Uses(Uses8, f)
  BY DEF InstructionReadRaf, Instance, Uses8
<1>4. x.prover[r] = ReadRafProver(r) /\ x.verifier[r] = ReadRafVerifier(r)
  BY <1>2 DEF InstructionReadRaf, Instance
<1>5. r = Part(7, M7(c), M7(c))
  OBVIOUS
<1> HIDE DEF x, r, U
<1>6. Says(ReadRafProver(r), U) /\ Says(ReadRafVerifier(r), U)
  BY <1>5, ReadRafLeaves DEF U
<1>7. Leaves(x, r, U)
  BY <1>4, <1>6 DEF Leaves
<1>8. x.uses \subseteq T
  <2>1. /\ Virt("LookupOutput") \in Range(LookupPolys) /\ Virt("LeftLookupOperand") \in Range(LookupPolys)
        /\ Virt("RightLookupOperand") \in Range(LookupPolys) /\ Virt("LookupOutput") \in Range(ProductFactors)
    BY ListRanges, FactorsAre
  <2>2. /\ Use(InstrRed("LookupOutput"), Pt2(c)) \in T /\ Use(InstrRed("LeftLookupOperand"), Pt2(c)) \in T
        /\ Use(InstrRed("RightLookupOperand"), Pt2(c)) \in T /\ f = Pt2(c)
    BY <2>1, LookupKnown
  <2>3. Use(Product("LookupOutput"), Pt2(c)) \in T
    BY <2>1, ProductKnown DEF ProductOf, Product
  <2> QED
    BY <1>3, <2>2, <2>3 DEF Uses, Uses8
<1>9. Sound(U, {"InstructionReadRaf"}, c)
  BY LookupIndexSound DEF U
<1>10. max <= max
  BY <1>1
<1>11. Given(x, b, max, T, U, c)
  BY <1>1, <1>7, <1>8, <1>9, <1>10, GivenPlain DEF r
<1>12. Keys(x.uses) = Uses8
  BY <1>3, KeysAre, Zenon
<1> QED
  BY <1>1, <1>11, <1>12 DEF x, U

\* The three claims on the addresses of RAM become one.
RaReductionClaims(c) == {Use(RamRa("RamRaClaimReduction"), RamAddr(c) \o Pt5(c))}

\* What the reduction of RAM's addresses uses.
Uses9 == {RamRa("RamRafEvaluation"), RamRa("RamReadWriteChecking"), RamRa("RamValCheck")}

\* The claim it leaves.
LEMMA RaReductionSound ==
    ASSUME NEW c \in Configs
    PROVE  /\ Sound(RaReductionClaims(c), {"RamRaClaimReduction"}, c)
           /\ RamAddr(c) \o Pt5(c) \in Points
<1> DEFINE s == "RamRaClaimReduction"
           p == RamAddr(c) \o Pt5(c)
           q == Virt("RamRa")
<1>1. p \in Points /\ q \in Polynomials(c) /\ RaReductionClaims(c) = {Use(At(q, s), p)}
  BY RamPtIs, IndexIs, JoinPoints, PolynomialsHave DEF Witnesses, RaReductionClaims, RamRa
<1> HIDE DEF s, p, q
<1>2. Sound(RaReductionClaims(c), {s}, c)
  BY <1>1, SoundOne
<1> QED
  BY <1>1, <1>2 DEF s, p

\* The reduction of RAM's addresses.
LEMMA RaReductionGiven ==
    ASSUME NEW c \in Configs, NEW acc, NEW T, Knows(acc, T), RafClaims(c) \subseteq T,
           RamClaims(c) \subseteq T, RamValClaims(c) \subseteq T, NEW b, b = 7, NEW max, max = M7(c)
    PROVE  /\ Given(RamRaReduction(acc, c), b, max, T, RaReductionClaims(c), c)
           /\ Keys(RamRaReduction(acc, c).uses) = Uses9
           /\ RamRaReduction(acc, c).rounds = c.log_T
<1> DEFINE x == RamRaReduction(acc, c)
           n == c.log_T
           K == c.ram_log_K
           r == Part(b, max, n)
           q == Pt5(c)
           a == RamAddr(c)
           k == RamRa("RamRaClaimReduction")
           U == RaReductionClaims(c)
           k1 == RamRa("RamRafEvaluation")
           k2 == RamRa("RamReadWriteChecking")
           k3 == RamRa("RamValCheck")
           f1 == PointOf(acc, k1)
           f2 == PointOf(acc, k2)
           f3 == PointOf(acc, k3)
           g == First(f1, K)
<1>1. Use(k1, a \o OuterPt(c)) \in T /\ f1 = a \o OuterPt(c)
  <2>1. Use(k1, a \o OuterPt(c)) \in T
    BY DEF RafClaims
  <2> HIDE DEF k1
  <2> QED
    BY <2>1, KnownUse
<1>2. Use(k2, RamPt(c)) \in T /\ f2 = RamPt(c)
  <2>1. Use(k2, RamPt(c)) \in T
    BY DEF RamClaims, RamRW, RamRa
  <2> HIDE DEF k2
  <2> QED
    BY <2>1, KnownUse
<1>3. Use(k3, a \o Pt4(c)) \in T /\ f3 = a \o Pt4(c)
  <2>1. Use(k3, a \o Pt4(c)) \in T
    BY DEF RamValClaims
  <2> HIDE DEF k3
  <2> QED
    BY <2>1, KnownUse
<1>4. a \in Points /\ K = Len(a) /\ OuterPt(c) \in Points /\ Pt4(c) \in Points /\ RamCyc(c) \in Points
      /\ a \o RamCyc(c) = RamPt(c)
  BY RamPtIs, OuterPtIs, Pt4Is
<1>5. InLast(x, n, b, max)
  <2>1. AccPoints(acc)
    BY DEF Knows
  <2>2. Plain(x) /\ x.rounds = n
    BY <2>1, RamValFacts
  <2> QED
    BY <2>2, Sizes7 DEF InLast
<1>6. r \in Points
  <2> HIDE DEF x, n
  <2> QED
    BY <1>5, LastPoint
<1>7. x.prover[r] = RamRaReductionProver(g, r) /\ x.verifier[r] = RamRaReductionVerifier(g, r)
  BY <1>6 DEF RamRaReduction, Instance
<1>8. q = Reverse(r)
  BY DEF Pt5, CyclePt
<1>9. x.uses = {Use(k1, g \o From(f1, K)), Use(k2, g \o From(f2, K)), Use(k3, g \o From(f3, K))}
  BY DEF RamRaReduction, Instance
<1>10. U = {Use(k, a \o q)}
  BY DEF RaReductionClaims
<1> HIDE DEF x, n, K, r, q, a, k, U, k1, k2, k3, f1, f2, f3
<1>11. g = a /\ From(f1, K) = OuterPt(c) /\ From(f2, K) = RamCyc(c) /\ From(f3, K) = Pt4(c)
  <2> DEFINE s == OuterPt(c)
             t == RamCyc(c)
             u == Pt4(c)
             v == RamPt(c)
  <2>1. s \in Points /\ t \in Points /\ u \in Points /\ a \in Points /\ K = Len(a)
    BY <1>4
  <2>2. f1 = a \o s /\ f2 = a \o t /\ f3 = a \o u
    BY <1>1, <1>2, <1>3, <1>4
  <2> HIDE DEF s, t, u, v
  <2>3. First(a \o s, K) = a /\ From(a \o s, K) = s
    BY <2>1, JoinSplit
  <2>4. From(a \o t, K) = t /\ From(a \o u, K) = u
    BY <2>1, JoinSplit
  <2> QED
    BY <2>2, <2>3, <2>4 DEF s, t, u
<1> HIDE DEF g
<1>12. x.uses = {Use(k1, a \o OuterPt(c)), Use(k2, RamPt(c)), Use(k3, a \o Pt4(c))}
  BY <1>4, <1>9, <1>11
<1>13. x.uses \subseteq T
  BY <1>1, <1>2, <1>3, <1>12
<1>14. Keys(x.uses) = Uses9
  <2> DEFINE p1 == a \o OuterPt(c)
             p2 == RamPt(c)
             p3 == a \o Pt4(c)
  <2> HIDE DEF p1, p2, p3
  <2>1. Keys({Use(k1, p1), Use(k2, p2), Use(k3, p3)}) = {k1, k2, k3}
    BY UseIs DEF Keys
  <2> QED
    BY <1>12, <2>1 DEF p1, p2, p3, Uses9, k1, k2, k3
<1>15. PICK d : RamRaReductionProver(g, r) = <<Opened(k, a \o q, d)>>
  BY <1>8, <1>11 DEF RamRaReductionProver, k
<1>16. RamRaReductionVerifier(g, r) = <<Expect(k, a \o q)>>
  BY <1>8, <1>11 DEF RamRaReductionVerifier, k
<1>17. Leaves(x, r, U)
  <2> DEFINE p == a \o q
             w == x.prover[r]
             v == x.verifier[r]
             P == {Use(k, p)}
  <2>1. w = <<Opened(k, p, d)>> /\ v = <<Expect(k, p)>> /\ U = P
    BY <1>7, <1>10, <1>15, <1>16
  <2> HIDE DEF p, w, v
  <2>2. Says(<<Opened(k, p, d)>>, P) /\ Says(<<Expect(k, p)>>, P)
    BY LeavesOne
  <2> HIDE DEF P
  <2>3. Says(w, U) /\ Says(v, U)
    BY <2>1, <2>2, Zenon
  <2> QED
    BY <2>3 DEF Leaves, w, v
<1>18. Sound(U, {"RamRaClaimReduction"}, c)
  BY RaReductionSound DEF U
<1>19. Plain(x) /\ x.rounds = n /\ n \in Nat /\ b \in Nat /\ max \in Nat /\ n <= max
  BY <1>5 DEF InLast
<1>20. Given(x, b, max, T, U, c)
  BY <1>13, <1>17, <1>18, <1>19, GivenPlain DEF r
<1> QED
  BY <1>14, <1>19, <1>20 DEF x, U, n

\* The values of the registers while the program runs.
RdWaVal == At(Virt("RdWa"), "RegistersValEvaluation")

\* The claims of the check of the registers' values.
RegisterValClaims(c) ==
    {Use(RdInc("RegistersValEvaluation"), Pt5(c)), Use(RdWaVal, RegAddr(c) \o Pt5(c))}

\* They are claims on polynomials of the proof, at points.
LEMMA RegisterValSound ==
    ASSUME NEW c \in Configs
    PROVE  /\ Sound(RegisterValClaims(c), {"RegistersValEvaluation"}, c)
           /\ RegAddr(c) \o Pt5(c) \in Points
<1> DEFINE s == "RegistersValEvaluation"
           p == RegAddr(c) \o Pt5(c)
           q == Pt5(c)
           k == RdInc(s)
           j == RdWaVal
<1>1. Virt("RdWa") \in Polynomials(c) /\ Comm("RdInc") \in Polynomials(c) /\ p \in Points /\ q \in Points
  BY PolynomialsHave, IndexIs, RegPtIs, JoinPoints DEF Witnesses
<1>2. k = At(Comm("RdInc"), s) /\ j = At(Virt("RdWa"), s)
  BY DEF RdInc, RdWaVal
<1>3. RegisterValClaims(c) = {Use(k, q), Use(j, p)}
  BY DEF RegisterValClaims
<1> HIDE DEF s, p, q, k, j
<1>4. Sound({Use(k, q)}, {s}, c) /\ Sound({Use(j, p)}, {s}, c)
  BY <1>1, <1>2, SoundOne
<1>5. Sound(RegisterValClaims(c), {s}, c)
  BY <1>3, <1>4 DEF Sound
<1> QED
  BY <1>1, <1>5 DEF s, p

\* The check of the registers' values.
LEMMA RegisterValGiven ==
    ASSUME NEW c \in Configs, NEW acc, NEW T, Knows(acc, T), RegisterClaims(c) \subseteq T,
           NEW b, b = 7, NEW max, max = M7(c)
    PROVE  /\ Given(RegistersVal(acc), b, max, T, RegisterValClaims(c), c)
           /\ Keys(RegistersVal(acc).uses) = {RegRW("RegistersVal")}
           /\ RegistersVal(acc).rounds = c.log_T
<1> DEFINE x == RegistersVal(acc)
           n == c.log_T
           r == Part(b, max, n)
           q == Pt5(c)
           a == RegAddr(c)
           k == RegRW("RegistersVal")
           f == PointOf(acc, k)
           g == First(f, LogRegisters)
           U == RegisterValClaims(c)
           k1 == RdInc("RegistersValEvaluation")
           k2 == RdWaVal
<1>1. Use(k, RegPt(c)) \in T /\ f = RegPt(c)
  <2>1. Use(k, RegPt(c)) \in T
    BY DEF RegisterClaims
  <2> HIDE DEF k
  <2> QED
    BY <2>1, KnownUse
<1>2. g = a /\ Len(From(f, LogRegisters)) = n
  BY <1>1, RegPtIs DEF RegAddr, RegCyc
<1>3. InLast(x, n, b, max)
  <2>1. AccPoints(acc)
    BY DEF Knows
  <2>2. Plain(x)
    BY <2>1, RegistersValFacts
  <2>3. x.rounds = Len(From(f, LogRegisters))
    BY DEF RegistersVal, Instance
  <2> QED
    BY <1>2, <2>2, <2>3, Sizes7 DEF InLast
<1>4. r \in Points
  <2> HIDE DEF x, n
  <2> QED
    BY <1>3, LastPoint
<1>5. x.prover[r] = RegistersValProver(g, r) /\ x.verifier[r] = RegistersValVerifier(g, r)
  BY <1>4 DEF RegistersVal, Instance
<1>6. q = Reverse(r)
  BY DEF Pt5, CyclePt
<1>7. x.uses = {Use(k, f)}
  BY DEF RegistersVal, Instance
<1>8. k1 # k2
  BY DEF RdInc, RdWaVal, At, Virt, Comm
<1>9. U = {Use(k1, q), Use(k2, a \o q)}
  BY DEF RegisterValClaims
<1>10. PICK d, e : RegistersValProver(g, r) = <<Opened(k1, q, d), Opened(k2, a \o q, e)>>
  BY <1>2, <1>6 DEF RegistersValProver, RdWaVal
<1>11. RegistersValVerifier(g, r) = <<Expect(k1, q), Expect(k2, a \o q)>>
  BY <1>2, <1>6 DEF RegistersValVerifier, RdWaVal
<1> HIDE DEF x, q, a, f, g, k, k1, k2, n
<1>12. Leaves(x, r, U)
  <2> DEFINE p == a \o q
             w == x.prover[r]
             v == x.verifier[r]
             P == {Use(k1, q), Use(k2, p)}
  <2>1. w = <<Opened(k1, q, d), Opened(k2, p, e)>> /\ v = <<Expect(k1, q), Expect(k2, p)>> /\ U = P
    BY <1>5, <1>9, <1>10, <1>11
  <2> HIDE DEF p, w, v, U
  <2>2. Says(<<Opened(k1, q, d), Opened(k2, p, e)>>, P) /\ Says(<<Expect(k1, q), Expect(k2, p)>>, P)
    BY <1>8, LeavesTwo
  <2> HIDE DEF P
  <2>3. Says(w, U) /\ Says(v, U)
    BY <2>1, <2>2, Zenon
  <2> QED
    BY <2>3 DEF Leaves, w, v
<1>13. Sound(U, {"RegistersValEvaluation"}, c)
  BY RegisterValSound
<1>14. x.uses \subseteq T
  BY <1>1, <1>7
<1>15. Plain(x) /\ x.rounds = n /\ n \in Nat /\ b \in Nat /\ max \in Nat /\ n <= max
  BY <1>3 DEF InLast
<1> HIDE DEF U
<1>16. Given(x, b, max, T, U, c)
  BY <1>12, <1>13, <1>14, <1>15, GivenPlain DEF r
<1>17. Keys(x.uses) = {k}
  BY <1>7, KeysAre, Zenon
<1> QED
  BY <1>15, <1>16, <1>17 DEF x, U, n, k

\* Stage 5.
Stage5Claims(c) == LookupIndexClaims(c) \cup RaReductionClaims(c) \cup RegisterValClaims(c)

\* What is known after stage 5.
K5(c) == K4(c) \cup Stage5Claims(c)

\* The sumchecks of five stages.
Names5 == Names4 \cup {"InstructionReadRaf", "RamRaClaimReduction", "RegistersValEvaluation"}

\* What stage 5 uses.
UsesOf5 == Uses8 \cup Uses9 \cup {RegRW("RegistersVal")}

\* The claims of stage 5 have keys of their own.
New5(c) ==
    /\ Apart(K4(c), LookupIndexClaims(c)) /\ Apart(K4(c), RaReductionClaims(c)) /\ Apart(K4(c), RegisterValClaims(c))
    /\ Apart(LookupIndexClaims(c), RaReductionClaims(c)) /\ Apart(LookupIndexClaims(c), RegisterValClaims(c))
    /\ Apart(RaReductionClaims(c), RegisterValClaims(c))

\* All claims so far, and that those of stage 5 are new.
LEMMA K5Sound ==
    ASSUME NEW c \in Configs
    PROVE  Sound(K5(c), Names5, c) /\ New5(c)
<1> DEFINE T == K4(c)
           A == LookupIndexClaims(c)
           B == RaReductionClaims(c)
           D == RegisterValClaims(c)
<1> HIDE DEF T, A, B, D
<1>1. /\ Sound(T, Names4, c) /\ Sound(A, {"InstructionReadRaf"}, c)
      /\ Sound(B, {"RamRaClaimReduction"}, c) /\ Sound(D, {"RegistersValEvaluation"}, c)
  BY K4Sound, LookupIndexSound, RaReductionSound, RegisterValSound DEF T, A, B, D
<1>2. Apart(T, A) /\ Apart(T, B) /\ Apart(T, D)
  BY <1>1, OtherSumchecks DEF Names4, Names3, Names2
<1>3. Apart(A, B) /\ Apart(A, D) /\ Apart(B, D)
  BY <1>1, OtherSumchecks
<1>4. Sound(K5(c), Names5, c)
  BY <1>1 DEF Sound, K5, Stage5Claims, Names5, T, A, B, D
<1> QED
  BY <1>2, <1>3, <1>4 DEF New5, T, A, B, D

\* After stage 5 a side knows its claims and has used those it needs.
LEMMA Stage5Knows ==
    ASSUME NEW c \in Configs, NEW who \in Sides, NEW side, NEW T, T = K4(c), SideKnows(side, T)
    PROVE  Went(side, Stage5(who, side, c), T, Stage5Claims(c), UsesOf5)
<1> DEFINE acc == side.acc
           b == 7
           m == M7(c)
           x1 == InstructionReadRaf(acc, c)
           x2 == RamRaReduction(acc, c)
           x3 == RegistersVal(acc)
           U1 == LookupIndexClaims(c)
           U2 == RaReductionClaims(c)
           U3 == RegisterValClaims(c)
           t == Stage5(who, side, c)
<1>1. /\ Knows(acc, T) /\ ProductClaims(c) \subseteq T /\ LookupClaims(c) \subseteq T
      /\ RafClaims(c) \subseteq T /\ RamClaims(c) \subseteq T /\ RamValClaims(c) \subseteq T
      /\ RegisterClaims(c) \subseteq T /\ b = 7 /\ m = M7(c)
  BY DEF SideKnows, K4, K3, K2, K1, Stage2Claims, Beside2, Stage4Claims
<1>2. t = Run(who, side, b, <<x1, x2, x3>>)
  BY DEF Stage5
<1>3. m \in Nat /\ c.log_T \in 0 .. m
  BY Sizes7
<1> HIDE DEF b, m, acc
<1>4. /\ Given(x1, b, m, T, U1, c) /\ Given(x2, b, m, T, U2, c) /\ Given(x3, b, m, T, U3, c)
  BY <1>1, ReadRafGiven, RaReductionGiven, RegisterValGiven
<1>5. /\ Keys(x1.uses) = Uses8 /\ Keys(x2.uses) = Uses9 /\ Keys(x3.uses) = {RegRW("RegistersVal")}
      /\ x1.rounds = m /\ x2.rounds = c.log_T /\ x3.rounds = c.log_T
  BY <1>1, ReadRafGiven, RaReductionGiven, RegisterValGiven
<1>6. /\ Apart(T, U1) /\ Apart(T, U2) /\ Apart(T, U3) /\ Apart(U1, U2) /\ Apart(U1, U3) /\ Apart(U2, U3)
  BY K5Sound DEF New5
<1> HIDE DEF x1, x2, x3, U1, U2, U3, t
<1>7. m = MaxRounds(<<x1, x2, x3>>)
  BY <1>3, <1>5, ThreeEqual
<1>8. ThreeGivens(T, b, x1, x2, x3, m, U1, U2, U3, c)
  BY <1>4, <1>6, <1>7 DEF ThreeGivens
<1>9. Ran(side, Run(who, side, b, <<x1, x2, x3>>), T, U1 \cup U2 \cup U3, Keys(x1.uses \cup x2.uses \cup x3.uses))
  BY <1>8, ThreeRuns
<1> DEFINE R == Keys(x1.uses \cup x2.uses \cup x3.uses)
           W == Stage5Claims(c)
<1>10. W = U1 \cup U2 \cup U3
  BY DEF Stage5Claims, U1, U2, U3
<1>11. UsesOf5 \subseteq R
  <2> DEFINE A == x1.uses
             B == x2.uses
             D == x3.uses
  <2>1. UsesOf5 \subseteq Keys(A) \cup Keys(B) \cup Keys(D)
    BY <1>5 DEF UsesOf5
  <2> HIDE DEF A, B, D
  <2>2. UsesOf5 \subseteq Keys(A \cup B \cup D)
    BY <2>1, KeysThree
  <2> QED
    BY <2>2 DEF A, B, D
<1>12. Ran(side, t, T, W, R)
  BY <1>2, <1>9, <1>10, Zenon
<1> HIDE DEF R, W
<1>13. Went(side, t, T, W, UsesOf5)
  BY <1>11, <1>12, RanWent
<1> QED
  BY <1>13 DEF t, W

----------------------------------------------------------------------------
(* Stage 6. *)

\* The batch is as long as the longer address and a cycle.
M8(c) == IF LogKChunk <= c.bytecode_log_K THEN c.bytecode_log_K + c.log_T ELSE LogKChunk + c.log_T

\* The cycle of stage 6.
Pt6(c) == CyclePt(8, M8(c), c)

\* The sizes of stage 6.
LEMMA Sizes8 ==
    ASSUME NEW c \in Configs
    PROVE  /\ c.log_T \in Nat /\ c.bytecode_log_K \in Nat /\ LogKChunk \in Nat \ {0}
           /\ c.ram_log_K \in Nat
           /\ M8(c) \in Nat /\ c.log_T \in 0 .. M8(c)
           /\ LogKChunk + c.log_T \in 0 .. M8(c) /\ c.bytecode_log_K + c.log_T \in 0 .. M8(c)
           /\ (M8(c) = LogKChunk + c.log_T \/ M8(c) = c.bytecode_log_K + c.log_T)
  BY ConfigAssumption, OneHotAssumption DEF M8

\* The cycle of stage 6 is a point over the cycles.
LEMMA Pt6Is ==
    ASSUME NEW c \in Configs
    PROVE  Pt6(c) \in Points /\ Len(Pt6(c)) = c.log_T
<1> DEFINE m == M8(c)
           b == 8
<1>1. m \in Nat /\ b \in Nat /\ c.log_T <= m /\ Pt6(c) = CyclePt(b, m, c)
  BY Sizes8 DEF Pt6
<1> HIDE DEF m, b
<1> QED
  BY <1>1, CyclePtIs

\* The cycle of an instance whose address is bound first.
LEMMA CycleAfter ==
    ASSUME NEW c \in Configs, NEW b \in Nat, NEW max \in Nat, NEW k \in Nat, k + c.log_T <= max,
           NEW n, n = k + c.log_T
    PROVE  /\ Part(b, max, n) \in Points /\ Len(Part(b, max, n)) = n
           /\ First(Part(b, max, n), k) \in Points /\ Len(First(Part(b, max, n), k)) = k
           /\ Reverse(From(Part(b, max, n), k)) = CyclePt(b, max, c)
<1> DEFINE T == c.log_T
           r == Part(b, max, n)
<1>1. T \in Nat
  BY ConfigAssumption
<1>2. n \in 0 .. max /\ T \in 0 .. n /\ k = n - T
  BY <1>1
<1>3. CyclePt(b, max, c) = Reverse(Part(b, max, T))
  BY DEF CyclePt
<1> HIDE DEF T
<1>4. r \in Points /\ Len(r) = n
  BY <1>2, PartFacts
<1>5. From(r, k) = Part(b, max, T)
  BY <1>2, PartTwice
<1> HIDE DEF r
<1>6. First(r, k) \in Points /\ Len(First(r, k)) = k
  BY <1>1, <1>2, <1>4, FirstFacts
<1> QED
  BY <1>3, <1>4, <1>5, <1>6 DEF r

\* All one-hot polynomials at one point.
BoolAddr(c) == Reverse(First(Part(8, M8(c), LogKChunk + c.log_T), LogKChunk))

\* The point of booleanity.
BoolPt(c) == BoolAddr(c) \o Pt6(c)

\* Its claims: every one-hot polynomial.
BooleanityClaims(c) == EachOf(RaPolynomials(c), "Booleanity", BoolPt(c))

\* The address of a chunk and the cycle of stage 6.
LEMMA BoolPtIs ==
    ASSUME NEW c \in Configs
    PROVE  /\ BoolAddr(c) \in Points /\ Len(BoolAddr(c)) = LogKChunk /\ BoolPt(c) \in Points
           /\ BooleanityPoint(Part(8, M8(c), LogKChunk + c.log_T)) = BoolPt(c)
<1> DEFINE b == 8
           m == M8(c)
           k == LogKChunk
           n == LogKChunk + c.log_T
           r == Part(8, M8(c), LogKChunk + c.log_T)
<1>1. b \in Nat /\ m \in Nat /\ k \in Nat /\ k + c.log_T <= m /\ n = k + c.log_T
  BY Sizes8
<1>2. r = Part(b, m, n) /\ Pt6(c) = CyclePt(b, m, c) /\ BoolAddr(c) = Reverse(First(r, k))
  BY DEF Pt6, BoolAddr
<1>3. BooleanityPoint(r) = Reverse(First(r, k)) \o Reverse(From(r, k))
  BY DEF BooleanityPoint
<1> HIDE DEF b, m, k, n, r
<1>4. First(r, k) \in Points /\ Len(First(r, k)) = k /\ Reverse(From(r, k)) = Pt6(c)
  BY <1>1, <1>2, CycleAfter
<1>5. BoolAddr(c) \in Points /\ Len(BoolAddr(c)) = k
  BY <1>2, <1>4, ReversePoint
<1>6. BoolPt(c) \in Points
  BY <1>5, Pt6Is, JoinPoints DEF BoolPt
<1>7. BooleanityPoint(r) = BoolPt(c)
  BY <1>2, <1>3, <1>4 DEF BoolPt
<1> QED
  BY <1>5, <1>6, <1>7 DEF r, k

\* Booleanity, which needs no claim.
LEMMA BooleanityGiven ==
    ASSUME NEW c \in Configs, NEW acc, NEW T, NEW b, b = 8, NEW max, max = M8(c)
    PROVE  /\ Given(Booleanity(acc, c), b, max, T, BooleanityClaims(c), c)
           /\ Sound(BooleanityClaims(c), {"Booleanity"}, c)
           /\ Booleanity(acc, c).rounds = LogKChunk + c.log_T
<1> DEFINE x == Booleanity(acc, c)
           n == LogKChunk + c.log_T
           r == Part(b, max, n)
           polys == RaPolynomials(c)
           s == "Booleanity"
           p == BoolPt(c)
<1>1. InLast(x, n, b, max)
  BY BooleanityFacts, Sizes8 DEF InLast
<1>2. r \in Points
  <2> HIDE DEF x, n
  <2> QED
    BY <1>1, LastPoint
<1>3. BooleanityPoint(r) = p /\ p \in Points
  BY BoolPtIs
<1>4. x.prover[r] = BooleanityProver(c, r) /\ x.verifier[r] = BooleanityVerifier(c, r) /\ x.uses = {}
  BY <1>2 DEF Booleanity, Instance
<1>5. \E q : BooleanityProver(c, r) = OpenedEach(polys, s, p, q)
  <2> HIDE DEF r, p
  <2> QED
    BY <1>3 DEF BooleanityProver
<1>6. BooleanityVerifier(c, r) = ExpectEach(polys, s, p)
  <2> HIDE DEF r, p
  <2> QED
    BY <1>3 DEF BooleanityVerifier
<1>7. Different(polys) /\ Range(polys) \subseteq Polynomials(c)
  BY RaDiffer, PolynomialsHave
<1> HIDE DEF x, r, polys, s, p
<1>8. OpensEach(x, r, polys, s, p, c)
  BY <1>3, <1>4, <1>5, <1>6, <1>7 DEF OpensEach
<1>9. Given(x, b, max, T, EachOf(polys, s, p), c) /\ Sound(EachOf(polys, s, p), {s}, c)
  <2> HIDE DEF n
  <2>1. x.uses \subseteq T
    BY <1>4
  <2> QED
    BY <1>1, <1>8, <2>1, EachGiven DEF r
<1>10. x.rounds = n
  BY <1>1 DEF InLast
<1> QED
  BY <1>9, <1>10 DEF BooleanityClaims, x, polys, s, p, n

\* The weight of RAM's one-hot columns.
RamWeight == At(Virt("RamHammingWeight"), "RamHammingBooleanity")

\* The claim on RAM's Hamming weight.
HammingClaims(c) == {Use(RamWeight, Pt6(c))}

\* Booleanity of RAM's Hamming weight.
LEMMA HammingGiven ==
    ASSUME NEW c \in Configs, NEW acc, NEW T, Knows(acc, T), OuterClaims(c) \subseteq T,
           NEW b, b = 8, NEW max, max = M8(c)
    PROVE  /\ Given(RamHamming(acc), b, max, T, HammingClaims(c), c)
           /\ Sound(HammingClaims(c), {"RamHammingBooleanity"}, c)
           /\ RamHamming(acc).rounds = c.log_T
<1> DEFINE x == RamHamming(acc)
           n == c.log_T
           r == Part(b, max, n)
           s == "RamHammingBooleanity"
           p == Pt6(c)
           q == Virt("RamHammingWeight")
           k == RamWeight
           U == HammingClaims(c)
<1>1. InLast(x, n, b, max)
  <2>1. "LookupOutput" \in VirtualInputs
    BY DEF VirtualInputs
  <2>2. PointOf(acc, Outer("LookupOutput")) = OuterPt(c)
    BY <2>1, OuterKnown
  <2>3. x.rounds = n
    BY <2>2, OuterPtIs DEF RamHamming, Instance
  <2>4. Plain(x)
    BY RamHammingFacts DEF Knows
  <2> QED
    BY <2>3, <2>4, Sizes8 DEF InLast
<1>2. r \in Points
  <2> HIDE DEF x, n
  <2> QED
    BY <1>1, LastPoint
<1>3. x.prover[r] = RamHammingProver(r) /\ x.verifier[r] = RamHammingVerifier(r) /\ x.uses = {}
  BY <1>2 DEF RamHamming, Instance
<1>4. p = Reverse(r)
  BY DEF Pt6, CyclePt
<1>5. p \in Points /\ q \in Polynomials(c) /\ k = At(q, s) /\ U = {Use(k, p)}
  BY Pt6Is, PolynomialsHave DEF Witnesses, RamWeight, HammingClaims
<1>6. PICK d : RamHammingProver(r) = <<Opened(k, p, d)>>
  BY <1>4 DEF RamHammingProver, RamWeight
<1>7. RamHammingVerifier(r) = <<Expect(k, p)>>
  BY <1>4 DEF RamHammingVerifier, RamWeight
<1> HIDE DEF x, n, s, p, q, k, U
<1>8. Sound(U, {s}, c)
  BY <1>5, SoundOne
<1>9. Leaves(x, r, U)
  <2>1. Says(<<Opened(k, p, d)>>, {Use(k, p)}) /\ Says(<<Expect(k, p)>>, {Use(k, p)})
    BY LeavesOne
  <2> QED
    BY <1>3, <1>5, <1>6, <1>7, <2>1, Zenon DEF Leaves
<1>10. Plain(x) /\ x.rounds = n /\ n \in Nat /\ b \in Nat /\ max \in Nat /\ n <= max
  BY <1>1 DEF InLast
<1>11. x.uses \subseteq T
  BY <1>3
<1>12. Given(x, b, max, T, U, c)
  BY <1>8, <1>9, <1>10, <1>11, GivenPlain DEF r
<1> QED
  BY <1>8, <1>10, <1>12 DEF x, n, s, U

\* The increments of RAM and of the registers, each at four points before.
Incs == {RamInc("RamReadWriteChecking"), RamInc("RamValCheck"),
         RdInc("RegistersReadWriteChecking"), RdInc("RegistersValEvaluation")}

\* The claims on the increments.
IncClaims(c) == EachOf(IncPolys, "IncClaimReduction", Pt6(c))

\* The reduction of the increments.
LEMMA IncGiven ==
    ASSUME NEW c \in Configs, NEW acc, NEW T, Knows(acc, T), RamClaims(c) \subseteq T,
           RamValClaims(c) \subseteq T, RegisterClaims(c) \subseteq T, RegisterValClaims(c) \subseteq T,
           NEW b, b = 8, NEW max, max = M8(c)
    PROVE  /\ Given(IncReduction(acc, c), b, max, T, IncClaims(c), c)
           /\ Sound(IncClaims(c), {"IncClaimReduction"}, c)
           /\ Keys(IncReduction(acc, c).uses) = Incs
           /\ IncReduction(acc, c).rounds = c.log_T
<1> DEFINE x == IncReduction(acc, c)
           n == c.log_T
           r == Part(b, max, n)
           s == "IncClaimReduction"
           p == Pt6(c)
<1>1. InLast(x, n, b, max)
  BY CycleFacts, Sizes8 DEF InLast
<1>2. r \in Points
  <2> HIDE DEF x, n
  <2> QED
    BY <1>1, LastPoint
<1>3. x.uses = {Use(k, PointOf(acc, k)) : k \in Incs}
  BY DEF IncReduction, Instance, Incs
<1>4. x.prover[r] = OpenedEach(IncPolys, s, Reverse(r), LowToHigh(r))
      /\ x.verifier[r] = ExpectEach(IncPolys, s, Reverse(r))
  BY <1>2 DEF IncReduction, Instance, IncProver, IncVerifier, IncPolys
<1>5. p = Reverse(r)
  BY DEF Pt6, CyclePt
<1>6. p \in Points /\ Different(IncPolys) /\ Range(IncPolys) \subseteq Polynomials(c)
  BY Pt6Is, ListsDiffer, ShortPolynomials
<1>7. ASSUME NEW k \in Incs PROVE Use(k, PointOf(acc, k)) \in T
  <2>1. \E o : Use(k, o) \in T
    <3>1. CASE k = RamInc("RamReadWriteChecking")
      BY <3>1 DEF RamClaims
    <3>2. CASE k = RamInc("RamValCheck")
      BY <3>2 DEF RamValClaims
    <3>3. CASE k = RdInc("RegistersReadWriteChecking")
      BY <3>3 DEF RegisterClaims
    <3>4. CASE k = RdInc("RegistersValEvaluation")
      BY <3>4 DEF RegisterValClaims
    <3> QED
      BY <1>7, <3>1, <3>2, <3>3, <3>4 DEF Incs
  <2> QED
    BY <2>1, KnownUse
<1> HIDE DEF x, s, p, n
<1>8. OpensEach(x, r, IncPolys, s, p, c)
  BY <1>4, <1>5, <1>6 DEF OpensEach
<1>9. x.uses \subseteq T
  BY <1>3, <1>7
<1>10. Given(x, b, max, T, EachOf(IncPolys, s, p), c) /\ Sound(EachOf(IncPolys, s, p), {s}, c)
  BY <1>1, <1>8, <1>9, EachGiven DEF r
<1>11. Keys(x.uses) = Incs
  <2>1. \A k \in Incs : Use(k, PointOf(acc, k)).key = k
    BY UseIs
  <2>2. Keys(x.uses) \subseteq Incs /\ Incs \subseteq Keys(x.uses)
    BY <1>3, <2>1 DEF Keys
  <2> QED
    BY <2>2
<1>12. x.rounds = n
  BY <1>1 DEF InLast
<1> QED
  BY <1>10, <1>11, <1>12 DEF x, s, p, n, IncClaims

\* A claim for every chunk of an address.
ChunkKeys(name, s, n) == [i \in 1 .. n |-> At(CommAt(name, i), s)]

\* A claim for each of the first n chunks, at the cycle q.
ChunkClaims(name, s, chunks, n, q) == Paired(n, ChunkKeys(name, s, n), [i \in 1 .. n |-> chunks[i] \o q])

\* A list of such claims.
Chunked(name, s, chunks, n, q, l) ==
    /\ PlacesOf(l, n)
    /\ \A i \in 1 .. n : l[i].key = At(CommAt(name, i), s) /\ l[i].point = chunks[i] \o q

\* The keys of the chunks are different.
LEMMA ChunkKeysAre ==
    ASSUME NEW name, NEW s, NEW n
    PROVE  /\ OneToOne(n, ChunkKeys(name, s, n))
           /\ \A i \in 1 .. n :
                 /\ ChunkKeys(name, s, n)[i] = At(CommAt(name, i), s)
                 /\ ChunkKeys(name, s, n)[i].sumcheck = s /\ ChunkKeys(name, s, n)[i].poly = CommAt(name, i)
<1> DEFINE k == ChunkKeys(name, s, n)
<1>1. \A i \in 1 .. n : k[i] = At(CommAt(name, i), s)
  BY DEF ChunkKeys
<1> HIDE DEF k
<1>2. \A i \in 1 .. n : k[i].sumcheck = s /\ k[i].poly = CommAt(name, i)
  BY <1>1, AtIs
<1>3. OneToOne(n, k)
  BY <1>2, CommIs DEF OneToOne
<1> QED
  BY <1>1, <1>2, <1>3 DEF k

\* Such a list says these claims.
LEMMA ChunksSay ==
    ASSUME NEW name, NEW s, NEW chunks, NEW n \in Nat, NEW q, NEW l, Chunked(name, s, chunks, n, q, l)
    PROVE  Says(l, ChunkClaims(name, s, chunks, n, q))
<1> DEFINE k == ChunkKeys(name, s, n)
           p == [i \in 1 .. n |-> chunks[i] \o q]
           U == ChunkClaims(name, s, chunks, n, q)
<1>1. OneToOne(n, k) /\ \A i \in 1 .. n : k[i] = At(CommAt(name, i), s)
  BY ChunkKeysAre
<1>2. \A i \in 1 .. n : p[i] = chunks[i] \o q
  OBVIOUS
<1>3. U = Paired(n, k, p)
  BY DEF ChunkClaims
<1> HIDE DEF k, p, U
<1>4. /\ \A i \in 1 .. n : Use(k[i], p[i]) \in U
      /\ \A u \in U : \E i \in 1 .. n : u = Use(k[i], p[i])
  BY <1>3, PairedFacts
<1>5. PlacesOf(l, n) /\ \A i \in 1 .. n : l[i].key = k[i] /\ l[i].point = p[i]
  BY <1>1, <1>2 DEF Chunked
<1>6. Listing(l, n, k, p, U)
  BY <1>1, <1>4, <1>5 DEF Listing, OneToOne
<1> QED
  BY <1>6, SaysFunction DEF U

\* They are claims on polynomials of the proof, at points.
LEMMA ChunksSound ==
    ASSUME NEW name, NEW s, NEW chunks, NEW n \in Nat, NEW q \in Points, NEW c,
           \A i \in 1 .. n : chunks[i] \in Points /\ CommAt(name, i) \in Polynomials(c)
    PROVE  /\ Sound(ChunkClaims(name, s, chunks, n, q), {s}, c)
           /\ \A i \in 1 .. n : Use(At(CommAt(name, i), s), chunks[i] \o q) \in ChunkClaims(name, s, chunks, n, q)
<1> DEFINE k == ChunkKeys(name, s, n)
           p == [i \in 1 .. n |-> chunks[i] \o q]
           U == ChunkClaims(name, s, chunks, n, q)
<1>1. \A i \in 1 .. n : k[i] = At(CommAt(name, i), s) /\ k[i].sumcheck = s /\ k[i].poly \in Polynomials(c)
  BY ChunkKeysAre
<1>2. \A i \in 1 .. n : p[i] = chunks[i] \o q /\ chunks[i] \o q \in Points
  BY JoinPoints
<1>3. U = Paired(n, k, p)
  BY DEF ChunkClaims
<1> HIDE DEF k, p, U
<1>4. Sound(U, {s}, c)
  BY <1>1, <1>2, <1>3, SoundPaired
<1>5. \A i \in 1 .. n : Use(k[i], p[i]) \in U
  BY <1>3, PairedFacts
<1>6. \A i \in 1 .. n : Use(At(CommAt(name, i), s), chunks[i] \o q) \in U
  BY <1>1, <1>2, <1>5
<1> QED
  BY <1>4, <1>6 DEF U

\* The lists of both sides.
LEMMA ChunkLists ==
    ASSUME NEW name, NEW s, NEW chunks, NEW n \in Nat, NEW q, NEW d,
           NEW f, f = [i \in 1 .. n |-> Opened(At(CommAt(name, i), s), chunks[i] \o q, d[i])],
           NEW g, g = [i \in 1 .. n |-> Expect(At(CommAt(name, i), s), chunks[i] \o q)]
    PROVE  Chunked(name, s, chunks, n, q, f) /\ Chunked(name, s, chunks, n, q, g)
<1> DEFINE o(i) == Opened(At(CommAt(name, i), s), chunks[i] \o q, d[i])
           e(i) == Expect(At(CommAt(name, i), s), chunks[i] \o q)
<1>5. f = [i \in 1 .. n |-> o(i)] /\ g = [i \in 1 .. n |-> e(i)]
  OBVIOUS
<1> HIDE DEF o, e
<1>6. PlacesOf(f, n) /\ PlacesOf(g, n) /\ \A i \in 1 .. n : f[i] = o(i) /\ g[i] = e(i)
  BY <1>5 DEF PlacesOf
<1>1. ASSUME NEW i \in 1 .. n
      PROVE  /\ f[i].key = At(CommAt(name, i), s) /\ f[i].point = chunks[i] \o q
             /\ g[i].key = At(CommAt(name, i), s) /\ g[i].point = chunks[i] \o q
  <2> DEFINE k == At(CommAt(name, i), s)
             p == chunks[i] \o q
             b == d[i]
  <2>1. f[i] = o(i) /\ g[i] = e(i)
    BY <1>6
  <2>2. o(i) = Opened(k, p, b) /\ e(i) = Expect(k, p)
    BY DEF o, e
  <2> HIDE DEF k, p, b
  <2>4. Opened(k, p, b).key = k /\ Opened(k, p, b).point = p /\ Expect(k, p).key = k /\ Expect(k, p).point = p
    BY OpenedIs
  <2>5. f[i] = Opened(k, p, b) /\ g[i] = Expect(k, p)
    BY <2>1, <2>2, Zenon
  <2>3. f[i].key = k /\ f[i].point = p /\ g[i].key = k /\ g[i].point = p
    BY <2>4, <2>5
  <2> QED
    BY <2>3 DEF k, p
<1> QED
  BY <1>1, <1>6 DEF Chunked

\* An instance that leaves a claim for every chunk of an address.
OpensChunks(x, r, name, s, chunks, n) ==
    /\ n \in Nat /\ DOMAIN chunks = 1 .. n
    /\ \E d : x.prover[r] = [i \in 1 .. n |-> Opened(At(CommAt(name, i), s), chunks[i] \o Reverse(r), d[i])]
    /\ x.verifier[r] = [i \in 1 .. n |-> Expect(At(CommAt(name, i), s), chunks[i] \o Reverse(r))]

\* The chunks are points, and their polynomials those of the proof.
ChunksOK(chunks, n, name, c) ==
    \A i \in 1 .. n : chunks[i] \in Points /\ CommAt(name, i) \in Polynomials(c)

\* An instance that opens the chunks of an address.
LEMMA ChunksGiven ==
    ASSUME NEW c \in Configs, NEW x, NEW m, NEW b, NEW max, InLast(x, m, b, max), NEW T, x.uses \subseteq T,
           NEW name, NEW s, NEW chunks, NEW n, ChunksOK(chunks, n, name, c), NEW q,
           q = Reverse(Part(b, max, m)), OpensChunks(x, Part(b, max, m), name, s, chunks, n)
    PROVE  Given(x, b, max, T, ChunkClaims(name, s, chunks, n, q), c)
           /\ Sound(ChunkClaims(name, s, chunks, n, q), {s}, c)
<1> DEFINE r == Part(b, max, m)
           U == ChunkClaims(name, s, chunks, n, q)
           f == x.prover[r]
           g == x.verifier[r]
<1>1. r \in Points /\ q \in Points
  <2>1. r \in Points
    BY LastPoint
  <2> HIDE DEF r
  <2> QED
    BY <2>1, ReversePoint DEF r
<1> HIDE DEF r
<1>2. n \in Nat /\ DOMAIN chunks = 1 .. n
  BY DEF OpensChunks
<1>3. PICK d : f = [i \in 1 .. n |-> Opened(At(CommAt(name, i), s), chunks[i] \o q, d[i])]
  BY DEF OpensChunks, r
<1>4. g = [i \in 1 .. n |-> Expect(At(CommAt(name, i), s), chunks[i] \o q)]
  BY DEF OpensChunks, r
<1> HIDE DEF f, g
<1>5. Chunked(name, s, chunks, n, q, f) /\ Chunked(name, s, chunks, n, q, g)
  BY <1>2, <1>3, <1>4, ChunkLists
<1> HIDE DEF U
<1>6. Says(f, U) /\ Says(g, U)
  BY <1>2, <1>5, ChunksSay DEF U
<1>7. Leaves(x, r, U)
  BY <1>6 DEF Leaves, f, g
<1>8. Sound(U, {s}, c)
  <2>1. \A i \in 1 .. n : chunks[i] \in Points /\ CommAt(name, i) \in Polynomials(c)
    BY DEF ChunksOK
  <2> QED
    BY <1>1, <1>2, <2>1, ChunksSound DEF U
<1>9. Plain(x) /\ x.rounds = m /\ m \in Nat /\ b \in Nat /\ max \in Nat /\ m <= max
  BY DEF InLast
<1>10. Given(x, b, max, T, U, c)
  BY <1>7, <1>8, <1>9, GivenPlain DEF r
<1> QED
  BY <1>8, <1>10 DEF U

\* RAM's address.
RamChunks(c) == AddressChunks(RamAddr(c))

\* The claims on the chunks of RAM's address.
RamRaClaims(c) == ChunkClaims("RamRa", "RamRaVirtualization", RamChunks(c), ChunksOf(c.ram_log_K), Pt6(c))

\* What they are taken from.
RamRaUses == {RamRa("RamRaClaimReduction")}

\* The chunks of RAM's address.
LEMMA RamChunksAre ==
    ASSUME NEW c \in Configs
    PROVE  /\ ChunksOf(c.ram_log_K) \in Nat /\ DOMAIN RamChunks(c) = 1 .. ChunksOf(c.ram_log_K)
           /\ ChunksOK(RamChunks(c), ChunksOf(c.ram_log_K), "RamRa", c)
           /\ \A i \in 1 .. ChunksOf(c.ram_log_K) :
                 RamChunks(c)[i] \in Points /\ Len(RamChunks(c)[i]) = LogKChunk
<1> DEFINE a == RamAddr(c)
           K == c.ram_log_K
           n == ChunksOf(K)
<1>1. a \in Points /\ Len(a) = K
  BY RamPtIs
<1> HIDE DEF a, K
<1>2. n \in Nat /\ DOMAIN AddressChunks(a) = 1 .. n
      /\ \A i \in 1 .. n : AddressChunks(a)[i] \in Points /\ Len(AddressChunks(a)[i]) = LogKChunk
  BY <1>1, AddressChunksAre
<1>3. ASSUME NEW i \in 1 .. n PROVE CommAt("RamRa", i) \in Polynomials(c)
  <2>1. CommAt("RamRa", i) \in Range(RaPolynomials(c))
    BY RaIs DEF K
  <2> QED
    BY <2>1, PolynomialsHave
<1> HIDE DEF n
<1> QED
  BY <1>2, <1>3 DEF ChunksOK, RamChunks, a, K, n

\* The chunks of RAM's address take the claim on the address.
LEMMA RamRaVirtualGiven ==
    ASSUME NEW c \in Configs, NEW acc, NEW T, Knows(acc, T), RaReductionClaims(c) \subseteq T,
           NEW b, b = 8, NEW max, max = M8(c)
    PROVE  /\ Given(RamRaVirtual(acc, c), b, max, T, RamRaClaims(c), c)
           /\ Sound(RamRaClaims(c), {"RamRaVirtualization"}, c)
           /\ Keys(RamRaVirtual(acc, c).uses) = RamRaUses
           /\ RamRaVirtual(acc, c).rounds = c.log_T
<1> DEFINE x == RamRaVirtual(acc, c)
           m == c.log_T
           n == ChunksOf(c.ram_log_K)
           r == Part(b, max, m)
           q == Pt6(c)
           k == RamRa("RamRaClaimReduction")
           p == RamAddr(c) \o Pt5(c)
           f == PointOf(acc, k)
           chunks == RamChunks(c)
           name == "RamRa"
           s == "RamRaVirtualization"
<1>1. InLast(x, m, b, max)
  BY RamRaVirtualFacts, Sizes8 DEF InLast, Knows
<1>2. r \in Points
  <2> HIDE DEF x, m
  <2> QED
    BY <1>1, LastPoint
<1>3. Use(k, p) \in T /\ f = p
  <2>1. Use(k, p) \in T
    BY DEF RaReductionClaims
  <2> HIDE DEF k, p
  <2> QED
    BY <2>1, KnownUse
<1>4. First(p, c.ram_log_K) = RamAddr(c)
  <2> DEFINE a == RamAddr(c)
             t == Pt5(c)
             e == c.ram_log_K
  <2>1. a \in Points /\ t \in Points /\ e = Len(a)
    BY RamPtIs, IndexIs
  <2> HIDE DEF a, t, e
  <2>2. First(a \o t, e) = a
    BY <2>1, JoinSplit
  <2> QED
    BY <2>2 DEF a, t, e
<1>5. x.prover[r] = RamRaVirtualProver(chunks, r) /\ x.verifier[r] = RamRaVirtualVerifier(chunks, r)
  BY <1>2, <1>3, <1>4 DEF RamRaVirtual, Instance, RamChunks
<1>6. x.uses = {Use(k, f)}
  BY DEF RamRaVirtual, Instance
<1>7. q = Reverse(r)
  BY DEF Pt6, CyclePt
<1>8. n \in Nat /\ DOMAIN chunks = 1 .. n /\ ChunksOK(chunks, n, name, c)
  BY RamChunksAre
<1> HIDE DEF x, m, n, q, k, p, f, chunks
<1>9. OpensChunks(x, r, name, s, chunks, n)
  <2> HIDE DEF r
  <2> DEFINE d == [i \in 1 .. n |-> chunks[i] \o LowToHigh(r)]
  <2>1. \A i \in 1 .. n : d[i] = chunks[i] \o LowToHigh(r)
    OBVIOUS
  <2> HIDE DEF d
  <2>2. RamRaVirtualProver(chunks, r)
          = [i \in 1 .. n |-> Opened(At(CommAt(name, i), s), chunks[i] \o Reverse(r), d[i])]
    BY <1>8, <2>1 DEF RamRaVirtualProver
  <2>3. RamRaVirtualVerifier(chunks, r) = [i \in 1 .. n |-> Expect(At(CommAt(name, i), s), chunks[i] \o Reverse(r))]
    BY <1>8 DEF RamRaVirtualVerifier
  <2> QED
    BY <1>5, <1>8, <2>2, <2>3 DEF OpensChunks
<1>10. x.uses \subseteq T
  BY <1>3, <1>6
<1> HIDE DEF name, s
<1>11. Given(x, b, max, T, ChunkClaims(name, s, chunks, n, q), c)
       /\ Sound(ChunkClaims(name, s, chunks, n, q), {s}, c)
  BY <1>1, <1>7, <1>8, <1>9, <1>10, ChunksGiven DEF r
<1>12. Keys(x.uses) = RamRaUses
  BY <1>6, KeysAre, Zenon DEF RamRaUses, k
<1>13. x.rounds = m
  BY <1>1 DEF InLast
<1> QED
  BY <1>11, <1>12, <1>13 DEF RamRaClaims, x, m, n, q, chunks, name, s

\* Sequences of b items each.
LEMMA FlattenExact ==
    ASSUME NEW S, NEW ss \in Seq(Seq(S)), NEW b \in Nat, \A i \in 1 .. Len(ss) : Len(ss[i]) = b
    PROVE  Len(FlattenSeq(ss)) = b * Len(ss)
<1> DEFINE P == {n \in Nat : n <= Len(ss) => Len(FlattenTo(ss, n)) = b * n}
<1>0. Len(ss) \in Nat
  BY LenProperties
<1>1. 0 \in P
  BY FlattenToFacts
<1>2. ASSUME NEW n \in Nat, n \in P PROVE n + 1 \in P
  <2>1. CASE n < Len(ss)
    <3> DEFINE x == ss[n + 1]
               u == FlattenTo(ss, n)
    <3>1. x \in Seq(S) /\ FlattenTo(ss, n + 1) = u \o x
      BY <2>1, FlattenToFacts
    <3>2. Len(x) = b /\ Len(u) = b * n
      BY <1>0, <1>2, <2>1
    <3>3. u \in Seq(S)
      <4>1. SubSeq(ss, 1, n) \in Seq(Seq(S))
        BY <2>1, OneMore
      <4> QED
        BY <4>1, FlattenType DEF FlattenTo
    <3> HIDE DEF u, x
    <3>4. Len(FlattenTo(ss, n + 1)) = Len(u) + Len(x) /\ Len(u) \in Nat /\ Len(x) \in Nat
      BY <3>1, <3>3
    <3>5. b * (n + 1) = b * n + b /\ b * n \in Nat
      OBVIOUS
    <3>6. Len(FlattenTo(ss, n + 1)) = b * (n + 1)
      BY <3>2, <3>4, <3>5
    <3> QED
      BY <3>6
  <2> QED
    BY <1>0, <2>1
<1>3. Len(ss) \in P
  <2> HIDE DEF P
  <2> QED BY <1>0, <1>1, <1>2, NatSetInduction
<1> QED
  BY <1>0, <1>3, FlattenToFacts

\* The lookup index, in chunks of commitments.
LookupChunks(c) == AddressChunks(FlattenSeq(IndexChunks(c)))

\* The claims on the chunks of the lookup index.
InstructionRaClaims(c) ==
    ChunkClaims("InstructionRa", "InstructionRaVirtualization", LookupChunks(c), InstructionD, Pt6(c))

\* What they are taken from.
IndexUses == {IndexKeys[i] : i \in 1 .. VirtualD}

\* The chunks of the lookup index.
LEMMA LookupChunksAre ==
    ASSUME NEW c \in Configs
    PROVE  /\ InstructionD \in Nat /\ DOMAIN LookupChunks(c) = 1 .. InstructionD
           /\ ChunksOK(LookupChunks(c), InstructionD, "InstructionRa", c)
           /\ \A i \in 1 .. InstructionD :
                 LookupChunks(c)[i] \in Points /\ Len(LookupChunks(c)[i]) = LogKChunk
<1> DEFINE ss == IndexChunks(c)
           v == VirtualD
           b == LogKVirtualChunk
           a == FlattenSeq(ss)
           n == InstructionD
           L == LOG_K
           K == LogKChunk
<1>1. v \in Nat /\ b \in Nat /\ v * b = L /\ n \in Nat /\ n * K = L /\ K \in Nat \ {0} /\ L \in Nat
  BY ChunkSizes
<1>2. ss = [i \in 1 .. v |-> ss[i]] /\ \A i \in 1 .. v : ss[i] \in Seq(Coordinate) /\ Len(ss[i]) = b
  <2>1. ss = [i \in 1 .. v |-> ss[i]]
    BY DEF IndexChunks, VirtualChunks
  <2> QED
    BY <2>1, IndexIs DEF Points
<1> HIDE DEF ss, v, b, n, L, K
<1>3. ss \in Seq(Seq(Coordinate)) /\ Len(ss) = v
  <2> DEFINE C == Seq(Coordinate)
  <2>1. ss = [i \in 1 .. v |-> ss[i]] /\ (\A i \in 1 .. v : ss[i] \in C) /\ v \in Nat
    BY <1>1, <1>2
  <2> HIDE DEF C
  <2>2. ss \in Seq(C) /\ Len(ss) = v
    BY <2>1
  <2> QED
    BY <2>2 DEF C
<1>4. Len(a) = b * v
  <2>1. \A i \in 1 .. Len(ss) : Len(ss[i]) = b
    BY <1>2, <1>3
  <2>2. Len(FlattenSeq(ss)) = b * Len(ss)
    BY <1>1, <1>3, <2>1, FlattenExact, Zenon
  <2> QED
    BY <1>3, <2>2
<1>5. a \in Points
  BY <1>3, FlattenType DEF Points
<1> HIDE DEF a
<1>6. Len(a) = n * K
  BY <1>1, <1>4
<1>7. ChunksOf(Len(a)) = n
  <2>1. ChunksOf(Len(a)) = (n * K + K - 1) \div K
    BY <1>6 DEF ChunksOf, K
  <2>2. (n * K + K - 1) \div K = n
    <3>1. ASSUME NEW e \in Nat, e < K PROVE (n * K + e) \div K = n
      BY <1>1, <3>1
    <3> DEFINE e == K - 1
    <3>2. e \in Nat /\ e < K /\ n * K + K - 1 = n * K + e
      BY <1>1
    <3> HIDE DEF e
    <3> QED
      BY <3>1, <3>2
  <2> QED
    BY <2>1, <2>2
<1>8. DOMAIN AddressChunks(a) = 1 .. n
      /\ \A i \in 1 .. n : AddressChunks(a)[i] \in Points /\ Len(AddressChunks(a)[i]) = K
  BY <1>5, <1>7, AddressChunksAre DEF K
<1>9. ASSUME NEW i \in 1 .. n PROVE CommAt("InstructionRa", i) \in Polynomials(c)
  <2>1. CommAt("InstructionRa", i) \in Range(RaPolynomials(c))
    BY RaIs DEF n
  <2> QED
    BY <2>1, PolynomialsHave
<1> QED
  BY <1>1, <1>8, <1>9 DEF ChunksOK, LookupChunks, a, ss, n, K

\* The claims of stage 5 on the index, and the parts of their points.
LEMMA IndexKnown ==
    ASSUME NEW c \in Configs, NEW acc, NEW T, Knows(acc, T), LookupIndexClaims(c) \subseteq T,
           NEW i \in 1 .. VirtualD
    PROVE  /\ Use(IndexKeys[i], IndexPoints(c)[i]) \in T
           /\ PointOf(acc, ReadRaf(VirtAt("InstructionRa", i))) = IndexPoints(c)[i]
           /\ First(IndexPoints(c)[i], LogKVirtualChunk) = IndexChunks(c)[i]
           /\ From(IndexPoints(c)[i], LogKVirtualChunk) = Pt5(c)
<1> DEFINE k == IndexKeys[i]
           p == IndexPoints(c)[i]
           s == IndexChunks(c)[i]
           t == Pt5(c)
           a == LogKVirtualChunk
<1>1. Use(k, p) \in T
  BY PairedFacts DEF LookupIndexClaims, IndexClaims
<1>2. k = ReadRaf(VirtAt("InstructionRa", i))
  BY IndexKeysAre
<1>3. s \in Points /\ t \in Points /\ a = Len(s) /\ p = s \o t
  BY IndexIs
<1> HIDE DEF k, p, s, t, a
<1>4. PointOf(acc, k) = p
  BY <1>1, KnownUse
<1>5. First(p, a) = s /\ From(p, a) = t
  BY <1>3, JoinSplit
<1> QED
  BY <1>1, <1>2, <1>4, <1>5 DEF k, p, s, t, a

\* The lookup index, from the claims of stage 5.
LEMMA InstructionRaVirtualGiven ==
    ASSUME NEW c \in Configs, NEW acc, NEW T, Knows(acc, T), LookupIndexClaims(c) \subseteq T,
           NEW b, b = 8, NEW max, max = M8(c)
    PROVE  /\ Given(InstructionRaVirtual(acc), b, max, T, InstructionRaClaims(c), c)
           /\ Sound(InstructionRaClaims(c), {"InstructionRaVirtualization"}, c)
           /\ Keys(InstructionRaVirtual(acc).uses) = IndexUses
           /\ InstructionRaVirtual(acc).rounds = c.log_T
<1> DEFINE x == InstructionRaVirtual(acc)
           m == c.log_T
           n == InstructionD
           d == VirtualD
           r == Part(b, max, m)
           q == Pt6(c)
           p(i) == PointOf(acc, ReadRaf(VirtAt("InstructionRa", i)))
           a(i) == First(p(i), LogKVirtualChunk)
           y == From(p(1), LogKVirtualChunk)
           parts == [i \in 1 .. d |-> a(i)]
           chunks == LookupChunks(c)
           name == "InstructionRa"
           s == "InstructionRaVirtualization"
           U == {Use(ReadRaf(VirtAt("InstructionRa", i)), a(i) \o y) : i \in 1 .. d}
<1>1. parts = IndexChunks(c) /\ y = Pt5(c)
  <2>1. \A i : p(i) = PointOf(acc, ReadRaf(VirtAt("InstructionRa", i)))
    OBVIOUS
  <2>2. \A i \in 1 .. VirtualD : First(p(i), LogKVirtualChunk) = IndexChunks(c)[i]
                               /\ From(p(i), LogKVirtualChunk) = Pt5(c)
    BY IndexKnown
  <2>3. 1 \in 1 .. VirtualD
    BY ChunkSizes
  <2>4. IndexChunks(c) = [i \in 1 .. VirtualD |-> IndexChunks(c)[i]]
    BY DEF IndexChunks, VirtualChunks
  <2> HIDE DEF p
  <2>5. y = Pt5(c)
    BY <2>2, <2>3
  <2>6. parts = IndexChunks(c)
    BY <2>2, <2>4
  <2> QED
    BY <2>5, <2>6
<1>2. InLast(x, m, b, max)
  <2>1. Plain(x)
    BY InstructionRaVirtualFacts DEF Knows
  <2>2. x.rounds = Len(y)
    BY DEF InstructionRaVirtual, Instance
  <2> QED
    BY <1>1, <2>1, <2>2, IndexIs, Sizes8 DEF InLast
<1>3. r \in Points
  <2> HIDE DEF x, m
  <2> QED
    BY <1>2, LastPoint
<1>4. /\ x.uses = U
      /\ x.prover[r] = InstructionRaVirtualProver(AddressChunks(FlattenSeq(parts)), r)
      /\ x.verifier[r] = InstructionRaVirtualVerifier(AddressChunks(FlattenSeq(parts)), r)
  BY <1>3 DEF InstructionRaVirtual, Instance
<1>5. chunks = AddressChunks(FlattenSeq(parts))
  BY <1>1 DEF LookupChunks
<1> HIDE DEF parts
<1>6. x.prover[r] = InstructionRaVirtualProver(chunks, r) /\ x.verifier[r] = InstructionRaVirtualVerifier(chunks, r)
  BY <1>4, <1>5
<1>7. q = Reverse(r)
  BY DEF Pt6, CyclePt
<1>8. n \in Nat /\ DOMAIN chunks = 1 .. n /\ ChunksOK(chunks, n, name, c)
  BY LookupChunksAre
<1>9. ASSUME NEW i \in 1 .. d
      PROVE  /\ Use(ReadRaf(VirtAt("InstructionRa", i)), a(i) \o y) = Use(IndexKeys[i], IndexPoints(c)[i])
             /\ Use(IndexKeys[i], IndexPoints(c)[i]) \in T
  <2>1. a(i) = IndexChunks(c)[i] /\ Use(IndexKeys[i], IndexPoints(c)[i]) \in T
    BY IndexKnown
  <2>2. IndexPoints(c)[i] = IndexChunks(c)[i] \o Pt5(c) /\ IndexKeys[i] = ReadRaf(VirtAt("InstructionRa", i))
    BY IndexIs, IndexKeysAre
  <2> HIDE DEF a, y
  <2> QED
    BY <1>1, <2>1, <2>2
<1>10. U = {Use(IndexKeys[i], IndexPoints(c)[i]) : i \in 1 .. d}
  <2> HIDE DEF a, y
  <2> QED
    BY <1>9
<1> HIDE DEF U, a, y, p, d, x, n, q, m, chunks
<1>11. x.uses \subseteq T
  BY <1>4, <1>9, <1>10
<1>12. OpensChunks(x, r, name, s, chunks, n)
  <2> HIDE DEF r
  <2> DEFINE e == [i \in 1 .. n |-> chunks[i] \o LowToHigh(r)]
  <2>1. \A i \in 1 .. n : e[i] = chunks[i] \o LowToHigh(r)
    OBVIOUS
  <2> HIDE DEF e
  <2>2. InstructionRaVirtualProver(chunks, r)
          = [i \in 1 .. n |-> Opened(At(CommAt(name, i), s), chunks[i] \o Reverse(r), e[i])]
    BY <1>8, <2>1 DEF InstructionRaVirtualProver
  <2>3. InstructionRaVirtualVerifier(chunks, r)
          = [i \in 1 .. n |-> Expect(At(CommAt(name, i), s), chunks[i] \o Reverse(r))]
    BY <1>8 DEF InstructionRaVirtualVerifier
  <2> QED
    BY <1>6, <1>8, <2>2, <2>3 DEF OpensChunks
<1> HIDE DEF name, s
<1>13. Given(x, b, max, T, ChunkClaims(name, s, chunks, n, q), c)
       /\ Sound(ChunkClaims(name, s, chunks, n, q), {s}, c)
  BY <1>2, <1>7, <1>8, <1>11, <1>12, ChunksGiven DEF r
<1>14. Keys(x.uses) = IndexUses
  <2>1. x.uses = Paired(d, IndexKeys, IndexPoints(c))
    BY <1>4, <1>10 DEF Paired
  <2>2. \A k : k \in Keys(x.uses) <=> \E i \in 1 .. d : k = IndexKeys[i]
    BY <2>1, PairedFacts
  <2>3. \A k : k \in IndexUses <=> \E i \in 1 .. d : k = IndexKeys[i]
    BY DEF IndexUses, d
  <2> QED
    BY <2>2, <2>3
<1>15. x.rounds = m
  BY <1>2 DEF InLast
<1> QED
  BY <1>13, <1>14, <1>15 DEF InstructionRaClaims, x, m, n, q, chunks, name, s

\* The claims of five stages on what the bytecode says of a cycle.
Code1 == {Outer("UnexpandedPC"), Outer("Imm"), Outer("PC")} \cup {OuterOf(f) : f \in CircuitFlags}

\* The flags the product sumcheck left.
Code2 == {ProductOf(OpFlag("Jump")), ProductOf(InstrFlag("Branch")),
          ProductOf(OpFlag("WriteLookupOutputToRD")), ProductOf(OpFlag("VirtualInstruction"))}

\* What the shift and the instruction inputs left.
Code3 == {InstrInput("Imm"), InstrInput("UnexpandedPC"),
          ShiftOf(Virt("UnexpandedPC")), ShiftOf(Virt("PC")),
          ShiftOf(InstrFlag("IsNoop")), ShiftOf(OpFlag("VirtualInstruction")),
          ShiftOf(OpFlag("IsFirstInSequence"))}
         \cup {InputOf(InstrFlag(f)) :
                 f \in {"LeftOperandIsRs1Value", "LeftOperandIsPC",
                        "RightOperandIsRs2Value", "RightOperandIsImm"}}

\* The registers' addresses.
Code4 == {RegRW("RdWa"), RegRW("Rs1Ra"), RegRW("Rs2Ra")}

\* The written register, from the check of the values.
Code5 == {RdWaVal}

\* The flags of the lookup tables and of the operands.
Code6 == {ReadRaf(Virt("InstructionRafFlag"))} \cup {ReadRaf(f) : f \in Range(TableFlags)}

\* All claims on the bytecode.
CodeUses == Code1 \cup Code2 \cup Code3 \cup Code4 \cup Code5 \cup Code6

\* The claims of the first five stages that BytecodeReadRaf asks for.
Earlier(T, c) ==
    /\ OuterClaims(c) \subseteq T /\ ProductClaims(c) \subseteq T /\ ShiftClaims(c) \subseteq T
    /\ OperandClaims(c) \subseteq T /\ RegisterClaims(c) \subseteq T /\ RegisterValClaims(c) \subseteq T
    /\ LookupIndexClaims(c) \subseteq T

\* One point for the claims of a group.
AllAt(K, p, T) == \A k \in K : Use(k, p) \in T

\* The first two groups, at the points of their stages.
LEMMA Codes1And2 ==
    ASSUME NEW c \in Configs, NEW T, Earlier(T, c)
    PROVE  AllAt(Code1, OuterPt(c), T) /\ AllAt(Code2, Pt2(c), T)
<1>1. ASSUME NEW k \in Code1 PROVE Use(k, OuterPt(c)) \in T
  <2>1. \E q \in Range(R1CSInputs) : k = At(q, "SpartanOuter")
    <3>1. CASE k \in {Outer("UnexpandedPC"), Outer("Imm"), Outer("PC")}
      <4>1. "UnexpandedPC" \in VirtualInputs /\ "Imm" \in VirtualInputs /\ "PC" \in VirtualInputs
        BY DEF VirtualInputs
      <4>2. Virt("UnexpandedPC") \in Range(R1CSInputs) /\ Virt("Imm") \in Range(R1CSInputs)
            /\ Virt("PC") \in Range(R1CSInputs)
        BY <4>1, InputsAre
      <4> QED
        BY <3>1, <4>2 DEF Outer
    <3>2. CASE k \in {OuterOf(f) : f \in CircuitFlags}
      BY <3>2 DEF OuterOf, CircuitFlags
    <3> QED
      BY <1>1, <3>1, <3>2 DEF Code1
  <2> QED
    BY <2>1, InEach DEF OuterClaims, Earlier
<1>2. ASSUME NEW k \in Code2 PROVE Use(k, Pt2(c)) \in T
  <2>1. \E q \in Range(ProductFactors) : k = At(q, "SpartanProductVirtualization")
    BY <1>2, FactorsAre DEF Code2, ProductOf
  <2> QED
    BY <2>1, InEach DEF ProductClaims, Earlier
<1> QED
  BY <1>1, <1>2 DEF AllAt

\* The third.
LEMMA Code3Is ==
    ASSUME NEW c \in Configs, NEW T, Earlier(T, c)
    PROVE  AllAt(Code3, Pt3(c), T)
<1>1. ASSUME NEW k \in Code3 PROVE Use(k, Pt3(c)) \in T
  <2>1. \/ \E q \in Range(InputPolys) : k = At(q, "InstructionInputVirtualization")
        \/ \E q \in Range(ShiftPolys) : k = At(q, "SpartanShift")
    <3>1. CASE k \in {InstrInput("Imm"), InstrInput("UnexpandedPC")}
      BY <3>1, ListRanges DEF InstrInput
    <3>2. CASE k \in {InputOf(InstrFlag(f)) : f \in {"LeftOperandIsRs1Value", "LeftOperandIsPC",
                                                      "RightOperandIsRs2Value", "RightOperandIsImm"}}
      BY <3>2, ListRanges DEF InputOf
    <3>3. CASE k \in {ShiftOf(Virt("UnexpandedPC")), ShiftOf(Virt("PC")), ShiftOf(InstrFlag("IsNoop")),
                      ShiftOf(OpFlag("VirtualInstruction")), ShiftOf(OpFlag("IsFirstInSequence"))}
      BY <3>3, ListRanges DEF ShiftOf
    <3> QED
      BY <1>1, <3>1, <3>2, <3>3 DEF Code3
  <2>2. CASE \E q \in Range(InputPolys) : k = At(q, "InstructionInputVirtualization")
    BY <2>2, InEach DEF OperandClaims, Earlier
  <2>3. CASE \E q \in Range(ShiftPolys) : k = At(q, "SpartanShift")
    BY <2>3, InEach DEF ShiftClaims, Earlier
  <2> QED
    BY <2>1, <2>2, <2>3
<1> QED
  BY <1>1 DEF AllAt

\* The others.
LEMMA Codes4To6 ==
    ASSUME NEW c \in Configs, NEW T, Earlier(T, c)
    PROVE  /\ AllAt(Code4, RegPt(c), T) /\ AllAt(Code5, RegAddr(c) \o Pt5(c), T)
           /\ AllAt(Code6, Pt5(c), T)
<1>1. AllAt(Code4, RegPt(c), T)
  BY DEF AllAt, Code4, Earlier, RegisterClaims
<1>2. AllAt(Code5, RegAddr(c) \o Pt5(c), T)
  BY DEF AllAt, Code5, Earlier, RegisterValClaims
<1>3. ASSUME NEW k \in Code6 PROVE Use(k, Pt5(c)) \in T
  <2>1. CASE k = ReadRaf(Virt("InstructionRafFlag"))
    BY <2>1 DEF Earlier, LookupIndexClaims, RafFlagClaims
  <2>2. CASE k \in {ReadRaf(f) : f \in Range(TableFlags)}
    <3>1. PICK f \in Range(TableFlags) : k = At(f, "InstructionReadRaf")
      BY <2>2 DEF ReadRaf
    <3>2. Use(k, Pt5(c)) \in FlagClaims(c)
      BY <3>1, InEach DEF FlagClaims
    <3> QED
      BY <3>2 DEF Earlier, LookupIndexClaims
  <2> QED
    BY <1>3, <2>1, <2>2 DEF Code6
<1> QED
  BY <1>1, <1>2, <1>3 DEF AllAt

\* The claims BytecodeReadRaf uses are known.
LEMMA BytecodeUsesAre ==
    ASSUME NEW c \in Configs, NEW acc, NEW T, Knows(acc, T), Earlier(T, c)
    PROVE  BytecodeUses(acc) \subseteq T /\ Keys(BytecodeUses(acc)) = CodeUses
<1> DEFINE p1 == PointOf(acc, Outer("Imm"))
           p2 == PointOf(acc, ProductOf(OpFlag("Jump")))
           p3 == PointOf(acc, ShiftOf(Virt("UnexpandedPC")))
           e == PointOf(acc, RegRW("RdWa"))
           f == PointOf(acc, RegRW("Rs1Ra"))
           p4 == First(e, LogRegisters) \o From(f, LogRegisters)
           p5 == PointOf(acc, RdWaVal)
           p6 == From(p5, LogRegisters)
           U == BytecodeUses(acc)
<1>1. AllAt(Code1, OuterPt(c), T) /\ AllAt(Code2, Pt2(c), T)
  BY Codes1And2
<1>2. AllAt(Code3, Pt3(c), T) /\ AllAt(Code4, RegPt(c), T) /\ AllAt(Code5, RegAddr(c) \o Pt5(c), T)
      /\ AllAt(Code6, Pt5(c), T)
  BY Code3Is, Codes4To6
<1>3. ASSUME NEW K, NEW p, AllAt(K, p, T), NEW k \in K PROVE PointOf(acc, k) = p
  <2>1. Use(k, p) \in T
    BY <1>3 DEF AllAt
  <2> QED
    BY <2>1, KnownUse
<1>4. /\ Outer("Imm") \in Code1 /\ ProductOf(OpFlag("Jump")) \in Code2 /\ ShiftOf(Virt("UnexpandedPC")) \in Code3
      /\ RegRW("RdWa") \in Code4 /\ RegRW("Rs1Ra") \in Code4 /\ RdWaVal \in Code5
  BY DEF Code1, Code2, Code3, Code4, Code5
<1>5. /\ p1 = OuterPt(c) /\ p2 = Pt2(c) /\ p3 = Pt3(c) /\ e = RegPt(c) /\ f = RegPt(c)
      /\ p5 = RegAddr(c) \o Pt5(c)
  BY <1>1, <1>2, <1>3, <1>4
<1>6. U = Uses(Code1, p1) \cup Uses(Code2, p2) \cup Uses(Code3, p3) \cup Uses(Code4, p4)
            \cup Uses(Code5, p5) \cup Uses(Code6, p6)
  BY DEF BytecodeUses, Code1, Code2, Code3, Code4, Code5, Code6, RdWaVal
<1>7. p4 = RegPt(c)
  BY <1>5, RegPtIs DEF RegAddr, RegCyc
<1>8. p6 = Pt5(c)
  <2> DEFINE a == RegAddr(c)
             t == Pt5(c)
             g == LogRegisters
  <2>1. a \in Points /\ t \in Points /\ g = Len(a) /\ p5 = a \o t
    BY <1>5, RegPtIs, IndexIs
  <2> HIDE DEF a, t, p5, g
  <2>2. From(p5, g) = t
    BY <2>1, JoinSplit
  <2> QED
    BY <2>2 DEF t, g
<1> HIDE DEF p1, p2, p3, e, f, p4, p5, p6, U
<1>9. ASSUME NEW K, NEW p, AllAt(K, p, T) PROVE Uses(K, p) \subseteq T
  BY <1>9 DEF AllAt, Uses
<1>10. U \subseteq T
  <2>1. Uses(Code1, p1) \subseteq T /\ Uses(Code2, p2) \subseteq T /\ Uses(Code3, p3) \subseteq T
        /\ Uses(Code4, p4) \subseteq T /\ Uses(Code5, p5) \subseteq T /\ Uses(Code6, p6) \subseteq T
    BY <1>1, <1>2, <1>5, <1>7, <1>8, <1>9
  <2> QED
    BY <1>6, <2>1
<1>11. Keys(U) = CodeUses
  <2> DEFINE U1 == Uses(Code1, p1)
             U2 == Uses(Code2, p2)
             U3 == Uses(Code3, p3)
             U4 == Uses(Code4, p4)
             U5 == Uses(Code5, p5)
             U6 == Uses(Code6, p6)
             A == U1 \cup U2 \cup U3
             B == U4 \cup U5 \cup U6
  <2>1. U = A \cup B
    BY <1>6
  <2>5. Keys(U1) = Code1 /\ Keys(U2) = Code2 /\ Keys(U3) = Code3 /\ Keys(U4) = Code4
        /\ Keys(U5) = Code5 /\ Keys(U6) = Code6
    BY KeysAre
  <2> HIDE DEF U1, U2, U3, U4, U5, U6
  <2>7. Keys(A) = Keys(U1) \cup Keys(U2) \cup Keys(U3)
    BY KeysThree
  <2>8. Keys(B) = Keys(U4) \cup Keys(U5) \cup Keys(U6)
    BY KeysThree
  <2> HIDE DEF A, B
  <2>2. Keys(A) = Code1 \cup Code2 \cup Code3
    BY <2>5, <2>7
  <2>3. Keys(B) = Code4 \cup Code5 \cup Code6
    BY <2>5, <2>8
  <2>4. Keys(U) = Keys(A) \cup Keys(B)
    BY <2>1, KeysAre, Zenon
  <2> QED
    BY <2>2, <2>3, <2>4 DEF CodeUses
<1> QED
  BY <1>10, <1>11 DEF U

\* BytecodeReadRaf.
BytecodeAddr(c) == Reverse(First(Part(8, M8(c), c.bytecode_log_K + c.log_T), c.bytecode_log_K))

\* The chunks of the bytecode's address.
CodeChunks(c) == AddressChunks(BytecodeAddr(c))

\* The claims on them.
BytecodeClaims(c) ==
    ChunkClaims("BytecodeRa", "BytecodeReadRaf", CodeChunks(c), ChunksOf(c.bytecode_log_K), Pt6(c))

\* The chunks of the bytecode's address are points of chunks.
LEMMA CodeChunksAre ==
    ASSUME NEW c \in Configs
    PROVE  /\ ChunksOf(c.bytecode_log_K) \in Nat /\ DOMAIN CodeChunks(c) = 1 .. ChunksOf(c.bytecode_log_K)
           /\ ChunksOK(CodeChunks(c), ChunksOf(c.bytecode_log_K), "BytecodeRa", c)
           /\ \A i \in 1 .. ChunksOf(c.bytecode_log_K) :
                 CodeChunks(c)[i] \in Points /\ Len(CodeChunks(c)[i]) = LogKChunk
<1> DEFINE a == BytecodeAddr(c)
           K == c.bytecode_log_K
           n == ChunksOf(K)
           b == 8
           m == M8(c)
           l == K + c.log_T
<1>1. b \in Nat /\ m \in Nat /\ K \in Nat /\ K + c.log_T <= m /\ l = K + c.log_T
  BY Sizes8
<1>2. a = Reverse(First(Part(b, m, l), K))
  BY DEF BytecodeAddr
<1> HIDE DEF a, K, b, m, l
<1>3. First(Part(b, m, l), K) \in Points /\ Len(First(Part(b, m, l), K)) = K
  BY <1>1, CycleAfter
<1>4. a \in Points /\ Len(a) = K
  BY <1>2, <1>3, ReversePoint
<1>5. n \in Nat /\ DOMAIN AddressChunks(a) = 1 .. n
      /\ \A i \in 1 .. n : AddressChunks(a)[i] \in Points /\ Len(AddressChunks(a)[i]) = LogKChunk
  BY <1>4, AddressChunksAre
<1>6. ASSUME NEW i \in 1 .. n PROVE CommAt("BytecodeRa", i) \in Polynomials(c)
  <2>1. CommAt("BytecodeRa", i) \in Range(RaPolynomials(c))
    BY RaIs DEF K
  <2> QED
    BY <2>1, PolynomialsHave
<1> HIDE DEF n
<1> QED
  BY <1>5, <1>6 DEF ChunksOK, CodeChunks, a, K, n

\* Both sides append a claim for each chunk.
LEMMA BytecodeLists ==
    ASSUME NEW c \in Configs, NEW r, r = Part(8, M8(c), c.bytecode_log_K + c.log_T)
    PROVE  /\ Chunked("BytecodeRa", "BytecodeReadRaf", CodeChunks(c), ChunksOf(c.bytecode_log_K), Pt6(c),
                      BytecodeProver(c, r))
           /\ Chunked("BytecodeRa", "BytecodeReadRaf", CodeChunks(c), ChunksOf(c.bytecode_log_K), Pt6(c),
                      BytecodeVerifier(c, r))
<1> DEFINE K == c.bytecode_log_K
           n == ChunksOf(K)
           b == 8
           m == M8(c)
           l == K + c.log_T
           q == Pt6(c)
           chunks == CodeChunks(c)
           name == "BytecodeRa"
           s == "BytecodeReadRaf"
           d == ChunkPoints(AddressChunks(LowToHigh(First(r, K))), LowToHigh(From(r, K)))
           points == ChunkPoints(chunks, q)
           keys == [i \in 1 .. n |-> At(BytecodePolys(c)[i], s)]
           f == [i \in 1 .. n |-> Opened(At(CommAt(name, i), s), chunks[i] \o q, d[i])]
           g == [i \in 1 .. n |-> Expect(At(CommAt(name, i), s), chunks[i] \o q)]
<1>1. b \in Nat /\ m \in Nat /\ K \in Nat /\ K + c.log_T <= m /\ l = K + c.log_T
  BY Sizes8
<1>2. r = Part(b, m, l) /\ q = CyclePt(b, m, c) /\ chunks = AddressChunks(Reverse(First(r, K)))
  BY DEF Pt6, CodeChunks, BytecodeAddr
<1>3. q = Reverse(From(r, K))
  <2> HIDE DEF b, m, K, l, q, chunks
  <2> QED
    BY <1>1, <1>2, CycleAfter
<1>4. n \in Nat /\ DOMAIN chunks = 1 .. n
  BY CodeChunksAre
<1>5. DOMAIN BytecodePolys(c) = 1 .. n /\ \A i \in 1 .. n : BytecodePolys(c)[i] = CommAt(name, i)
  BY DEF BytecodePolys
<1>6. /\ BytecodeProver(c, r) = [i \in 1 .. n |-> Opened(keys[i], points[i], d[i])]
      /\ BytecodeVerifier(c, r) = [i \in 1 .. n |-> Expect(keys[i], points[i])]
  <2>1. /\ BytecodeProver(c, r) = [i \in DOMAIN BytecodePolys(c) |-> Opened(At(BytecodePolys(c)[i], s), points[i], d[i])]
        /\ BytecodeVerifier(c, r) = [i \in DOMAIN BytecodePolys(c) |-> Expect(At(BytecodePolys(c)[i], s), points[i])]
    <3> HIDE DEF chunks, q, d
    <3> QED
      BY <1>2, <1>3 DEF BytecodeProver, BytecodeVerifier, d
  <2>2. \A i \in 1 .. n : keys[i] = At(BytecodePolys(c)[i], s)
    OBVIOUS
  <2> HIDE DEF keys, points, d, s, n
  <2> QED
    BY <1>5, <2>1, <2>2
<1>7. \A i \in 1 .. n : keys[i] = At(CommAt(name, i), s) /\ points[i] = chunks[i] \o q
  BY <1>4, <1>5 DEF ChunkPoints
<1> HIDE DEF keys, points, d, s, n, chunks, q, name
<1>8. BytecodeProver(c, r) = f /\ BytecodeVerifier(c, r) = g
  BY <1>6, <1>7
<1>9. Chunked(name, s, chunks, n, q, f) /\ Chunked(name, s, chunks, n, q, g)
  BY <1>4, ChunkLists
<1>10. Chunked(name, s, chunks, n, q, BytecodeProver(c, r)) /\ Chunked(name, s, chunks, n, q, BytecodeVerifier(c, r))
  <2> HIDE DEF f, g
  <2> QED
    BY <1>8, <1>9
<1> QED
  BY <1>10 DEF s, n, chunks, q, name, K

\* The read and address check of the bytecode.
LEMMA BytecodeGiven ==
    ASSUME NEW c \in Configs, NEW acc, NEW T, Knows(acc, T), Earlier(T, c),
           NEW b, b = 8, NEW max, max = M8(c)
    PROVE  /\ Given(BytecodeReadRaf(acc, c), b, max, T, BytecodeClaims(c), c)
           /\ Sound(BytecodeClaims(c), {"BytecodeReadRaf"}, c)
           /\ Keys(BytecodeReadRaf(acc, c).uses) = CodeUses
           /\ BytecodeReadRaf(acc, c).rounds = c.bytecode_log_K + c.log_T
<1> DEFINE x == BytecodeReadRaf(acc, c)
           n == c.bytecode_log_K + c.log_T
           r == Part(b, max, n)
           U == BytecodeClaims(c)
           N == {"BytecodeReadRaf"}
<1>1. Plain(x) /\ x.rounds = n
  BY BytecodeFacts
<1>2. n \in Nat /\ b \in Nat /\ max \in Nat /\ n <= max
  BY Sizes8
<1>3. r \in Points
  <2> HIDE DEF n
  <2> QED
    BY <1>2, PartFacts
<1>4. x.prover[r] = BytecodeProver(c, r) /\ x.verifier[r] = BytecodeVerifier(c, r) /\ x.uses = BytecodeUses(acc)
  BY <1>3 DEF BytecodeReadRaf, Instance
<1>5. x.uses \subseteq T /\ Keys(x.uses) = CodeUses
  <2> HIDE DEF x
  <2> QED
    BY <1>4, BytecodeUsesAre
<1>6. Says(BytecodeProver(c, r), U) /\ Says(BytecodeVerifier(c, r), U)
  <2>1. r = Part(8, M8(c), c.bytecode_log_K + c.log_T)
    OBVIOUS
  <2> HIDE DEF r
  <2>2. ChunksOf(c.bytecode_log_K) \in Nat
    BY CodeChunksAre
  <2> QED
    BY <2>1, <2>2, BytecodeLists, ChunksSay DEF BytecodeClaims
<1>7. Sound(U, N, c)
  <2>1. Pt6(c) \in Points
    BY Pt6Is
  <2> QED
    BY <2>1, CodeChunksAre, ChunksSound DEF BytecodeClaims, ChunksOK
<1> HIDE DEF x, n, r, U, N
<1>8. Leaves(x, r, U)
  BY <1>4, <1>6 DEF Leaves
<1>9. Given(x, b, max, T, U, c)
  BY <1>1, <1>2, <1>5, <1>7, <1>8, GivenPlain DEF r
<1> QED
  BY <1>1, <1>5, <1>7, <1>9 DEF x, n, U, N

\* The advice reductions of stage 6.
AdviceSlice(c, kind, layout) ==
    SubSeq(Challenges(8, M8(c)), (M8(c) - c.log_T) + 1, (M8(c) - c.log_T) + CyclePhaseRounds(c, kind, layout))

\* The challenges stage 6 keeps for the advice.
AdviceKept(c, kind, layout) == CycleVarChallenges(c, kind, layout, AdviceSlice(c, kind, layout))

\* The claim between the two phases, at no point.
MidClaim(kind) == Use(CMid(kind), <<>>)

\* The advice's claim when no address variable is left.
CycleFinal(c, kind, layout) == Use(AdviceFinal(kind), Reverse(AdviceKept(c, kind, layout)))

\* What the first phase leaves.
CycleClaims(c, kind, layout) ==
    IF AddressPhaseRounds(c, kind, layout) = 0 THEN {MidClaim(kind), CycleFinal(c, kind, layout)}
    ELSE {MidClaim(kind)}

\* The rounds of the two phases.
LEMMA CycleSizes ==
    ASSUME NEW c \in Configs, NEW kind \in AdviceKinds, NEW layout \in Layouts
    PROVE  /\ CyclePhaseRounds(c, kind, layout) \in 0 .. c.log_T
           /\ AddressPhaseRounds(c, kind, layout) \in 0 .. LogKChunk
           /\ AddressPhaseRounds(c, kind, layout) <= AdviceVars(c, kind)
           /\ AdviceVars(c, kind) \in Nat
<1>1. PICK a \in Nat, b \in Nat, e \in Nat : ScheduleOf(c, kind, layout, a, b, e)
  BY ScheduleExists
<1>2. /\ CyclePhaseRounds(c, kind, layout) = IF b < e THEN e ELSE a
      /\ AddressPhaseRounds(c, kind, layout) = AdviceVars(c, kind) - (a + (e - b))
  BY <1>1, ScheduleCounts
<1>3. c.log_T \in Nat /\ AdviceVars(c, kind) \in Nat /\ LogKChunk \in Nat
  BY AdviceSizes
<1>4. /\ a <= b /\ b <= e /\ e <= c.log_T
      /\ a + (e - b) <= AdviceVars(c, kind)
      /\ AdviceVars(c, kind) - (a + (e - b)) <= LogKChunk
  BY <1>1 DEF ScheduleOf
<1> QED
  BY <1>2, <1>3, <1>4

\* The challenges of the first phase.
LEMMA AdviceSliceIs ==
    ASSUME NEW c \in Configs, NEW kind \in AdviceKinds, NEW layout \in Layouts
    PROVE  /\ AdviceSlice(c, kind, layout) \in Points
           /\ Len(AdviceSlice(c, kind, layout)) = CyclePhaseRounds(c, kind, layout)
           /\ AdviceKept(c, kind, layout) \in Points /\ Reverse(AdviceKept(c, kind, layout)) \in Points
           /\ Len(AdviceKept(c, kind, layout)) = AdviceVars(c, kind) - AddressPhaseRounds(c, kind, layout)
<1> DEFINE m == M8(c)
           s == (m - c.log_T) + 1
           e == (m - c.log_T) + CyclePhaseRounds(c, kind, layout)
           r == Challenges(8, m)
           l == CyclePhaseRounds(c, kind, layout)
           S == Coordinate
<1>1. m \in Nat /\ c.log_T \in 0 .. m /\ l \in 0 .. c.log_T
  BY Sizes8, CycleSizes
<1>2. r \in Points /\ Len(r) = m
  BY <1>1, ChallengesPoint
<1>3. s \in 1 .. Len(r) + 1 /\ e \in s - 1 .. Len(r) /\ s \in Int /\ e \in Int /\ l = IF s <= e THEN e - s + 1 ELSE 0
  BY <1>1, <1>2
<1>4. r \in Seq(S) /\ \A i \in s .. e : i \in 1 .. Len(r)
  BY <1>1, <1>2 DEF Points
<1>5. AdviceSlice(c, kind, layout) = SubSeq(r, s, e)
  BY DEF AdviceSlice
<1> HIDE DEF m, s, e, r, l, S
<1>6. SubSeq(r, s, e) \in Seq(S) /\ Len(SubSeq(r, s, e)) = l
  <2>1. \A i \in s .. e : r[i] \in S
    BY <1>4
  <2>2. Len(SubSeq(r, s, e)) = IF s <= e THEN e - s + 1 ELSE 0
    BY <1>3, <1>4
  <2>3. SubSeq(r, s, e) \in Seq(S)
    BY <1>3, <1>4, <2>1
  <2> QED
    BY <1>3, <2>2, <2>3
<1>7. AdviceSlice(c, kind, layout) \in Points /\ Len(AdviceSlice(c, kind, layout)) = CyclePhaseRounds(c, kind, layout)
  BY <1>5, <1>6 DEF Points, S, l
<1>8. /\ AdviceKept(c, kind, layout) \in Points
      /\ Len(AdviceKept(c, kind, layout)) = AdviceVars(c, kind) - AddressPhaseRounds(c, kind, layout)
  BY <1>7, CycleChallengesFacts DEF AdviceKept
<1> QED
  BY <1>7, <1>8, ReversePoint

\* The claims of the first phase are claims on the advice, at points.
LEMMA CycleSound ==
    ASSUME NEW c \in Configs, NEW kind \in AdviceKinds, NEW layout \in Layouts
    PROVE  /\ Sound(CycleClaims(c, kind, layout), {"AdviceClaimReductionCyclePhase", "AdviceClaimReduction"}, c)
           /\ Of(CycleClaims(c, kind, layout), {Advice(kind)})
<1> DEFINE p == Reverse(AdviceKept(c, kind, layout))
           a == Advice(kind)
           e == <<>>
<1>1. p \in Points /\ a \in Polynomials(c) /\ e \in Points
  BY AdviceSliceIs, PolynomialsHave DEF Points
<1>2. \A u \in CycleClaims(c, kind, layout) :
        \/ u = Use(At(a, "AdviceClaimReductionCyclePhase"), e) \/ u = Use(At(a, "AdviceClaimReduction"), p)
  BY DEF CycleClaims, MidClaim, CycleFinal, CMid, AdviceFinal, AdviceAt
<1> HIDE DEF p, a, e
<1>3. ASSUME NEW u \in CycleClaims(c, kind, layout)
      PROVE  /\ u.key.sumcheck \in {"AdviceClaimReductionCyclePhase", "AdviceClaimReduction"}
             /\ u.key.poly = a /\ u.point \in Points
  <2>1. \A s : Use(At(a, s), e).key = At(a, s) /\ Use(At(a, s), p).key = At(a, s)
        /\ Use(At(a, s), e).point = e /\ Use(At(a, s), p).point = p
    BY UseIs
  <2>2. \A s : At(a, s).poly = a /\ At(a, s).sumcheck = s
    BY AtIs
  <2>3. CASE u = Use(At(a, "AdviceClaimReductionCyclePhase"), e)
    BY <1>1, <2>1, <2>2, <2>3
  <2>4. CASE u = Use(At(a, "AdviceClaimReduction"), p)
    BY <1>1, <2>1, <2>2, <2>4
  <2> QED
    BY <1>2, <2>3, <2>4
<1> QED
  BY <1>1, <1>3 DEF Sound, Of, a

\* Nothing after a list of one.
LEMMA NoJoin == \A x : <<x>> \o <<>> = <<x>>
  OBVIOUS

\* A list of one claim.
LEMMA UseOne ==
    ASSUME NEW x, NEW k, NEW p, x.key = k, x.point = p
    PROVE  Says(<<x>>, {Use(k, p)})
<1>1. Use(k, p) = Use(x.key, x.point)
  OBVIOUS
<1> DEFINE u == Use(k, p)
<1> HIDE DEF u
<1>2. u = Use(x.key, x.point)
  BY <1>1 DEF u
<1> QED
  BY <1>2, SaysOne DEF u

\* Two claims of different keys.
LEMMA UsesApart ==
    ASSUME NEW k, NEW p, NEW l, NEW q, k # l
    PROVE  Apart({Use(k, p)}, {Use(l, q)})
<1>1. Use(k, p).key = k /\ Use(l, q).key = l
  BY UseIs
<1> QED
  BY <1>1 DEF Apart

\* Two lists of one claim each.
LEMMA TwoUses ==
    ASSUME NEW x, NEW k, NEW p, x.key = k, x.point = p, NEW y, NEW l, NEW q, y.key = l, y.point = q, k # l
    PROVE  Says(<<x>> \o <<y>>, {Use(k, p), Use(l, q)})
<1> DEFINE v == <<x>>
           w == <<y>>
           U == {Use(k, p)}
           V == {Use(l, q)}
<1>1. Says(v, U) /\ Says(w, V) /\ Apart(U, V)
  BY UseOne, UsesApart
<1>2. U \cup V = {Use(k, p), Use(l, q)}
  OBVIOUS
<1> HIDE DEF v, w, U, V
<1>3. Says(v \o w, U \cup V)
  BY <1>1, SaysJoin
<1> QED
  BY <1>2, <1>3, Zenon DEF v, w

\* The challenges the first phase is bound at.
LEMMA CyclePhaseSlice ==
    ASSUME NEW c \in Configs, NEW kind \in AdviceKinds, NEW layout \in Layouts, NEW acc, NEW params,
           params.layout = layout, NEW b, b = 8, NEW max, max = M8(c)
    PROVE  Slice(CyclePhase(acc, c, kind, params), Challenges(b, max)) = AdviceSlice(c, kind, layout)
<1> DEFINE x == CyclePhase(acc, c, kind, params)
<1>1. x.rounds = CyclePhaseRounds(c, kind, layout)
      /\ x.offset = [n \in Nat |-> (n - (LogKChunk + c.log_T)) + LogKChunk]
  BY DEF CyclePhase, Instance
<1>2. max \in Nat /\ c.log_T \in Nat /\ LogKChunk \in Nat /\ LogKChunk + c.log_T <= max
  BY Sizes8
<1>3. Len(Challenges(b, max)) = max
  BY <1>2, ChallengesPoint
<1>4. x.offset[max] = max - c.log_T
  BY <1>1, <1>2
<1> HIDE DEF x
<1> QED
  BY <1>1, <1>3, <1>4 DEF Slice, AdviceSlice, x

\* Both sides append the claims of the first phase.
LEMMA CycleSays ==
    ASSUME NEW c \in Configs, NEW kind \in AdviceKinds, NEW layout \in Layouts, NEW params,
           params.layout = layout, NEW r, r = AdviceSlice(c, kind, layout)
    PROVE  /\ Says(CyclePhaseProver(c, kind, params, r), CycleClaims(c, kind, layout))
           /\ Says(CyclePhaseVerifier(c, kind, params, r), CycleClaims(c, kind, layout))
<1> DEFINE s == CycleVarChallenges(c, kind, params.layout, r)
           k == CMid(kind)
           l == AdviceFinal(kind)
           e == <<>>
           q == Reverse(s)
           d == Bound(params.order, s)
           g == <<Advice(kind), s>>
           x == [key |-> k, point |-> e, claim |-> g]
           y == Opened(l, q, d)
           v == Expect(k, e)
           w == Expect(l, q)
           n == AddressPhaseRounds(c, kind, layout)
<1>1. s = AdviceKept(c, kind, layout)
  BY DEF AdviceKept
<1>2. n \in Nat /\ AdviceVars(c, kind) \in Nat /\ n <= AdviceVars(c, kind)
  BY CycleSizes
<1>3. Len(s) = AdviceVars(c, kind) - n
  BY <1>1, AdviceSliceIs
<1>4. k # l
  BY DEF CMid, AdviceFinal, AdviceAt, At
<1>5. x.key = k /\ x.point = e /\ v.key = k /\ v.point = e /\ y.key = l /\ y.point = q /\ w.key = l /\ w.point = q
  BY OpenedIs
<1>6. CyclePhaseProver(c, kind, params, r) = <<x>> \o IF Len(s) < AdviceVars(c, kind) THEN <<>> ELSE <<y>>
  BY DEF CyclePhaseProver
<1>7. CyclePhaseVerifier(c, kind, params, r) = <<v>> \o IF n > 0 THEN <<>> ELSE <<w>>
  BY DEF CyclePhaseVerifier
<1>8. CASE n = 0
  <2>1. CycleClaims(c, kind, layout) = {Use(k, e), Use(l, q)}
    BY <1>1, <1>8 DEF CycleClaims, MidClaim, CycleFinal
  <2>2. ~ (Len(s) < AdviceVars(c, kind)) /\ ~ (n > 0)
    BY <1>2, <1>3, <1>8
  <2> HIDE DEF x, y, v, w, k, l, e, q, s
  <2>3. Says(<<x>> \o <<y>>, {Use(k, e), Use(l, q)}) /\ Says(<<v>> \o <<w>>, {Use(k, e), Use(l, q)})
    BY <1>4, <1>5, TwoUses
  <2> QED
    BY <1>6, <1>7, <2>1, <2>2, <2>3, Zenon
<1>9. CASE n > 0
  <2>1. CycleClaims(c, kind, layout) = {Use(k, e)}
    BY <1>2, <1>9 DEF CycleClaims, MidClaim
  <2>2. Len(s) < AdviceVars(c, kind)
    BY <1>2, <1>3, <1>9
  <2> HIDE DEF x, y, v, w, k, l, e, q, s
  <2>3. Says(<<x>>, {Use(k, e)}) /\ Says(<<v>>, {Use(k, e)})
    BY <1>5, UseOne
  <2>4. <<x>> \o <<>> = <<x>> /\ <<v>> \o <<>> = <<v>>
    BY NoJoin
  <2> QED
    BY <1>6, <1>7, <1>9, <2>1, <2>2, <2>3, <2>4, Zenon
<1> QED
  BY <1>2, <1>8, <1>9

\* The first phase of the advice takes its claim of stage 4.
LEMMA CycleGiven ==
    ASSUME NEW c \in Configs, NEW kind \in Range(KindsOf(c)), NEW layout \in Layouts, NEW acc, NEW T,
           Knows(acc, T), AdviceClaims(c) \subseteq T, NEW params, params.layout = layout,
           NEW b, b = 8, NEW max, max = M8(c)
    PROVE  /\ Given(CyclePhase(acc, c, kind, params), b, max, T, CycleClaims(c, kind, layout), c)
           /\ CyclePhase(acc, c, kind, params).uses = {Use(AdviceAt(kind, "RamValCheck"), AdviceAddr(c, kind))}
           /\ CyclePhase(acc, c, kind, params).rounds \in 0 .. c.log_T
<1> DEFINE x == CyclePhase(acc, c, kind, params)
           U == CycleClaims(c, kind, layout)
           r == AdviceSlice(c, kind, layout)
           k == AdviceAt(kind, "RamValCheck")
           p == AdviceAddr(c, kind)
           f == PointOf(acc, k)
<1>1. kind \in AdviceKinds
  BY KindsAre
<1>2. Slice(x, Challenges(b, max)) = r
  BY <1>1, CyclePhaseSlice
<1>3. r \in Points
  BY <1>1, AdviceSliceIs
<1>4. x.prover[r] = CyclePhaseProver(c, kind, params, r) /\ x.verifier[r] = CyclePhaseVerifier(c, kind, params, r)
      /\ x.uses = {Use(k, f)} /\ x.rounds = CyclePhaseRounds(c, kind, params.layout)
  BY <1>3 DEF CyclePhase, Instance
<1>5. Use(k, p) \in T
  BY DEF AdviceClaims
<1>6. f = p
  <2> HIDE DEF k, p
  <2> QED
    BY <1>5, KnownUse
<1>7. x.rounds \in 0 .. c.log_T
  BY <1>1, <1>4, CycleSizes
<1>8. Says(CyclePhaseProver(c, kind, params, r), U) /\ Says(CyclePhaseVerifier(c, kind, params, r), U)
  <2> HIDE DEF U
  <2>1. r = AdviceSlice(c, kind, layout)
    OBVIOUS
  <2> HIDE DEF r
  <2> QED
    BY <1>1, <2>1, CycleSays DEF U
<1>9. Sound(U, {"AdviceClaimReductionCyclePhase", "AdviceClaimReduction"}, c)
  BY <1>1, CycleSound
<1> HIDE DEF x, U, r, k, p
<1>10. Leaves(x, Slice(x, Challenges(b, max)), U)
  BY <1>2, <1>4, <1>8 DEF Leaves
<1>11. x.uses \subseteq T
  BY <1>4, <1>5, <1>6
<1> QED
  BY <1>4, <1>6, <1>7, <1>9, <1>10, <1>11 DEF Given, x, U, k, p

\* A batch made of two lists.
Halved(w, h, s, m, t) ==
    /\ DOMAIN w = 1 .. h + m
    /\ \A i \in 1 .. h : w[i] = s[i] /\ i \in 1 .. h + m
    /\ \A j \in 1 .. m : w[h + j] = t[j] /\ h + j \in 1 .. h + m

\* Two lists in a row.
LEMMA HalvesJoin ==
    ASSUME NEW h \in Nat, NEW m \in Nat, NEW s, NEW t, PlacesOf(s, h), PlacesOf(t, m)
    PROVE  Halved(s \o t, h, s, m, t)
<1> DEFINE w == s \o t
<1>1. Joined(s, h, t, m)
  BY JoinPlaces
<1>2. DOMAIN w = 1 .. h + m
  BY <1>1 DEF Joined
<1>3. (\A i \in 1 .. h : w[i] = s[i]) /\ (\A j \in 1 .. m : w[h + j] = t[j])
  BY <1>1 DEF Joined
<1>4. (\A i \in 1 .. h : i \in 1 .. h + m) /\ (\A j \in 1 .. m : h + j \in 1 .. h + m)
  OBVIOUS
<1> HIDE DEF w
<1> QED
  BY <1>2, <1>3, <1>4 DEF Halved, w

\* A place is in the first list or in the second.
LEMMA Halves ==
    ASSUME NEW h \in Nat, NEW m \in Nat, NEW i \in 1 .. h + m
    PROVE  i \in 1 .. h \/ \E j \in 1 .. m : i = h + j
<1>1. CASE i > h
  <2>1. i - h \in 1 .. m /\ i = h + (i - h)
    BY <1>1
  <2> QED
    BY <2>1
<1> QED
  BY <1>1

\* The claims of both lists.
LEMMA AllJoined ==
    ASSUME NEW h \in Nat, NEW m \in Nat, NEW s, NEW t, NEW w, Halved(w, h, s, m, t)
    PROVE  All(w, h + m) = All(s, h) \cup All(t, m)
<1>1. \A x, n : \A f : x \in All(f, n) <=> \E i \in 1 .. n : x \in f[i]
  BY DEF All
<1>2. ASSUME NEW x, x \in All(w, h + m) PROVE x \in All(s, h) \cup All(t, m)
  <2>1. PICK i \in 1 .. h + m : x \in w[i]
    BY <1>1, <1>2
  <2>2. CASE i \in 1 .. h
    <3>1. x \in s[i]
      BY <2>1, <2>2 DEF Halved
    <3> QED
      BY <1>1, <2>2, <3>1
  <2>3. CASE \E j \in 1 .. m : i = h + j
    <3>1. PICK j \in 1 .. m : i = h + j
      BY <2>3
    <3>2. x \in t[j]
      BY <2>1, <3>1 DEF Halved
    <3> QED
      BY <1>1, <3>2
  <2> QED
    BY <2>2, <2>3, Halves
<1>3. ASSUME NEW x, x \in All(s, h) \cup All(t, m) PROVE x \in All(w, h + m)
  <2>1. CASE x \in All(s, h)
    <3>1. PICK i \in 1 .. h : x \in s[i]
      BY <1>1, <2>1
    <3>2. x \in w[i] /\ i \in 1 .. h + m
      BY <3>1 DEF Halved
    <3> QED
      BY <1>1, <3>2
  <2>2. CASE x \in All(t, m)
    <3>1. PICK j \in 1 .. m : x \in t[j]
      BY <1>1, <2>2
    <3>2. x \in w[h + j] /\ h + j \in 1 .. h + m
      BY <3>1 DEF Halved
    <3> QED
      BY <1>1, <3>2
  <2> QED
    BY <1>3, <2>1, <2>2
<1> QED
  BY <1>2, <1>3

\* What both lists use.
LEMMA BatchJoined ==
    ASSUME NEW h \in Nat, NEW m \in Nat, NEW s, NEW t, NEW w, Halved(w, h, s, m, t)
    PROVE  BatchUses(w, h + m) = BatchUses(s, h) \cup BatchUses(t, m)
<1>1. \A x, n : \A f : x \in BatchUses(f, n) <=> \E i \in 1 .. n : x \in f[i].uses
  BY DEF BatchUses
<1>2. ASSUME NEW x, x \in BatchUses(w, h + m) PROVE x \in BatchUses(s, h) \cup BatchUses(t, m)
  <2>1. PICK i \in 1 .. h + m : x \in w[i].uses
    BY <1>1, <1>2
  <2>2. CASE i \in 1 .. h
    <3>1. x \in s[i].uses
      BY <2>1, <2>2 DEF Halved
    <3> QED
      BY <1>1, <2>2, <3>1
  <2>3. CASE \E j \in 1 .. m : i = h + j
    <3>1. PICK j \in 1 .. m : i = h + j
      BY <2>3
    <3>2. x \in t[j].uses
      BY <2>1, <3>1 DEF Halved
    <3> QED
      BY <1>1, <3>2
  <2> QED
    BY <2>2, <2>3, Halves
<1>3. ASSUME NEW x, x \in BatchUses(s, h) \cup BatchUses(t, m) PROVE x \in BatchUses(w, h + m)
  <2>1. CASE x \in BatchUses(s, h)
    <3>1. PICK i \in 1 .. h : x \in s[i].uses
      BY <1>1, <2>1
    <3>2. x \in w[i].uses /\ i \in 1 .. h + m
      BY <3>1 DEF Halved
    <3> QED
      BY <1>1, <3>2
  <2>2. CASE x \in BatchUses(t, m)
    <3>1. PICK j \in 1 .. m : x \in t[j].uses
      BY <1>1, <2>2
    <3>2. x \in w[h + j].uses /\ h + j \in 1 .. h + m
      BY <3>1 DEF Halved
    <3> QED
      BY <1>1, <3>2
  <2> QED
    BY <1>3, <2>1, <2>2
<1> QED
  BY <1>2, <1>3

\* One of two lists of instances, and their claims.
HalfGivens(T, b, n, batch, max, U, c) ==
    /\ n \in Nat /\ PlacesOf(batch, n) /\ PlacesOf(U, n)
    /\ \A i \in 1 .. n : /\ Given(batch[i], b, max, T, U[i], c) /\ Apart(T, U[i])
                         /\ batch[i].rounds \in 0 .. max
    /\ \A i, j \in 1 .. n : i # j => Apart(U[i], U[j])

\* Two lists of instances with claims of their own; one of the first has all rounds.
JoinGivens(T, b, max, h, s, U, m, t, V, c) ==
    /\ max \in Nat /\ HalfGivens(T, b, h, s, max, U, c) /\ HalfGivens(T, b, m, t, max, V, c)
    /\ \A i \in 1 .. h : \A j \in 1 .. m : Apart(U[i], V[j])
    /\ \E i \in 1 .. h : s[i].rounds = max

\* What a batch of two lists does to a side.
LEMMA JoinRuns ==
    ASSUME NEW who \in Sides, NEW side, NEW T, SideKnows(side, T), NEW c \in Configs, NEW b,
           NEW max, NEW h, NEW s, NEW U, NEW m, NEW t, NEW V, JoinGivens(T, b, max, h, s, U, m, t, V, c)
    PROVE  /\ max = MaxRounds(s \o t)
           /\ Ran(side, Run(who, side, b, s \o t), T, All(U, h) \cup All(V, m),
                  Keys(BatchUses(s, h) \cup BatchUses(t, m)))
<1>13. /\ max \in Nat /\ HalfGivens(T, b, h, s, max, U, c) /\ HalfGivens(T, b, m, t, max, V, c)
       /\ \A i \in 1 .. h : \A j \in 1 .. m : Apart(U[i], V[j])
       /\ \E i \in 1 .. h : s[i].rounds = max
  BY DEF JoinGivens
<1> DEFINE w == s \o t
           W == U \o V
           n == h + m
<1>1. /\ h \in Nat /\ m \in Nat /\ n \in Nat /\ PlacesOf(s, h) /\ PlacesOf(t, m) /\ PlacesOf(U, h) /\ PlacesOf(V, m)
  BY <1>13 DEF HalfGivens
<1>12. Halved(w, h, s, m, t) /\ Halved(W, h, U, m, V)
  BY <1>1, HalvesJoin
<1> HIDE DEF w, W
<1>2. /\ DOMAIN w = 1 .. n
      /\ \A i \in 1 .. h : w[i] = s[i] /\ i \in 1 .. n
      /\ \A j \in 1 .. m : w[h + j] = t[j] /\ h + j \in 1 .. n
  BY <1>12 DEF Halved
<1>3. /\ \A i \in 1 .. h : W[i] = U[i] /\ i \in 1 .. n
      /\ \A j \in 1 .. m : W[h + j] = V[j] /\ h + j \in 1 .. n
  BY <1>12 DEF Halved
<1>4. \A i \in 1 .. n : i \in 1 .. h \/ \E j \in 1 .. m : i = h + j
  BY <1>1, Halves
<1>5. All(W, n) = All(U, h) \cup All(V, m)
  BY <1>1, <1>12, AllJoined
<1>6. BatchUses(w, n) = BatchUses(s, h) \cup BatchUses(t, m)
  BY <1>1, <1>12, BatchJoined
<1> HIDE DEF w, W, n
<1>7. ASSUME NEW i \in 1 .. n
      PROVE  Given(w[i], b, max, T, W[i], c) /\ Apart(T, W[i]) /\ w[i].rounds \in 0 .. max
  <2>1. CASE i \in 1 .. h
    BY <1>2, <1>3, <1>13, <2>1 DEF HalfGivens
  <2>2. CASE \E j \in 1 .. m : i = h + j
    BY <1>2, <1>3, <1>13, <2>2 DEF HalfGivens
  <2> QED
    BY <1>4, <2>1, <2>2
<1>8. ASSUME NEW i \in 1 .. n, NEW j \in 1 .. n, i # j PROVE Apart(W[i], W[j])
  <2>1. CASE i \in 1 .. h /\ j \in 1 .. h
    BY <1>3, <1>8, <1>13, <2>1 DEF HalfGivens
  <2>2. CASE i \in 1 .. h /\ \E l \in 1 .. m : j = h + l
    BY <1>3, <1>13, <2>2
  <2>3. CASE j \in 1 .. h /\ \E l \in 1 .. m : i = h + l
    <3>1. Apart(W[j], W[i])
      BY <1>3, <1>13, <2>3
    <3> QED
      BY <3>1, ApartTurned
  <2>4. CASE (\E l \in 1 .. m : i = h + l) /\ \E l \in 1 .. m : j = h + l
    <3>1. PICK l \in 1 .. m : i = h + l
      BY <2>4
    <3>2. PICK k \in 1 .. m : j = h + k
      BY <2>4
    <3>3. k # l
      BY <1>8, <3>1, <3>2
    <3> QED
      BY <1>3, <1>13, <3>1, <3>2, <3>3 DEF HalfGivens
  <2> QED
    BY <1>4, <2>1, <2>2, <2>3, <2>4
<1>9. max = MaxRounds(w)
  <2>1. PICK i \in 1 .. h : s[i].rounds = max
    BY <1>13
  <2>2. i \in 1 .. n /\ w[i].rounds = max
    BY <1>2, <2>1
  <2>3. \A j \in 1 .. n : w[j].rounds \in Nat /\ w[j].rounds <= max
    BY <1>7
  <2>4. n \in Nat \ {0}
    BY <1>1, <2>2
  <2> QED
    BY <1>2, <1>13, <2>2, <2>3, <2>4, MaxRoundsIs
<1>10. Givens(T, b, n, w, max, W, c)
  BY <1>2, <1>7, <1>8, <1>9 DEF Givens
<1>11. Ran(side, Run(who, side, b, w), T, All(W, n), Keys(BatchUses(w, n)))
  BY <1>1, <1>10, BatchRuns, Zenon
<1> QED
  BY <1>5, <1>6, <1>9, <1>11, Zenon DEF w

\* All that the next lemma assumes.
JoinReady(who, side, T, b, max, h, s, U, m, t, V, c, Q) ==
    /\ who \in Sides /\ SideKnows(side, T) /\ c \in Configs
    /\ JoinGivens(T, b, max, h, s, U, m, t, V, c)
    /\ Q \subseteq Keys(BatchUses(s, h))

\* All that it concludes.
JoinRan(who, side, T, b, max, h, s, U, m, t, V, Q) ==
    /\ max = MaxRounds(s \o t)
    /\ Went(side, Run(who, side, b, s \o t), T, All(U, h) \cup All(V, m), Q)

\* The same as a step that uses the claims Q of the first list.
LEMMA JoinWent ==
    ASSUME NEW who, NEW side, NEW T, NEW b, NEW max, NEW h, NEW s, NEW U, NEW m, NEW t, NEW V, NEW c, NEW Q,
           JoinReady(who, side, T, b, max, h, s, U, m, t, V, c, Q)
    PROVE  JoinRan(who, side, T, b, max, h, s, U, m, t, V, Q)
<1> DEFINE A == BatchUses(s, h)
           B == BatchUses(t, m)
           W == All(U, h) \cup All(V, m)
           u == Run(who, side, b, s \o t)
           R == Keys(A \cup B)
<1>1. max = MaxRounds(s \o t) /\ Ran(side, u, T, W, R)
  BY JoinRuns DEF JoinReady
<1>2. Q \subseteq R
  <2>1. Q \subseteq Keys(A)
    BY DEF JoinReady
  <2> HIDE DEF A, B
  <2>2. Keys(A) \subseteq Keys(A \cup B)
    BY DEF Keys
  <2> QED
    BY <2>1, <2>2
<1> HIDE DEF u, W, R
<1>3. Went(side, u, T, W, Q)
  BY <1>1, <1>2, RanWent
<1> QED
  BY <1>1, <1>3 DEF JoinRan, u, W

\* Stage 6.
Group6(c) ==
    <<BytecodeClaims(c), BooleanityClaims(c), HammingClaims(c), RamRaClaims(c), InstructionRaClaims(c),
      IncClaims(c)>>

\* The sumchecks of the six instances of stage 6.
GroupNames6 ==
    <<"BytecodeReadRaf", "Booleanity", "RamHammingBooleanity", "RamRaVirtualization",
      "InstructionRaVirtualization", "IncClaimReduction">>

\* Those of the advice.
CycleNames == {"AdviceClaimReductionCyclePhase", "AdviceClaimReduction"}

\* The claims of the advice, kind by kind.
CycleGroup(c, layout) == [i \in DOMAIN AdviceOrder(c) |-> CycleClaims(c, AdviceOrder(c)[i], layout)]

\* How many kinds there are.
CycleCount(c) == Len(AdviceOrder(c))

\* The claims of stage 6.
Stage6Claims(c, layout) == All(Group6(c), 6) \cup All(CycleGroup(c, layout), CycleCount(c))

\* What is known after stage 6.
K6(c, layout) == K5(c) \cup Stage6Claims(c, layout)

\* The sumchecks of six stages.
Names6 ==
    Names5 \cup {"BytecodeReadRaf", "Booleanity", "RamHammingBooleanity", "RamRaVirtualization",
                 "InstructionRaVirtualization", "IncClaimReduction"} \cup CycleNames

\* The places 1 to 6.
LEMMA UptoSix ==
    \A i \in 1 .. 6 : i = 1 \/ i = 2 \/ i = 3 \/ i = 4 \/ i = 5 \/ i = 6
  OBVIOUS

\* The six names are different and new.
LEMMA GroupNamesDiffer ==
    /\ \A i, j \in 1 .. 6 : i # j => GroupNames6[i] # GroupNames6[j]
    /\ \A i \in 1 .. 6 : GroupNames6[i] \notin Names5 /\ GroupNames6[i] \notin CycleNames
    /\ \A i \in 1 .. 6 : GroupNames6[i] \in Names6
<1>1. /\ GroupNames6[1] = "BytecodeReadRaf" /\ GroupNames6[2] = "Booleanity"
      /\ GroupNames6[3] = "RamHammingBooleanity" /\ GroupNames6[4] = "RamRaVirtualization"
      /\ GroupNames6[5] = "InstructionRaVirtualization" /\ GroupNames6[6] = "IncClaimReduction"
  BY DEF GroupNames6
<1>2. \A i, j \in 1 .. 6 : i # j => GroupNames6[i] # GroupNames6[j]
  BY <1>1, UptoSix
<1>3. \A i \in 1 .. 6 : GroupNames6[i] \notin Names5 /\ GroupNames6[i] \notin CycleNames
  BY <1>1, UptoSix DEF Names5, Names4, Names3, Names2, CycleNames
<1>4. \A i \in 1 .. 6 : GroupNames6[i] \in Names6
  BY <1>1, UptoSix DEF Names6
<1> QED
  BY <1>2, <1>3, <1>4

\* The claims of the six instances.
LEMMA Group6Is ==
    ASSUME NEW c
    PROVE  /\ PlacesOf(Group6(c), 6)
           /\ Group6(c)[1] = BytecodeClaims(c) /\ Group6(c)[2] = BooleanityClaims(c)
           /\ Group6(c)[3] = HammingClaims(c) /\ Group6(c)[4] = RamRaClaims(c)
           /\ Group6(c)[5] = InstructionRaClaims(c) /\ Group6(c)[6] = IncClaims(c)
<1>1. Group6(c) = [i \in 1 .. 6 |-> Group6(c)[i]]
  BY DEF Group6
<1> QED
  BY <1>1 DEF PlacesOf, Group6

\* They are claims on polynomials of the proof, at points.
LEMMA Group6Sound ==
    ASSUME NEW c \in Configs, NEW i \in 1 .. 6
    PROVE  Sound(Group6(c)[i], {GroupNames6[i]}, c)
<1>0. Pt6(c) \in Points
  BY Pt6Is
<1>1. Sound(BytecodeClaims(c), {"BytecodeReadRaf"}, c)
  BY <1>0, CodeChunksAre, ChunksSound DEF BytecodeClaims, ChunksOK
<1>2. Sound(BooleanityClaims(c), {"Booleanity"}, c)
  BY BoolPtIs, PolynomialsHave, SoundEach DEF BooleanityClaims
<1>3. Sound(HammingClaims(c), {"RamHammingBooleanity"}, c)
  <2>1. Virt("RamHammingWeight") \in Polynomials(c)
    BY PolynomialsHave DEF Witnesses
  <2> QED
    BY <1>0, <2>1, SoundOne DEF HammingClaims, RamWeight
<1>4. Sound(RamRaClaims(c), {"RamRaVirtualization"}, c)
  BY <1>0, RamChunksAre, ChunksSound DEF RamRaClaims, ChunksOK
<1>5. Sound(InstructionRaClaims(c), {"InstructionRaVirtualization"}, c)
  BY <1>0, LookupChunksAre, ChunksSound DEF InstructionRaClaims, ChunksOK
<1>6. Sound(IncClaims(c), {"IncClaimReduction"}, c)
  BY <1>0, ShortPolynomials, SoundEach DEF IncClaims
<1>7. /\ GroupNames6[1] = "BytecodeReadRaf" /\ GroupNames6[2] = "Booleanity"
      /\ GroupNames6[3] = "RamHammingBooleanity" /\ GroupNames6[4] = "RamRaVirtualization"
      /\ GroupNames6[5] = "InstructionRaVirtualization" /\ GroupNames6[6] = "IncClaimReduction"
  BY DEF GroupNames6
<1> QED
  BY <1>1, <1>2, <1>3, <1>4, <1>5, <1>6, <1>7, UptoSix, Group6Is

\* The kinds of advice in the order of stage 6.
LEMMA OrderKinds ==
    ASSUME NEW c \in Configs
    PROVE  /\ CycleCount(c) \in Nat /\ PlacesOf(AdviceOrder(c), CycleCount(c))
           /\ DOMAIN AdviceOrder(c) = 1 .. CycleCount(c)
           /\ \A i \in 1 .. CycleCount(c) :
                 AdviceOrder(c)[i] \in Range(KindsOf(c)) /\ AdviceOrder(c)[i] \in AdviceKinds
           /\ \A i, j \in 1 .. CycleCount(c) : AdviceOrder(c)[i] = AdviceOrder(c)[j] => i = j
           /\ \A k \in Range(KindsOf(c)) : \E i \in 1 .. CycleCount(c) : AdviceOrder(c)[i] = k
<1> DEFINE s == AdviceOrder(c)
<1>1. Different(s) /\ Range(s) = Range(KindsOf(c)) /\ Range(KindsOf(c)) \subseteq AdviceKinds
  BY KindsAre
<1> HIDE DEF s
<1>2. PICK n \in Nat : PlacesOf(s, n)
  BY <1>1 DEF Different
<1>3. Len(s) = n /\ DOMAIN s = 1 .. n
  BY <1>2, PlacesAreSeq
<1>4. CycleCount(c) = n
  BY <1>3 DEF CycleCount, s
<1>5. \A i \in 1 .. n : s[i] \in Range(s)
  BY <1>3 DEF Range
<1>6. \A k \in Range(s) : \E i \in 1 .. n : s[i] = k
  BY <1>3 DEF Range
<1>7. \A i, j \in 1 .. n : s[i] = s[j] => i = j
  BY <1>1, <1>3 DEF Different
<1> QED
  BY <1>1, <1>2, <1>3, <1>4, <1>5, <1>6, <1>7 DEF s

\* Claims on different kinds of advice have different keys.
LEMMA KindsApart ==
    ASSUME NEW k \in AdviceKinds, NEW l \in AdviceKinds, k # l
    PROVE  Advice(k) # Advice(l)
  BY DEF Advice, AdviceKinds

\* The claims of the advice, place by place.
LEMMA CycleGroupIs ==
    ASSUME NEW c \in Configs, NEW layout \in Layouts
    PROVE  /\ PlacesOf(CycleGroup(c, layout), CycleCount(c))
           /\ \A i \in 1 .. CycleCount(c) :
                 /\ CycleGroup(c, layout)[i] = CycleClaims(c, AdviceOrder(c)[i], layout)
                 /\ Sound(CycleGroup(c, layout)[i], CycleNames, c)
           /\ \A i, j \in 1 .. CycleCount(c) :
                 i # j => Apart(CycleGroup(c, layout)[i], CycleGroup(c, layout)[j])
<1> DEFINE g == CycleGroup(c, layout)
           s == AdviceOrder(c)
           n == CycleCount(c)
           o(i) == CycleClaims(c, s[i], layout)
<1>1. g = [i \in 1 .. n |-> o(i)]
  BY OrderKinds DEF CycleGroup
<1> HIDE DEF g, o
<1>2. PlacesOf(g, n) /\ \A i \in 1 .. n : g[i] = o(i)
  BY <1>1 DEF PlacesOf
<1>3. \A i \in 1 .. n : s[i] \in AdviceKinds
  BY OrderKinds
<1>4. \A i, j \in 1 .. n : s[i] = s[j] => i = j
  BY OrderKinds
<1> HIDE DEF s, n
<1>5. ASSUME NEW i \in 1 .. n PROVE Sound(g[i], CycleNames, c) /\ Of(g[i], {Advice(s[i])})
  <2> DEFINE k == s[i]
  <2>1. k \in AdviceKinds /\ g[i] = CycleClaims(c, k, layout)
    BY <1>2, <1>3 DEF o
  <2> HIDE DEF k
  <2>2. Sound(CycleClaims(c, k, layout), CycleNames, c) /\ Of(CycleClaims(c, k, layout), {Advice(k)})
    BY <2>1, CycleSound DEF CycleNames
  <2> QED
    BY <2>1, <2>2 DEF k
<1>6. ASSUME NEW i \in 1 .. n, NEW j \in 1 .. n, i # j PROVE Apart(g[i], g[j])
  <2>1. Advice(s[i]) # Advice(s[j])
    BY <1>3, <1>4, <1>6, KindsApart
  <2> DEFINE P == {Advice(s[i])}
             Q == {Advice(s[j])}
  <2>2. Of(g[i], P) /\ Of(g[j], Q) /\ P \cap Q = {}
    BY <1>5, <2>1
  <2> HIDE DEF P, Q
  <2> QED
    BY <2>2, OtherPolys
<1> QED
  BY <1>2, <1>5, <1>6 DEF g, o, s, n

SixJoined(S) == S[1] \cup S[2] \cup S[3] \cup S[4] \cup S[5] \cup S[6]

\* What is in one of six sets.
LEMMA AllOfSix ==
    ASSUME NEW S, NEW x
    PROVE  x \in All(S, 6) <=> \E i \in 1 .. 6 : x \in S[i]
  BY DEF All

\* What six instances use.
LEMMA BatchOfSix ==
    ASSUME NEW S, NEW x
    PROVE  x \in BatchUses(S, 6) <=> \E i \in 1 .. 6 : x \in S[i].uses
  BY DEF BatchUses

\* Sets of claims on polynomials of the proof.
LEMMA AllSound ==
    ASSUME NEW S, NEW n, NEW N, NEW c, \A i \in 1 .. n : Sound(S[i], N, c)
    PROVE  Sound(All(S, n), N, c)
  BY DEF All, Sound

\* The claims of stage 6 have keys of their own.
New6(c, layout) ==
    /\ \A i \in 1 .. 6 : Apart(K5(c), Group6(c)[i])
    /\ \A i \in 1 .. CycleCount(c) : Apart(K5(c), CycleGroup(c, layout)[i])
    /\ \A i, j \in 1 .. 6 : i # j => Apart(Group6(c)[i], Group6(c)[j])
    /\ \A i \in 1 .. 6 : \A j \in 1 .. CycleCount(c) : Apart(Group6(c)[i], CycleGroup(c, layout)[j])

\* All claims so far, and that those of stage 6 are new.
LEMMA K6Sound ==
    ASSUME NEW c \in Configs, NEW layout \in Layouts
    PROVE  Sound(K6(c, layout), Names6, c) /\ New6(c, layout)
<1> DEFINE T == K5(c)
           g == Group6(c)
           h == CycleGroup(c, layout)
           n == CycleCount(c)
<1>1. Sound(T, Names5, c)
  BY K5Sound
<1>2. \A i \in 1 .. 6 : Sound(g[i], {GroupNames6[i]}, c)
  BY Group6Sound
<1>3. \A i \in 1 .. n : Sound(h[i], CycleNames, c)
  BY CycleGroupIs
<1>4. Names5 \cap CycleNames = {}
  BY DEF Names5, Names4, Names3, Names2, CycleNames
<1> HIDE DEF T, g, h, n
<1>5. ASSUME NEW i \in 1 .. 6 PROVE Apart(T, g[i])
  <2>1. Names5 \cap {GroupNames6[i]} = {}
    BY GroupNamesDiffer
  <2> QED
    BY <1>1, <1>2, <2>1, OtherSumchecks
<1>6. ASSUME NEW i \in 1 .. n PROVE Apart(T, h[i])
  BY <1>1, <1>3, <1>4, OtherSumchecks
<1>7. ASSUME NEW i \in 1 .. 6, NEW j \in 1 .. 6, i # j PROVE Apart(g[i], g[j])
  <2>1. {GroupNames6[i]} \cap {GroupNames6[j]} = {}
    BY <1>7, GroupNamesDiffer
  <2> QED
    BY <1>2, <2>1, OtherSumchecks
<1>8. ASSUME NEW i \in 1 .. 6, NEW j \in 1 .. n PROVE Apart(g[i], h[j])
  <2>1. {GroupNames6[i]} \cap CycleNames = {}
    BY GroupNamesDiffer
  <2> QED
    BY <1>2, <1>3, <2>1, OtherSumchecks
<1>9. Sound(All(g, 6), Names6, c)
  <2>1. \A i \in 1 .. 6 : Sound(g[i], Names6, c)
    BY <1>2, GroupNamesDiffer DEF Sound
  <2> QED
    BY <2>1, AllSound
<1>10. Sound(All(h, n), Names6, c)
  <2>1. \A i \in 1 .. n : Sound(h[i], Names6, c)
    BY <1>3 DEF Sound, Names6
  <2> QED
    BY <2>1, AllSound
<1>11. Sound(T, Names6, c)
  BY <1>1 DEF Sound, Names6
<1>12. Sound(K6(c, layout), Names6, c)
  BY <1>9, <1>10, <1>11 DEF Sound, K6, Stage6Claims, T, g, h, n
<1> QED
  BY <1>5, <1>6, <1>7, <1>8, <1>12 DEF New6, T, g, h, n
UsesOf6 == CodeUses \cup RamRaUses \cup IndexUses \cup Incs

\* The claims of earlier stages that stage 6 asks for.
LEMMA Earlier6 ==
    ASSUME NEW c \in Configs, NEW T, T = K5(c)
    PROVE  /\ Earlier(T, c) /\ OuterClaims(c) \subseteq T /\ RamClaims(c) \subseteq T
           /\ RamValClaims(c) \subseteq T /\ RegisterClaims(c) \subseteq T /\ RegisterValClaims(c) \subseteq T
           /\ RaReductionClaims(c) \subseteq T /\ LookupIndexClaims(c) \subseteq T /\ AdviceClaims(c) \subseteq T
  BY DEF Earlier, K5, K4, K3, K2, K1, Stage2Claims, Beside2, Stage3Claims, Stage4Claims, Stage5Claims

\* The six instances that are always there.
Base6(acc, c) ==
    <<BytecodeReadRaf(acc, c), Booleanity(acc, c), RamHamming(acc), RamRaVirtual(acc, c),
      InstructionRaVirtual(acc), IncReduction(acc, c)>>

\* The six instances, place by place.
LEMMA Base6Is ==
    ASSUME NEW acc, NEW c
    PROVE  /\ PlacesOf(Base6(acc, c), 6)
           /\ Base6(acc, c)[1] = BytecodeReadRaf(acc, c) /\ Base6(acc, c)[2] = Booleanity(acc, c)
           /\ Base6(acc, c)[3] = RamHamming(acc) /\ Base6(acc, c)[4] = RamRaVirtual(acc, c)
           /\ Base6(acc, c)[5] = InstructionRaVirtual(acc) /\ Base6(acc, c)[6] = IncReduction(acc, c)
<1>1. Base6(acc, c) = [i \in 1 .. 6 |-> Base6(acc, c)[i]]
  BY DEF Base6
<1> QED
  BY <1>1 DEF PlacesOf, Base6

\* The six instances find their claims, and one of them has all rounds.
LEMMA Base6Given ==
    ASSUME NEW c \in Configs, NEW acc, NEW T, Knows(acc, T), T = K5(c), NEW b, b = 8, NEW max, max = M8(c)
    PROVE  /\ \A i \in 1 .. 6 : Given(Base6(acc, c)[i], b, max, T, Group6(c)[i], c)
                                /\ Base6(acc, c)[i].rounds \in 0 .. max
           /\ \E i \in 1 .. 6 : Base6(acc, c)[i].rounds = max
           /\ UsesOf6 \subseteq Keys(BatchUses(Base6(acc, c), 6))
<1> DEFINE x1 == BytecodeReadRaf(acc, c)
           x2 == Booleanity(acc, c)
           x3 == RamHamming(acc)
           x4 == RamRaVirtual(acc, c)
           x5 == InstructionRaVirtual(acc)
           x6 == IncReduction(acc, c)
           s == Base6(acc, c)
           g == Group6(c)
<1>1. /\ Earlier(T, c) /\ OuterClaims(c) \subseteq T /\ RamClaims(c) \subseteq T
      /\ RamValClaims(c) \subseteq T /\ RegisterClaims(c) \subseteq T /\ RegisterValClaims(c) \subseteq T
      /\ RaReductionClaims(c) \subseteq T /\ LookupIndexClaims(c) \subseteq T
  BY Earlier6
<1>2. /\ Given(x1, b, max, T, BytecodeClaims(c), c) /\ Given(x2, b, max, T, BooleanityClaims(c), c)
      /\ Given(x3, b, max, T, HammingClaims(c), c) /\ Given(x4, b, max, T, RamRaClaims(c), c)
      /\ Given(x5, b, max, T, InstructionRaClaims(c), c) /\ Given(x6, b, max, T, IncClaims(c), c)
  BY <1>1, BytecodeGiven, BooleanityGiven, HammingGiven, RamRaVirtualGiven, InstructionRaVirtualGiven, IncGiven
<1>3. /\ x1.rounds = c.bytecode_log_K + c.log_T /\ x2.rounds = LogKChunk + c.log_T
      /\ x3.rounds = c.log_T /\ x4.rounds = c.log_T /\ x5.rounds = c.log_T /\ x6.rounds = c.log_T
  BY <1>1, BytecodeGiven, BooleanityGiven, HammingGiven, RamRaVirtualGiven, InstructionRaVirtualGiven, IncGiven
<1>4. /\ Keys(x1.uses) = CodeUses /\ Keys(x4.uses) = RamRaUses /\ Keys(x5.uses) = IndexUses /\ Keys(x6.uses) = Incs
  BY <1>1, BytecodeGiven, RamRaVirtualGiven, InstructionRaVirtualGiven, IncGiven
<1>5. /\ s[1] = x1 /\ s[2] = x2 /\ s[3] = x3 /\ s[4] = x4 /\ s[5] = x5 /\ s[6] = x6
  BY Base6Is
<1>6. /\ g[1] = BytecodeClaims(c) /\ g[2] = BooleanityClaims(c) /\ g[3] = HammingClaims(c)
      /\ g[4] = RamRaClaims(c) /\ g[5] = InstructionRaClaims(c) /\ g[6] = IncClaims(c)
  BY Group6Is
<1>7. /\ c.log_T \in 0 .. max /\ c.bytecode_log_K + c.log_T \in 0 .. max /\ LogKChunk + c.log_T \in 0 .. max
      /\ (max = LogKChunk + c.log_T \/ max = c.bytecode_log_K + c.log_T)
  BY Sizes8
<1> HIDE DEF x1, x2, x3, x4, x5, x6, s, g
<1>8. \A i \in 1 .. 6 : Given(s[i], b, max, T, g[i], c) /\ s[i].rounds \in 0 .. max
  <2>1. ASSUME NEW i \in 1 .. 6 PROVE Given(s[i], b, max, T, g[i], c) /\ s[i].rounds \in 0 .. max
    BY <1>2, <1>3, <1>5, <1>6, <1>7, UptoSix
  <2> QED
    BY <2>1
<1>9. \E i \in 1 .. 6 : s[i].rounds = max
  <2>1. 1 \in 1 .. 6 /\ 2 \in 1 .. 6
    OBVIOUS
  <2> QED
    BY <1>3, <1>5, <1>7, <2>1
<1>10. \A i \in 1 .. 6 : Keys(s[i].uses) \subseteq Keys(BatchUses(s, 6))
  BY BatchOfSix DEF Keys
<1>11. UsesOf6 \subseteq Keys(BatchUses(s, 6))
  <2> DEFINE K == Keys(BatchUses(s, 6))
  <2>2. 1 \in 1 .. 6 /\ 4 \in 1 .. 6 /\ 5 \in 1 .. 6 /\ 6 \in 1 .. 6
    OBVIOUS
  <2>1. Keys(s[1].uses) \subseteq K /\ Keys(s[4].uses) \subseteq K /\ Keys(s[5].uses) \subseteq K
        /\ Keys(s[6].uses) \subseteq K
    BY <1>10, <2>2
  <2> HIDE DEF K
  <2> QED
    BY <1>4, <1>5, <2>1 DEF UsesOf6, K
<1> QED
  BY <1>8, <1>9, <1>11 DEF s, g

\* What a side keeps of the advice.
KeepsAdvice(advice, c, layout) ==
    /\ DOMAIN advice = Range(KindsOf(c))
    /\ \A k \in Range(KindsOf(c)) :
          advice[k].layout = layout /\ advice[k].challenges = AdviceKept(c, k, layout)

\* The batch of stage 6.
LEMMA Stage6Batch ==
    ASSUME NEW c \in Configs, NEW who \in Sides, NEW side, NEW T, T = K5(c), SideKnows(side, T),
           NEW layout \in Layouts, NEW acc, acc = side.acc, NEW b, b = 8, NEW params, NEW extra,
           \A k \in Range(KindsOf(c)) : params[k].layout = layout,
           extra = [i \in DOMAIN AdviceOrder(c) |-> CyclePhase(acc, c, AdviceOrder(c)[i], params[AdviceOrder(c)[i]])]
    PROVE  /\ MaxRounds(Base6(acc, c) \o extra) = M8(c)
           /\ Went(side, Run(who, side, b, Base6(acc, c) \o extra), T, Stage6Claims(c, layout), UsesOf6)
<1> DEFINE max == M8(c)
           s == Base6(acc, c)
           g == Group6(c)
           h == CycleGroup(c, layout)
           n == CycleCount(c)
           o(i) == CyclePhase(acc, c, AdviceOrder(c)[i], params[AdviceOrder(c)[i]])
           six == 6
<1>1. Knows(acc, T) /\ max = M8(c) /\ max \in Nat /\ c.log_T \in 0 .. max /\ six = 6
  BY Sizes8 DEF SideKnows
<1>2. AdviceClaims(c) \subseteq T
  BY Earlier6
<1>3. extra = [i \in 1 .. n |-> o(i)]
  BY OrderKinds
<1> HIDE DEF max, o
<1>4. n \in Nat /\ PlacesOf(extra, n) /\ \A i \in 1 .. n : extra[i] = o(i)
  BY <1>3, OrderKinds DEF PlacesOf
<1>5. ASSUME NEW i \in 1 .. n
      PROVE  Given(extra[i], b, max, T, h[i], c) /\ extra[i].rounds \in 0 .. max
  <2> DEFINE k == AdviceOrder(c)[i]
             q == params[k]
  <2>1. k \in Range(KindsOf(c)) /\ q.layout = layout
    BY OrderKinds
  <2>2. extra[i] = CyclePhase(acc, c, k, q)
    BY <1>4 DEF o
  <2>3. h[i] = CycleClaims(c, k, layout)
    BY CycleGroupIs
  <2> HIDE DEF k, q, h
  <2>4. Given(CyclePhase(acc, c, k, q), b, max, T, CycleClaims(c, k, layout), c)
        /\ CyclePhase(acc, c, k, q).rounds \in 0 .. c.log_T
    BY <1>1, <1>2, <2>1, CycleGiven
  <2> QED
    BY <1>1, <2>2, <2>3, <2>4
<1>6. /\ \A i \in 1 .. six : Given(s[i], b, max, T, g[i], c) /\ s[i].rounds \in 0 .. max
      /\ \E i \in 1 .. six : s[i].rounds = max
      /\ UsesOf6 \subseteq Keys(BatchUses(s, six))
  BY <1>1, Base6Given
<1>7. PlacesOf(s, six) /\ PlacesOf(g, six) /\ PlacesOf(h, n)
  BY Base6Is, Group6Is, CycleGroupIs
<1>8. /\ \A i \in 1 .. six : Apart(T, g[i])
      /\ \A i \in 1 .. n : Apart(T, h[i])
      /\ \A i, j \in 1 .. six : i # j => Apart(g[i], g[j])
      /\ \A i \in 1 .. six : \A j \in 1 .. n : Apart(g[i], h[j])
  BY K6Sound DEF New6
<1>9. \A i, j \in 1 .. n : i # j => Apart(h[i], h[j])
  BY CycleGroupIs
<1>10. six \in Nat
  OBVIOUS
<1> HIDE DEF s, g, h, n, six
<1>11. HalfGivens(T, b, six, s, max, g, c)
  BY <1>6, <1>7, <1>8, <1>10 DEF HalfGivens
<1>12. HalfGivens(T, b, n, extra, max, h, c)
  BY <1>4, <1>5, <1>7, <1>8, <1>9 DEF HalfGivens
<1>13. JoinGivens(T, b, max, six, s, g, n, extra, h, c)
  BY <1>1, <1>6, <1>8, <1>11, <1>12 DEF JoinGivens
<1> DEFINE Q == UsesOf6
<1>14. Q \subseteq Keys(BatchUses(s, six))
  BY <1>6
<1> HIDE DEF Q
<1>15. JoinReady(who, side, T, b, max, six, s, g, n, extra, h, c, Q)
  BY <1>13, <1>14 DEF JoinReady
<1>16. JoinRan(who, side, T, b, max, six, s, g, n, extra, h, Q)
  BY <1>15, JoinWent, Zenon
<1>17. /\ max = MaxRounds(s \o extra)
       /\ Went(side, Run(who, side, b, s \o extra), T, All(g, six) \cup All(h, n), Q)
  BY <1>16 DEF JoinRan
<1> QED
  BY <1>17, Zenon DEF Stage6Claims, max, s, g, h, n, six, Q

\* After stage 6 a side knows its claims, has used those it needs and keeps the advice.
LEMMA Stage6Knows ==
    ASSUME NEW c \in Configs, NEW who \in Sides, NEW side, NEW T, T = K5(c), SideKnows(side, T),
           NEW layout \in Layouts, NEW t, t = Stage6(who, side, c, layout)
    PROVE  /\ SideKnows(t, T \cup Stage6Claims(c, layout))
           /\ t.wrong = side.wrong /\ side.used \subseteq t.used /\ UsesOf6 \subseteq t.used
           /\ KeepsAdvice(t.advice, c, layout)
<1> DEFINE acc == side.acc
           kinds == AdviceOrder(c)
           params == [k \in Range(kinds) |-> AdviceParams(c, k, layout)]
           s == Base6(acc, c)
           extra == [i \in DOMAIN kinds |-> CyclePhase(acc, c, kinds[i], params[kinds[i]])]
           batch == s \o extra
           r == Challenges(8, MaxRounds(batch))
           slice(k) == Slice(CyclePhase(acc, c, k, params[k]), r)
           advice == [k \in Range(kinds) |->
                        [params[k] EXCEPT !.challenges = CycleVarChallenges(c, k, layout, slice(k))]]
           b == 8
           ran == Run(who, side, b, batch)
           W == Stage6Claims(c, layout)
<1>1. t = [ran EXCEPT !.advice = advice]
  BY DEF Stage6, Base6
<1>2. \A k \in Range(kinds) : params[k] = AdviceParams(c, k, layout) /\ params[k].layout = layout
  BY DEF AdviceParams
<1>3. Range(kinds) = Range(KindsOf(c)) /\ Range(KindsOf(c)) \subseteq AdviceKinds
  BY KindsAre
<1>4. MaxRounds(batch) = M8(c) /\ Went(side, ran, T, W, UsesOf6)
  <2> DEFINE e == extra
             q == params
             a == acc
  <2>1. a = side.acc /\ b = 8 /\ \A k \in Range(KindsOf(c)) : q[k].layout = layout
    BY <1>2, <1>3
  <2>2. e = [i \in DOMAIN AdviceOrder(c) |-> CyclePhase(a, c, AdviceOrder(c)[i], q[AdviceOrder(c)[i]])]
    OBVIOUS
  <2>3. batch = Base6(a, c) \o e
    OBVIOUS
  <2> HIDE DEF e, q, a, b, batch
  <2>4. MaxRounds(Base6(a, c) \o e) = M8(c)
        /\ Went(side, Run(who, side, b, Base6(a, c) \o e), T, Stage6Claims(c, layout), UsesOf6)
    BY <2>1, <2>2, Stage6Batch
  <2> QED
    BY <2>3, <2>4
<1>5. r = Challenges(b, M8(c))
  BY <1>4
<1>6. ASSUME NEW k \in Range(kinds) PROVE slice(k) = AdviceSlice(c, k, layout)
  <2> DEFINE q == params[k]
             max == M8(c)
  <2>1. q.layout = layout /\ k \in AdviceKinds /\ b = 8 /\ max = M8(c) /\ r = Challenges(b, max)
    BY <1>2, <1>3, <1>5, <1>6
  <2>2. slice(k) = Slice(CyclePhase(acc, c, k, q), r)
    OBVIOUS
  <2> HIDE DEF q, max, b, r, slice, acc
  <2>3. Slice(CyclePhase(acc, c, k, q), Challenges(b, max)) = AdviceSlice(c, k, layout)
    BY <2>1, CyclePhaseSlice
  <2> QED
    BY <2>1, <2>2, <2>3
<1>7. \A k \in Range(kinds) : advice[k] = [params[k] EXCEPT !.challenges = CycleVarChallenges(c, k, layout, slice(k))]
  OBVIOUS
<1>8. \A k \in Range(kinds) : DOMAIN params[k] = {"layout", "order", "challenges"}
  BY <1>2 DEF AdviceParams
<1>9. DOMAIN advice = Range(kinds)
  OBVIOUS
<1> HIDE DEF advice, params, slice, ran, W, r, batch
<1>10. \A k \in Range(kinds) : advice[k].layout = layout /\ advice[k].challenges = AdviceKept(c, k, layout)
  BY <1>2, <1>6, <1>7, <1>8 DEF AdviceKept
<1>11. KeepsAdvice(advice, c, layout)
  BY <1>3, <1>9, <1>10 DEF KeepsAdvice
<1>12. DOMAIN ran = {"acc", "transcript", "advice", "ok", "wrong", "unbalanced", "used", "appended"}
  BY <1>4 DEF Went, SideKnows
<1>13. /\ DOMAIN t = DOMAIN ran /\ t.advice = advice /\ t.acc = ran.acc /\ t.wrong = ran.wrong
       /\ t.used = ran.used /\ t.appended = ran.appended
  BY <1>1, <1>12
<1>14. SideKnows(t, T \cup W)
  BY <1>4, <1>13 DEF Went, SideKnows
<1>15. t.wrong = side.wrong /\ side.used \subseteq t.used /\ UsesOf6 \subseteq t.used
  BY <1>4, <1>13 DEF Went
<1> QED
  BY <1>11, <1>13, <1>14, <1>15 DEF W

\* Stage 7.
UnifiedPt(c) == Reverse(Part(9, LogKChunk, LogKChunk)) \o Pt6(c)

\* The claims on the one-hot polynomials at the unified point.
UnifiedClaims(c) == EachOf(RaPolynomials(c), "HammingWeightClaimReduction", UnifiedPt(c))

\* The claim of stage 6 on a one-hot polynomial.
VirtualOf(p) == At(p, VirtualizationOf(p))

\* All of them.
VirtualUses(c) == {VirtualOf(p) : p \in Range(RaPolynomials(c))}

\* The claims of booleanity.
BooleanityUses(c) == IdsAt(Range(RaPolynomials(c)), "Booleanity")

\* What the reduction of the Hamming weights uses.
Uses10(c) == BooleanityUses(c) \cup VirtualUses(c) \cup {RamWeight}

\* The claims of stage 6 it asks for.
OneHots(T, c) ==
    /\ BooleanityClaims(c) \subseteq T /\ HammingClaims(c) \subseteq T /\ RamRaClaims(c) \subseteq T
    /\ InstructionRaClaims(c) \subseteq T /\ BytecodeClaims(c) \subseteq T

\* The unified point: the address of a chunk and the cycle of stage 6.
LEMMA UnifiedPtIs ==
    ASSUME NEW c \in Configs
    PROVE  /\ UnifiedPt(c) \in Points /\ Len(UnifiedPt(c)) = LogKChunk + c.log_T
           /\ First(UnifiedPt(c), LogKChunk) \in Points /\ From(UnifiedPt(c), LogKChunk) = Pt6(c)
<1> DEFINE n == LogKChunk
           b == 9
           s == Reverse(Part(b, n, n))
           q == Pt6(c)
<1>1. n \in Nat /\ c.log_T \in Nat /\ b \in Nat
  BY Sizes8
<1>2. Part(b, n, n) \in Points /\ Len(Part(b, n, n)) = n
  <2> HIDE DEF n, b
  <2> QED
    BY <1>1, WholePart
<1>3. s \in Points /\ Len(s) = n
  <2> DEFINE r == Part(b, n, n)
  <2> HIDE DEF r, n
  <2>1. Reverse(r) \in Points /\ Len(Reverse(r)) = Len(r)
    BY <1>2, ReversePoint DEF r
  <2> QED
    BY <1>2, <2>1 DEF r
<1>4. q \in Points /\ Len(q) = c.log_T
  BY Pt6Is
<1>5. UnifiedPt(c) = s \o q
  BY DEF UnifiedPt
<1> HIDE DEF s, q, n, b
<1>6. s \o q \in Points /\ Len(s \o q) = n + Len(q) /\ First(s \o q, n) = s /\ From(s \o q, n) = q
  BY <1>3, <1>4, JoinSplit
<1> QED
  BY <1>3, <1>4, <1>5, <1>6 DEF n, q

\* The claim of stage 6 on a one-hot polynomial is at the cycle of stage 6.
LEMMA VirtualKnown ==
    ASSUME NEW c \in Configs, NEW T, OneHots(T, c), NEW p \in Range(RaPolynomials(c))
    PROVE  \E s \in Points : Len(s) = LogKChunk /\ Use(VirtualOf(p), s \o Pt6(c)) \in T
<1>1. Pt6(c) \in Points
  BY Pt6Is
<1>2. CASE \E i \in 1 .. InstructionD : p = CommAt("InstructionRa", i)
  <2>1. PICK i \in 1 .. InstructionD : p = CommAt("InstructionRa", i)
    BY <1>2
  <2>2. VirtualOf(p) = At(CommAt("InstructionRa", i), "InstructionRaVirtualization")
    BY <2>1 DEF VirtualOf, VirtualizationOf, CommAt
  <2>3. LookupChunks(c)[i] \in Points /\ Len(LookupChunks(c)[i]) = LogKChunk
    BY LookupChunksAre
  <2>4. Use(At(CommAt("InstructionRa", i), "InstructionRaVirtualization"), LookupChunks(c)[i] \o Pt6(c))
          \in InstructionRaClaims(c)
    BY <1>1, LookupChunksAre, ChunksSound DEF InstructionRaClaims, ChunksOK
  <2> QED
    BY <2>2, <2>3, <2>4 DEF OneHots
<1>3. CASE \E i \in 1 .. ChunksOf(c.bytecode_log_K) : p = CommAt("BytecodeRa", i)
  <2>1. PICK i \in 1 .. ChunksOf(c.bytecode_log_K) : p = CommAt("BytecodeRa", i)
    BY <1>3
  <2>2. VirtualOf(p) = At(CommAt("BytecodeRa", i), "BytecodeReadRaf")
    BY <2>1 DEF VirtualOf, VirtualizationOf, CommAt
  <2>3. CodeChunks(c)[i] \in Points /\ Len(CodeChunks(c)[i]) = LogKChunk
    BY CodeChunksAre
  <2>4. Use(At(CommAt("BytecodeRa", i), "BytecodeReadRaf"), CodeChunks(c)[i] \o Pt6(c)) \in BytecodeClaims(c)
    BY <1>1, CodeChunksAre, ChunksSound DEF BytecodeClaims, ChunksOK
  <2> QED
    BY <2>2, <2>3, <2>4 DEF OneHots
<1>4. CASE \E i \in 1 .. ChunksOf(c.ram_log_K) : p = CommAt("RamRa", i)
  <2>1. PICK i \in 1 .. ChunksOf(c.ram_log_K) : p = CommAt("RamRa", i)
    BY <1>4
  <2>2. VirtualOf(p) = At(CommAt("RamRa", i), "RamRaVirtualization")
    BY <2>1 DEF VirtualOf, VirtualizationOf, CommAt
  <2>3. RamChunks(c)[i] \in Points /\ Len(RamChunks(c)[i]) = LogKChunk
    BY RamChunksAre
  <2>4. Use(At(CommAt("RamRa", i), "RamRaVirtualization"), RamChunks(c)[i] \o Pt6(c)) \in RamRaClaims(c)
    BY <1>1, RamChunksAre, ChunksSound DEF RamRaClaims, ChunksOK
  <2> QED
    BY <2>2, <2>3, <2>4 DEF OneHots
<1> QED
  BY <1>2, <1>3, <1>4, RaIs

\* So are the claims of booleanity.
LEMMA BooleanityKnown ==
    ASSUME NEW c \in Configs, NEW acc, NEW T, Knows(acc, T), OneHots(T, c)
    PROVE  /\ PointOf(acc, At(CommAt("InstructionRa", 1), "Booleanity")) = BoolPt(c)
           /\ First(BoolPt(c), LogKChunk) = BoolAddr(c) /\ From(BoolPt(c), LogKChunk) = Pt6(c)
<1>1. CommAt("InstructionRa", 1) \in Range(RaPolynomials(c))
  <2>1. 1 \in 1 .. InstructionD
    BY ChunkSizes
  <2> QED
    BY <2>1, RaIs
<1>2. EachOf(RaPolynomials(c), "Booleanity", BoolPt(c)) \subseteq T
  BY DEF OneHots, BooleanityClaims
<1>3. PointOf(acc, At(CommAt("InstructionRa", 1), "Booleanity")) = BoolPt(c)
  <2> DEFINE q == CommAt("InstructionRa", 1)
             s == "Booleanity"
             p == BoolPt(c)
             polys == RaPolynomials(c)
  <2>1. q \in Range(polys) /\ EachOf(polys, s, p) \subseteq T
    BY <1>1, <1>2
  <2> HIDE DEF q, s, p, polys
  <2>2. PointOf(acc, At(q, s)) = p
    BY <2>1, EachKnown
  <2> QED
    BY <2>2 DEF q, s, p
<1>4. BoolAddr(c) \in Points /\ Len(BoolAddr(c)) = LogKChunk /\ Pt6(c) \in Points
  BY BoolPtIs, Pt6Is
<1>5. First(BoolAddr(c) \o Pt6(c), LogKChunk) = BoolAddr(c) /\ From(BoolAddr(c) \o Pt6(c), LogKChunk) = Pt6(c)
  BY <1>4, JoinSplit
<1> QED
  BY <1>3, <1>5 DEF BoolPt

\* The claims the reduction uses are known.
LEMMA WeightUsesAre ==
    ASSUME NEW c \in Configs, NEW acc, NEW T, Knows(acc, T), OneHots(T, c)
    PROVE  HammingWeight(acc, c).uses \subseteq T /\ Keys(HammingWeight(acc, c).uses) = Uses10(c)
<1> DEFINE x == HammingWeight(acc, c)
           unified == PointOf(acc, At(CommAt("InstructionRa", 1), "Booleanity"))
           n == LogKChunk
           q == From(unified, n)
           polys == Range(RaPolynomials(c))
           o(p) == First(PointOf(acc, VirtualOf(p)), n) \o q
           A == Uses(IdsAt(polys, "Booleanity"), First(unified, n) \o q)
           B == {Use(VirtualOf(p), o(p)) : p \in polys}
           D == {Use(RamWeight, q)}
<1>1. x.uses = A \cup B \cup D
  BY DEF HammingWeight, Instance, VirtualOf, RamWeight
<1>2. unified = BoolPt(c) /\ First(unified, n) = BoolAddr(c) /\ q = Pt6(c)
  BY BooleanityKnown
<1>3. A = BooleanityClaims(c)
  BY <1>2 DEF BooleanityClaims, EachOf, BoolPt
<1>4. D = HammingClaims(c)
  BY <1>2 DEF HammingClaims
<1>5. ASSUME NEW p \in polys PROVE Use(VirtualOf(p), o(p)) \in T
  <2>1. PICK s \in Points : Len(s) = n /\ Use(VirtualOf(p), s \o Pt6(c)) \in T
    BY VirtualKnown
  <2> DEFINE k == VirtualOf(p)
             y == Pt6(c)
  <2>2. y \in Points /\ q = y
    BY <1>2, Pt6Is
  <2>3. Use(k, s \o y) \in T
    BY <2>1
  <2>4. o(p) = First(PointOf(acc, k), n) \o y
    BY <2>2
  <2> HIDE DEF k, y, n, o, q, unified
  <2>5. PointOf(acc, k) = s \o y
    BY <2>3, KnownUse
  <2>6. First(s \o y, n) = s
    BY <2>1, <2>2, JoinSplit
  <2>7. o(p) = s \o y
    BY <2>4, <2>5, <2>6
  <2> QED
    BY <2>3, <2>7 DEF k
<1>6. x.uses \subseteq T
  <2>1. A \subseteq T /\ D \subseteq T
    BY <1>3, <1>4 DEF OneHots
  <2>2. B \subseteq T
    BY <1>5
  <2> HIDE DEF A, B, D, x
  <2> QED
    BY <1>1, <2>1, <2>2
<1>7. Keys(A) = BooleanityUses(c)
  BY KeysAre DEF BooleanityUses
<1>8. Keys(B) = VirtualUses(c)
  <2>1. \A p \in polys : Use(VirtualOf(p), o(p)).key = VirtualOf(p)
    BY UseIs
  <2> HIDE DEF o, polys
  <2>2. Keys(B) = {VirtualOf(p) : p \in polys}
    BY <2>1 DEF Keys
  <2> QED
    BY <2>2 DEF VirtualUses, polys
<1>9. Keys(D) = {RamWeight}
  BY KeysAre
<1> HIDE DEF A, B, D, x
<1>10. Keys(A \cup B \cup D) = Keys(A) \cup Keys(B) \cup Keys(D)
  BY KeysThree
<1> QED
  BY <1>1, <1>6, <1>7, <1>8, <1>9, <1>10 DEF Uses10, x

\* The reduction of the Hamming weights.
LEMMA HammingWeightGiven ==
    ASSUME NEW c \in Configs, NEW acc, NEW T, Knows(acc, T), OneHots(T, c),
           NEW b, b = 9, NEW max, max = LogKChunk
    PROVE  /\ Given(HammingWeight(acc, c), b, max, T, UnifiedClaims(c), c)
           /\ Sound(UnifiedClaims(c), {"HammingWeightClaimReduction"}, c)
           /\ Keys(HammingWeight(acc, c).uses) = Uses10(c)
           /\ HammingWeight(acc, c).rounds = LogKChunk
<1> DEFINE x == HammingWeight(acc, c)
           r == Part(b, max, max)
           polys == RaPolynomials(c)
           s == "HammingWeightClaimReduction"
           y == Pt6(c)
           p == UnifiedPt(c)
<1>1. Plain(x) /\ x.rounds = LogKChunk
  BY HammingWeightFacts DEF Knows
<1>2. InLast(x, max, b, max)
  BY <1>1, Sizes8 DEF InLast
<1>3. r \in Points
  <2> HIDE DEF x
  <2> QED
    BY <1>2, LastPoint
<1>4. From(PointOf(acc, At(CommAt("InstructionRa", 1), "Booleanity")), LogKChunk) = y
  BY BooleanityKnown
<1>5. x.prover[r] = HammingWeightProver(c, y, r) /\ x.verifier[r] = HammingWeightVerifier(c, y, r)
  <2> HIDE DEF r, y
  <2> QED
    BY <1>3, <1>4 DEF HammingWeight, Instance
<1>6. p = Reverse(r) \o y
  BY DEF UnifiedPt
<1>7. x.prover[r] = OpenedEach(polys, s, p, LowToHigh(r) \o y) /\ x.verifier[r] = ExpectEach(polys, s, p)
  BY <1>5, <1>6 DEF HammingWeightProver, HammingWeightVerifier
<1>8. Different(polys) /\ Range(polys) \subseteq Polynomials(c) /\ p \in Points
  BY RaDiffer, PolynomialsHave, UnifiedPtIs
<1>9. x.uses \subseteq T /\ Keys(x.uses) = Uses10(c)
  BY WeightUsesAre
<1> HIDE DEF x, r, polys, s, y, p
<1>10. OpensEach(x, r, polys, s, p, c)
  BY <1>7, <1>8 DEF OpensEach
<1>11. Given(x, b, max, T, EachOf(polys, s, p), c) /\ Sound(EachOf(polys, s, p), {s}, c)
  BY <1>2, <1>9, <1>10, EachGiven DEF r
<1> QED
  BY <1>1, <1>9, <1>11 DEF UnifiedClaims, x, polys, s, p

\* The advice with address variables left.
HasAddress(c, kind, layout) == kind \in Range(KindsOf(c)) /\ AddressPhaseRounds(c, kind, layout) > 0

\* The kinds of advice with address variables left.
AddressOrder(c, layout) ==
    Only("trusted", HasAddress(c, "trusted", layout)) \o Only("untrusted", HasAddress(c, "untrusted", layout))

\* How many there are.
AddressCount(c, layout) == Len(AddressOrder(c, layout))

\* The challenges of the second phase.
AddressSlice(c, kind, layout) == SubSeq(Challenges(9, LogKChunk), 1, AddressPhaseRounds(c, kind, layout))

\* The advice's claim after both phases.
AddressFinal(c, kind, layout) ==
    Use(AdviceFinal(kind), AddressPhasePoint(layout, AdviceKept(c, kind, layout), AddressSlice(c, kind, layout)))

\* These claims, kind by kind.
AddressGroup(c, layout) ==
    [i \in DOMAIN AddressOrder(c, layout) |-> {AddressFinal(c, AddressOrder(c, layout)[i], layout)}]

\* Stage 7 finds them from what stage 6 keeps.
LEMMA AddressKindsAre ==
    ASSUME NEW c \in Configs, NEW layout, NEW advice, KeepsAdvice(advice, c, layout)
    PROVE  AddressKinds(c, advice) = AddressOrder(c, layout)
<1>1. DOMAIN advice = Range(KindsOf(c)) /\ \A k \in Range(KindsOf(c)) : advice[k].layout = layout
  BY DEF KeepsAdvice
<1> DEFINE left(k) == k \in DOMAIN advice /\ AddressPhaseRounds(c, k, advice[k].layout) > 0
<1>2. \A k : left(k) <=> HasAddress(c, k, layout)
  BY <1>1 DEF HasAddress
<1>3. AddressKinds(c, advice) = Only("trusted", left("trusted")) \o Only("untrusted", left("untrusted"))
  BY DEF AddressKinds
<1> HIDE DEF left
<1>4. \A k : Only(k, left(k)) = Only(k, HasAddress(c, k, layout))
  BY <1>2 DEF Only
<1> QED
  BY <1>3, <1>4 DEF AddressOrder

\* Each is in the list once.
LEMMA AddressOrderIs ==
    ASSUME NEW c \in Configs, NEW layout
    PROVE  /\ AddressCount(c, layout) \in Nat /\ PlacesOf(AddressOrder(c, layout), AddressCount(c, layout))
           /\ DOMAIN AddressOrder(c, layout) = 1 .. AddressCount(c, layout)
           /\ \A i \in 1 .. AddressCount(c, layout) :
                 /\ HasAddress(c, AddressOrder(c, layout)[i], layout)
                 /\ AddressOrder(c, layout)[i] \in AdviceKinds
           /\ \A i, j \in 1 .. AddressCount(c, layout) :
                 AddressOrder(c, layout)[i] = AddressOrder(c, layout)[j] => i = j
           /\ \A kind \in AdviceKinds : HasAddress(c, kind, layout) =>
                 \E i \in 1 .. AddressCount(c, layout) : AddressOrder(c, layout)[i] = kind
<1> DEFINE s == AddressOrder(c, layout)
           p == HasAddress(c, "trusted", layout)
           q == HasAddress(c, "untrusted", layout)
           k == "trusted"
           l == "untrusted"
<1>1. p \in BOOLEAN /\ q \in BOOLEAN
  BY DEF HasAddress
<1>2. s = Only(k, p) \o Only(l, q) /\ k # l
  BY DEF AddressOrder
<1>3. AdviceKinds = {k, l}
  BY DEF AdviceKinds
<1>4. \A x : x = k => (HasAddress(c, x, layout) <=> p)
  OBVIOUS
<1>5. \A x : x = l => (HasAddress(c, x, layout) <=> q)
  OBVIOUS
<1> HIDE DEF s, p, q, k, l
<1>6. KindsListed(s, k, p, l, q)
  BY <1>1, <1>2, OnlyDiffer
<1>7. Different(s) /\ \A x : x \in Range(s) <=> (p /\ x = k) \/ (q /\ x = l)
  BY <1>6 DEF KindsListed
<1>8. PICK n \in Nat : PlacesOf(s, n)
  BY <1>7 DEF Different
<1>9. Len(s) = n /\ DOMAIN s = 1 .. n
  BY <1>8, PlacesAreSeq
<1>10. AddressCount(c, layout) = n
  BY <1>9 DEF AddressCount, s
<1>11. \A i \in 1 .. n : s[i] \in Range(s)
  BY <1>9 DEF Range
<1>12. \A x \in Range(s) : \E i \in 1 .. n : s[i] = x
  BY <1>9 DEF Range
<1>13. \A i, j \in 1 .. n : s[i] = s[j] => i = j
  BY <1>7, <1>9 DEF Different
<1>14. \A x \in Range(s) : HasAddress(c, x, layout) /\ x \in AdviceKinds
  BY <1>3, <1>4, <1>5, <1>7
<1>15. \A x \in AdviceKinds : HasAddress(c, x, layout) => x \in Range(s)
  BY <1>3, <1>4, <1>5, <1>7
<1> QED
  BY <1>8, <1>9, <1>10, <1>11, <1>12, <1>13, <1>14, <1>15 DEF s

\* The challenges of the second phase are a point, and so is that of the claim.
LEMMA AddressSliceIs ==
    ASSUME NEW c \in Configs, NEW kind \in AdviceKinds, NEW layout \in Layouts
    PROVE  /\ AddressSlice(c, kind, layout) \in Points
           /\ Len(AddressSlice(c, kind, layout)) = AddressPhaseRounds(c, kind, layout)
           /\ AddressPhasePoint(layout, AdviceKept(c, kind, layout), AddressSlice(c, kind, layout)) \in Points
<1> DEFINE n == AddressPhaseRounds(c, kind, layout)
           r == Challenges(9, LogKChunk)
           s == AddressSlice(c, kind, layout)
           t == AdviceKept(c, kind, layout)
           b == 9
           max == LogKChunk
<1>1. n \in 0 .. max /\ max \in Nat /\ b \in Nat /\ r = Challenges(b, max)
  BY CycleSizes, Sizes8
<1>2. t \in Points
  BY AdviceSliceIs
<1>3. s = SubSeq(r, 1, n)
  BY DEF AddressSlice
<1> HIDE DEF b, r, max
<1>4. r \in Points /\ Len(r) = max
  BY <1>1, ChallengesPoint
<1> HIDE DEF n
<1>5. s \in Points /\ Len(s) = n
  <2> HIDE DEF s
  <2>1. SubSeq(r, 1, n) \in Points /\ Len(SubSeq(r, 1, n)) = IF 1 <= n THEN n - 1 + 1 ELSE 0
    BY <1>1, <1>4, PartOfPoint
  <2> QED
    BY <1>1, <1>3, <2>1
<1> HIDE DEF s, t
<1>6. Reverse(t \o s) \in Points /\ Reverse(s \o t) \in Points
  BY <1>2, <1>5, JoinPoints, ReversePoint
<1>7. AddressPhasePoint(layout, t, s) \in Points
  BY <1>6 DEF AddressPhasePoint
<1> QED
  BY <1>5, <1>7 DEF s, t, n

\* The claim after both phases is a claim on the advice.
LEMMA AddressSound ==
    ASSUME NEW c \in Configs, NEW kind \in AdviceKinds, NEW layout \in Layouts
    PROVE  /\ Sound({AddressFinal(c, kind, layout)}, {"AdviceClaimReduction"}, c)
           /\ Of({AddressFinal(c, kind, layout)}, {Advice(kind)})
<1> DEFINE p == AddressPhasePoint(layout, AdviceKept(c, kind, layout), AddressSlice(c, kind, layout))
           s == "AdviceClaimReduction"
           q == Advice(kind)
<1>1. p \in Points /\ q \in Polynomials(c)
  BY AddressSliceIs, PolynomialsHave
<1>2. AddressFinal(c, kind, layout) = Use(At(q, s), p)
  BY DEF AddressFinal, AdviceFinal, AdviceAt
<1> HIDE DEF p, q
<1>3. Sound({Use(At(q, s), p)}, {s}, c)
  BY <1>1, SoundOne
<1>4. Use(At(q, s), p).key.poly = q
  BY UseIs, AtIs
<1> QED
  BY <1>2, <1>3, <1>4 DEF Of, q

\* The second phase takes the claim the first one left.
LEMMA AddressGiven ==
    ASSUME NEW c \in Configs, NEW kind \in AdviceKinds, NEW layout \in Layouts, NEW acc, NEW T,
           MidClaim(kind) \in T, NEW params, params.layout = layout,
           params.challenges = AdviceKept(c, kind, layout), NEW b, b = 9, NEW max, max = LogKChunk
    PROVE  /\ Given(AddressPhase(acc, c, kind, params, layout), b, max, T, {AddressFinal(c, kind, layout)}, c)
           /\ AddressPhase(acc, c, kind, params, layout).rounds \in 0 .. max
<1> DEFINE x == AddressPhase(acc, c, kind, params, layout)
           r == AddressSlice(c, kind, layout)
           n == AddressPhaseRounds(c, kind, layout)
           k == AdviceFinal(kind)
           p == AddressPhasePoint(layout, AdviceKept(c, kind, layout), r)
           d == Bound(params.order, params.challenges \o r)
           U == {AddressFinal(c, kind, layout)}
<1>1. x.rounds = n /\ x.uses = {MidClaim(kind)} /\ x.offset = [m \in Nat |-> 0]
  BY DEF AddressPhase, Instance, MidClaim
<1>2. r \in Points
  BY AddressSliceIs
<1>3. x.prover[r] = AddressPhaseProver(kind, params, layout, r) /\ x.verifier[r] = AddressPhaseVerifier(kind, params, layout, r)
  <2> HIDE DEF r
  <2> QED
    BY <1>2 DEF AddressPhase, Instance
<1>4. n \in 0 .. max /\ max \in Nat
  BY CycleSizes, Sizes8
<1>5. Slice(x, Challenges(b, max)) = r
  <2>1. Len(Challenges(b, max)) = max
    BY <1>4, ChallengesPoint
  <2>2. x.offset[max] = 0
    BY <1>1, <1>4
  <2>3. r = SubSeq(Challenges(b, max), 1, n)
    BY DEF AddressSlice
  <2> HIDE DEF x, r, n
  <2> QED
    BY <1>1, <1>4, <2>1, <2>2, <2>3 DEF Slice
<1>6. x.prover[r] = <<Opened(k, p, d)>> /\ x.verifier[r] = <<Expect(k, p)>>
  BY <1>3 DEF AddressPhaseProver, AddressPhaseVerifier
<1>7. U = {Use(k, p)}
  BY DEF AddressFinal
<1>8. Sound(U, {"AdviceClaimReduction"}, c)
  BY AddressSound
<1> HIDE DEF x, r, k, p, d, U, n
<1>9. Says(<<Opened(k, p, d)>>, {Use(k, p)}) /\ Says(<<Expect(k, p)>>, {Use(k, p)})
  BY LeavesOne
<1>10. Leaves(x, Slice(x, Challenges(b, max)), U)
  BY <1>5, <1>6, <1>7, <1>9 DEF Leaves
<1> QED
  BY <1>1, <1>4, <1>8, <1>10 DEF Given, x, U

\* The claims of the instance that is always there.
Group7(c) == <<UnifiedClaims(c)>>

\* The claims of stage 7.
Stage7Claims(c, layout) == All(Group7(c), 1) \cup All(AddressGroup(c, layout), AddressCount(c, layout))

\* What is known after stage 7.
K7(c, layout) == K6(c, layout) \cup Stage7Claims(c, layout)

\* The claims of stage 7 have keys of their own.
New7(c, layout) ==
    /\ Apart(K6(c, layout), UnifiedClaims(c))
    /\ \A i \in 1 .. AddressCount(c, layout) :
          Apart(K6(c, layout), AddressGroup(c, layout)[i]) /\ Apart(UnifiedClaims(c), AddressGroup(c, layout)[i])
    /\ \A i, j \in 1 .. AddressCount(c, layout) :
          i # j => Apart(AddressGroup(c, layout)[i], AddressGroup(c, layout)[j])

\* A list of one set.
LEMMA Group7Is ==
    ASSUME NEW c
    PROVE  PlacesOf(Group7(c), 1) /\ Group7(c)[1] = UnifiedClaims(c) /\ All(Group7(c), 1) = UnifiedClaims(c)
<1> DEFINE g == Group7(c)
           U == UnifiedClaims(c)
<1>1. g = [i \in 1 .. 1 |-> g[i]] /\ g[1] = U
  BY DEF Group7
<1> HIDE DEF g, U
<1>2. 1 .. 1 = {1}
  OBVIOUS
<1>3. All(g, 1) = U
  BY <1>1, <1>2 DEF All
<1> QED
  BY <1>1, <1>3 DEF PlacesOf, g, U

\* The claims of the second phase, place by place.
LEMMA AddressGroupIs ==
    ASSUME NEW c \in Configs, NEW layout
    PROVE  /\ PlacesOf(AddressGroup(c, layout), AddressCount(c, layout))
           /\ \A i \in 1 .. AddressCount(c, layout) :
                 AddressGroup(c, layout)[i] = {AddressFinal(c, AddressOrder(c, layout)[i], layout)}
<1> DEFINE g == AddressGroup(c, layout)
           s == AddressOrder(c, layout)
           n == AddressCount(c, layout)
           o(i) == {AddressFinal(c, s[i], layout)}
<1>1. g = [i \in 1 .. n |-> o(i)]
  BY AddressOrderIs DEF AddressGroup
<1> HIDE DEF g, o
<1>2. PlacesOf(g, n) /\ \A i \in 1 .. n : g[i] = o(i)
  BY <1>1 DEF PlacesOf
<1> QED
  BY <1>2 DEF g, o

\* The second phase of one kind and the first phase of another have no key in common.
LEMMA CycleGroupApart ==
    ASSUME NEW c \in Configs, NEW layout \in Layouts, NEW k \in AdviceKinds, HasAddress(c, k, layout),
           NEW l \in AdviceKinds
    PROVE  Apart(CycleClaims(c, l, layout), {AddressFinal(c, k, layout)})
<1> DEFINE U == {AddressFinal(c, k, layout)}
<1>1. CASE k = l
  <2> DEFINE m == AddressPhaseRounds(c, l, layout)
             V == {MidClaim(l)}
             N == {"AdviceClaimReductionCyclePhase"}
             M == {"AdviceClaimReduction"}
  <2>1. m > 0 /\ m \in Nat
    BY <1>1, CycleSizes DEF HasAddress
  <2>2. m # 0
    BY <2>1
  <2>3. CycleClaims(c, l, layout) = V
    BY <2>2 DEF CycleClaims
  <2>4. MidClaim(l).key.sumcheck = "AdviceClaimReductionCyclePhase"
    BY UseIs, AtIs DEF MidClaim, CMid, AdviceAt
  <2>5. Named(V, N)
    BY <2>4 DEF Named
  <2>6. Named(U, M)
    BY AddressSound DEF Named, Sound
  <2>7. N \cap M = {}
    OBVIOUS
  <2> HIDE DEF U, V, N, M, m
  <2>8. Apart(V, U)
    BY <2>5, <2>6, <2>7, NamedApart
  <2> QED
    BY <2>3, <2>8 DEF U
<1>2. CASE k # l
  <2> DEFINE P == {Advice(l)}
             Q == {Advice(k)}
             V == CycleClaims(c, l, layout)
  <2>1. Of(V, P)
    BY CycleSound
  <2>2. Of(U, Q)
    BY AddressSound
  <2>3. P \cap Q = {}
    BY <1>2, KindsApart
  <2> HIDE DEF U, V, P, Q
  <2>4. Apart(V, U)
    BY <2>1, <2>2, <2>3, OtherPolys
  <2> QED
    BY <2>4 DEF U, V
<1> QED
  BY <1>1, <1>2

\* Sets that each have keys of their own.
LEMMA AllApart ==
    ASSUME NEW S, NEW n, NEW U, \A i \in 1 .. n : Apart(S[i], U)
    PROVE  Apart(All(S, n), U)
  BY DEF All, Apart

\* The claims of the second phase are new.
LEMMA AddressApart ==
    ASSUME NEW c \in Configs, NEW layout \in Layouts, NEW k \in AdviceKinds, HasAddress(c, k, layout)
    PROVE  Apart(K6(c, layout), {AddressFinal(c, k, layout)})
<1> DEFINE U == {AddressFinal(c, k, layout)}
           T == K5(c)
           g == Group6(c)
           h == CycleGroup(c, layout)
           n == CycleCount(c)
           M == {"AdviceClaimReduction"}
<1>1. Sound(U, M, c)
  BY AddressSound
<1>2. Sound(T, Names5, c)
  BY K5Sound
<1>3. Names5 \cap M = {}
  BY DEF Names5, Names4, Names3, Names2
<1>4. \A i \in 1 .. 6 : Sound(g[i], {GroupNames6[i]}, c) /\ {GroupNames6[i]} \cap M = {}
  BY Group6Sound, GroupNamesDiffer DEF CycleNames
<1>5. \A i \in 1 .. n : Apart(h[i], U)
  <2> HIDE DEF U
  <2>1. ASSUME NEW i \in 1 .. n PROVE Apart(h[i], U)
    <3> DEFINE l == AdviceOrder(c)[i]
    <3>1. l \in AdviceKinds /\ h[i] = CycleClaims(c, l, layout)
      BY OrderKinds, CycleGroupIs
    <3> HIDE DEF l, h
    <3> QED
      BY <3>1, CycleGroupApart DEF U
  <2> QED
    BY <2>1
<1> HIDE DEF U, T, g, h, n, M
<1>6. Apart(T, U)
  BY <1>1, <1>2, <1>3, OtherSumchecks
<1>7. \A i \in 1 .. 6 : Apart(g[i], U)
  BY <1>1, <1>4, OtherSumchecks
<1>8. Apart(All(g, 6), U) /\ Apart(All(h, n), U)
  BY <1>5, <1>7, AllApart
<1>9. K6(c, layout) = T \cup (All(g, 6) \cup All(h, n))
  BY DEF K6, Stage6Claims, T, g, h, n
<1>10. Apart(T \cup (All(g, 6) \cup All(h, n)), U)
  BY <1>6, <1>8 DEF Apart
<1> QED
  BY <1>9, <1>10 DEF U

\* So are all claims of stage 7.
LEMMA New7Is ==
    ASSUME NEW c \in Configs, NEW layout \in Layouts
    PROVE  New7(c, layout)
<1> DEFINE T == K6(c, layout)
           W == UnifiedClaims(c)
           h == AddressGroup(c, layout)
           n == AddressCount(c, layout)
           s == AddressOrder(c, layout)
           N == {"HammingWeightClaimReduction"}
           M == {"AdviceClaimReduction"}
<1>1. Sound(T, Names6, c)
  BY K6Sound
<1>2. Sound(W, N, c)
  <2> DEFINE polys == RaPolynomials(c)
             p == UnifiedPt(c)
             a == "HammingWeightClaimReduction"
  <2>1. p \in Points /\ Range(polys) \subseteq Polynomials(c)
    BY UnifiedPtIs, PolynomialsHave
  <2> HIDE DEF polys, p, a
  <2>2. Sound(EachOf(polys, a, p), {a}, c)
    BY <2>1, SoundEach
  <2> QED
    BY <2>2 DEF UnifiedClaims, polys, p, a
<1>3. Names6 \cap N = {} /\ N \cap M = {}
  BY DEF Names6, CycleNames, Names5, Names4, Names3, Names2
<1>4. \A i \in 1 .. n : s[i] \in AdviceKinds /\ HasAddress(c, s[i], layout) /\ h[i] = {AddressFinal(c, s[i], layout)}
  BY AddressOrderIs, AddressGroupIs
<1>5. \A i, j \in 1 .. n : s[i] = s[j] => i = j
  BY AddressOrderIs
<1> HIDE DEF T, W, h, n, s, N
<1>6. \A i \in 1 .. n : Sound(h[i], M, c) /\ Of(h[i], {Advice(s[i])}) /\ Apart(T, h[i])
  <2>1. ASSUME NEW i \in 1 .. n PROVE Sound(h[i], M, c) /\ Of(h[i], {Advice(s[i])}) /\ Apart(T, h[i])
    <3> DEFINE k == s[i]
    <3>1. k \in AdviceKinds /\ HasAddress(c, k, layout) /\ h[i] = {AddressFinal(c, k, layout)}
      BY <1>4
    <3> HIDE DEF k
    <3>2. Sound({AddressFinal(c, k, layout)}, M, c) /\ Of({AddressFinal(c, k, layout)}, {Advice(k)})
      BY <3>1, AddressSound
    <3>3. Apart(T, {AddressFinal(c, k, layout)})
      BY <3>1, AddressApart DEF T
    <3> QED
      BY <3>1, <3>2, <3>3 DEF k
  <2> QED
    BY <2>1
<1> HIDE DEF M
<1>7. Apart(T, W)
  BY <1>1, <1>2, <1>3, OtherSumchecks
<1>8. \A i \in 1 .. n : Apart(W, h[i])
  BY <1>2, <1>3, <1>6, OtherSumchecks
<1>9. ASSUME NEW i \in 1 .. n, NEW j \in 1 .. n, i # j PROVE Apart(h[i], h[j])
  <2>1. Advice(s[i]) # Advice(s[j])
    BY <1>4, <1>5, <1>9, KindsApart
  <2> DEFINE P == {Advice(s[i])}
             Q == {Advice(s[j])}
  <2>2. Of(h[i], P) /\ Of(h[j], Q) /\ P \cap Q = {}
    BY <1>6, <2>1
  <2> HIDE DEF P, Q
  <2> QED
    BY <2>2, OtherPolys
<1> QED
  BY <1>6, <1>7, <1>8, <1>9 DEF New7, T, W, h, n

\* Stage 6 has left what stage 7 asks for.
LEMMA OneHotsKnown ==
    ASSUME NEW c \in Configs, NEW layout \in Layouts
    PROVE  OneHots(K6(c, layout), c) /\ \A k \in Range(KindsOf(c)) : MidClaim(k) \in K6(c, layout)
<1> DEFINE g == Group6(c)
           h == CycleGroup(c, layout)
           n == CycleCount(c)
           T == K6(c, layout)
<1>1. /\ g[1] = BytecodeClaims(c) /\ g[2] = BooleanityClaims(c) /\ g[3] = HammingClaims(c)
      /\ g[4] = RamRaClaims(c) /\ g[5] = InstructionRaClaims(c)
  BY Group6Is
<1>2. All(g, 6) \subseteq T /\ All(h, n) \subseteq T
  BY DEF K6, Stage6Claims
<1>3. ASSUME NEW k \in Range(KindsOf(c)) PROVE MidClaim(k) \in All(h, n)
  <2>1. PICK i \in 1 .. n : AdviceOrder(c)[i] = k
    BY OrderKinds
  <2>2. h[i] = CycleClaims(c, k, layout)
    BY <2>1, CycleGroupIs
  <2>3. MidClaim(k) \in CycleClaims(c, k, layout)
    BY DEF CycleClaims
  <2> HIDE DEF h, n
  <2> QED
    BY <2>2, <2>3 DEF All
<1> HIDE DEF g, h, n, T
<1>4. \A i \in 1 .. 6 : g[i] \subseteq All(g, 6)
  BY DEF All
<1>5. 1 \in 1 .. 6 /\ 2 \in 1 .. 6 /\ 3 \in 1 .. 6 /\ 4 \in 1 .. 6 /\ 5 \in 1 .. 6
  OBVIOUS
<1>6. g[1] \subseteq T /\ g[2] \subseteq T /\ g[3] \subseteq T /\ g[4] \subseteq T /\ g[5] \subseteq T
  BY <1>2, <1>4, <1>5
<1> QED
  BY <1>1, <1>2, <1>3, <1>6 DEF OneHots, T

\* The instance that is always there.
Base7(acc, c) == <<HammingWeight(acc, c)>>

\* It finds its claims and has all rounds.
LEMMA Base7Given ==
    ASSUME NEW c \in Configs, NEW acc, NEW T, Knows(acc, T), OneHots(T, c), NEW b, b = 9, NEW max, max = LogKChunk,
           NEW one, one = 1
    PROVE  /\ PlacesOf(Base7(acc, c), one)
           /\ \A i \in 1 .. one : Given(Base7(acc, c)[i], b, max, T, Group7(c)[i], c)
                                  /\ Base7(acc, c)[i].rounds \in 0 .. max
           /\ \E i \in 1 .. one : Base7(acc, c)[i].rounds = max
           /\ Uses10(c) \subseteq Keys(BatchUses(Base7(acc, c), one))
<1> DEFINE x == HammingWeight(acc, c)
           U == UnifiedClaims(c)
           s == Base7(acc, c)
           g == Group7(c)
<1>1. Given(x, b, max, T, U, c) /\ Keys(x.uses) = Uses10(c) /\ x.rounds = max /\ max \in Nat
  BY HammingWeightGiven, Sizes8
<1>2. s = [i \in 1 .. 1 |-> s[i]] /\ s[1] = x
  BY DEF Base7
<1>3. g[1] = U
  BY Group7Is
<1>4. 1 .. one = {1}
  OBVIOUS
<1> HIDE DEF x, U, s, g
<1>5. x.uses \subseteq BatchUses(s, one)
  BY <1>2, <1>4 DEF BatchUses
<1>6. Uses10(c) \subseteq Keys(BatchUses(s, one))
  BY <1>1, <1>5 DEF Keys
<1>7. 1 \in 1 .. one
  BY <1>4
<1>8. \A i \in 1 .. one : i = 1
  BY <1>4
<1>9. \A i \in 1 .. one : Given(s[i], b, max, T, g[i], c) /\ s[i].rounds \in 0 .. max
  BY <1>1, <1>2, <1>3, <1>8
<1>10. \E i \in 1 .. one : s[i].rounds = max
  BY <1>1, <1>2, <1>7
<1>11. PlacesOf(s, one)
  BY <1>2 DEF PlacesOf
<1> QED
  BY <1>6, <1>9, <1>10, <1>11 DEF s, g

\* The batch of stage 7.
LEMMA Stage7Batch ==
    ASSUME NEW c \in Configs, NEW layout \in Layouts, NEW who \in Sides, NEW side, NEW T, T = K6(c, layout),
           SideKnows(side, T), NEW acc, acc = side.acc, NEW b, b = 9, NEW params, KeepsAdvice(params, c, layout),
           NEW extra,
           extra = [i \in DOMAIN AddressOrder(c, layout) |->
                      AddressPhase(acc, c, AddressOrder(c, layout)[i], params[AddressOrder(c, layout)[i]], layout)]
    PROVE  Went(side, Run(who, side, b, Base7(acc, c) \o extra), T, Stage7Claims(c, layout), Uses10(c))
<1> DEFINE max == LogKChunk
           s == Base7(acc, c)
           g == Group7(c)
           h == AddressGroup(c, layout)
           n == AddressCount(c, layout)
           o(i) == AddressPhase(acc, c, AddressOrder(c, layout)[i], params[AddressOrder(c, layout)[i]], layout)
           one == 1
           W == UnifiedClaims(c)
<1>1. Knows(acc, T) /\ max = LogKChunk /\ max \in Nat /\ one = 1 /\ one \in Nat
  BY Sizes8 DEF SideKnows
<1>2. OneHots(T, c) /\ \A k \in Range(KindsOf(c)) : MidClaim(k) \in T
  BY OneHotsKnown
<1>3. extra = [i \in 1 .. n |-> o(i)]
  BY AddressOrderIs
<1> HIDE DEF max, o
<1>4. n \in Nat /\ PlacesOf(extra, n) /\ \A i \in 1 .. n : extra[i] = o(i)
  BY <1>3, AddressOrderIs DEF PlacesOf
<1>5. ASSUME NEW i \in 1 .. n
      PROVE  Given(extra[i], b, max, T, h[i], c) /\ extra[i].rounds \in 0 .. max
  <2> DEFINE k == AddressOrder(c, layout)[i]
             q == params[k]
  <2>1. HasAddress(c, k, layout) /\ k \in AdviceKinds
    BY AddressOrderIs
  <2>2. k \in Range(KindsOf(c))
    BY <2>1 DEF HasAddress
  <2>3. q.layout = layout /\ q.challenges = AdviceKept(c, k, layout)
    BY <2>2 DEF KeepsAdvice
  <2>4. extra[i] = AddressPhase(acc, c, k, q, layout)
    BY <1>4 DEF o
  <2>5. h[i] = {AddressFinal(c, k, layout)}
    BY AddressGroupIs
  <2>6. MidClaim(k) \in T
    BY <1>2, <2>2
  <2> HIDE DEF k, q, h
  <2>7. Given(AddressPhase(acc, c, k, q, layout), b, max, T, {AddressFinal(c, k, layout)}, c)
        /\ AddressPhase(acc, c, k, q, layout).rounds \in 0 .. max
    BY <1>1, <2>1, <2>3, <2>6, AddressGiven
  <2> QED
    BY <2>4, <2>5, <2>7
<1>6. /\ \A i \in 1 .. one : Given(s[i], b, max, T, g[i], c) /\ s[i].rounds \in 0 .. max
      /\ \E i \in 1 .. one : s[i].rounds = max
      /\ Uses10(c) \subseteq Keys(BatchUses(s, one))
      /\ PlacesOf(s, one)
  BY <1>1, <1>2, Base7Given
<1>7. PlacesOf(g, one) /\ PlacesOf(h, n) /\ g[1] = W
  BY Group7Is, AddressGroupIs
<1>8. /\ Apart(T, W) /\ \A i \in 1 .. n : Apart(T, h[i]) /\ Apart(W, h[i])
      /\ \A i, j \in 1 .. n : i # j => Apart(h[i], h[j])
  BY New7Is DEF New7
<1>9. \A i \in 1 .. one : i = 1
  OBVIOUS
<1> HIDE DEF s, g, h, n, one, W
<1>10. /\ \A i \in 1 .. one : Apart(T, g[i])
       /\ \A i, j \in 1 .. one : i # j => Apart(g[i], g[j])
       /\ \A i \in 1 .. one : \A j \in 1 .. n : Apart(g[i], h[j])
  BY <1>7, <1>8, <1>9
<1>11. HalfGivens(T, b, one, s, max, g, c)
  BY <1>1, <1>6, <1>7, <1>10 DEF HalfGivens
<1>12. HalfGivens(T, b, n, extra, max, h, c)
  BY <1>4, <1>5, <1>7, <1>8 DEF HalfGivens
<1>13. JoinGivens(T, b, max, one, s, g, n, extra, h, c)
  BY <1>1, <1>6, <1>10, <1>11, <1>12 DEF JoinGivens
<1> DEFINE Q == Uses10(c)
<1>14. Q \subseteq Keys(BatchUses(s, one))
  BY <1>6
<1> HIDE DEF Q
<1>15. JoinReady(who, side, T, b, max, one, s, g, n, extra, h, c, Q)
  BY <1>13, <1>14 DEF JoinReady
<1>16. JoinRan(who, side, T, b, max, one, s, g, n, extra, h, Q)
  BY <1>15, JoinWent, Zenon
<1>17. Went(side, Run(who, side, b, s \o extra), T, All(g, one) \cup All(h, n), Q)
  BY <1>16 DEF JoinRan
<1> QED
  BY <1>17, Zenon DEF Stage7Claims, s, g, h, n, one, Q

\* After stage 7 a side knows its claims and has used those it needs.
LEMMA Stage7Knows ==
    ASSUME NEW c \in Configs, NEW layout \in Layouts, NEW who \in Sides, NEW side, NEW T, T = K6(c, layout),
           SideKnows(side, T), KeepsAdvice(side.advice, c, layout)
    PROVE  Went(side, Stage7(who, side, c, layout), T, Stage7Claims(c, layout), Uses10(c))
<1> DEFINE kinds == AddressOrder(c, layout)
           acc == side.acc
           params == side.advice
           b == 9
           extra == [i \in DOMAIN kinds |-> AddressPhase(acc, c, kinds[i], params[kinds[i]], layout)]
<1>1. AddressKinds(c, side.advice) = kinds
  BY AddressKindsAre
<1>2. Stage7(who, side, c, layout) = Run(who, side, b, Base7(acc, c) \o extra)
  BY <1>1 DEF Stage7, Base7
<1>3. /\ b = 9 /\ acc = side.acc /\ KeepsAdvice(params, c, layout)
      /\ extra = [i \in DOMAIN AddressOrder(c, layout) |->
                    AddressPhase(acc, c, AddressOrder(c, layout)[i], params[AddressOrder(c, layout)[i]], layout)]
  OBVIOUS
<1> HIDE DEF acc, params, b, extra
<1>4. Went(side, Run(who, side, b, Base7(acc, c) \o extra), T, Stage7Claims(c, layout), Uses10(c))
  BY <1>3, Stage7Batch
<1> QED
  BY <1>2, <1>4

\* The keys whose claims have been used by the end of a stage.
Used1 == Keys(SkipClaims)
Used2 == Used1 \cup Uses3 \cup Uses4
Used3 == Used2 \cup Uses5
Used4(c) == Used3 \cup Uses6 \cup Uses7(c)
Used5(c) == Used4(c) \cup UsesOf5
Used6(c) == Used5(c) \cup UsesOf6
Used7(c) == Used6(c) \cup Uses10(c)

\* The keys of the one-hot polynomials that are opened.
OpenedHots(c) == IdsAt(Range(RaPolynomials(c)), "HammingWeightClaimReduction")

\* Those of the increments.
OpenedIncs == {RamInc("IncClaimReduction"), RdInc("IncClaimReduction")}

\* Those of the advice.
Finals == {AdviceFinal(kind) : kind \in AdviceKinds}

\* All keys that have been used, are opened or are sums left in the middle.
Settled(c) == Used7(c) \cup OpenedHots(c) \cup OpenedIncs \cup Finals \cup CMids

\* The keys of a list of claims, one by one.
LEMMA EachCovered ==
    ASSUME NEW polys, NEW s, NEW p, NEW S, \A q \in Range(polys) : At(q, s) \in S
    PROVE  Keys(EachOf(polys, s, p)) \subseteq S
<1>1. Keys(EachOf(polys, s, p)) = IdsAt(Range(polys), s)
  BY KeysAre DEF EachOf
<1> QED
  BY <1>1 DEF IdsAt

\* The keys of a list of claims.
LEMMA EachKeys == \A polys, s, p : Keys(EachOf(polys, s, p)) = IdsAt(Range(polys), s)
  BY KeysAre DEF EachOf

\* The parts of the settled keys.
LEMMA UsesHave ==
    ASSUME NEW c, NEW S, S = Settled(c)
    PROVE  /\ Used1 \subseteq S /\ Uses3 \subseteq S /\ Uses4 \subseteq S /\ Uses5 \subseteq S
           /\ Uses6 \subseteq S /\ Uses7(c) \subseteq S /\ UsesOf5 \subseteq S /\ Uses8 \subseteq S
           /\ Uses9 \subseteq S /\ CodeUses \subseteq S /\ RamRaUses \subseteq S /\ IndexUses \subseteq S
           /\ Incs \subseteq S /\ BooleanityUses(c) \subseteq S /\ VirtualUses(c) \subseteq S /\ RamWeight \in S
           /\ OpenedHots(c) \subseteq S /\ OpenedIncs \subseteq S /\ Finals \subseteq S /\ CMids \subseteq S
           /\ ShiftUses1 \subseteq S /\ InputUses \subseteq S /\ ValueUses \subseteq S
           /\ Product("NextIsNoop") \in S /\ RegRW("RegistersVal") \in S
<1>1. /\ Used7(c) \subseteq S /\ OpenedHots(c) \subseteq S /\ OpenedIncs \subseteq S /\ Finals \subseteq S
      /\ CMids \subseteq S
  BY DEF Settled
<1>2. Used6(c) \subseteq S /\ Uses10(c) \subseteq S
  BY <1>1 DEF Used7
<1>3. Used5(c) \subseteq S /\ UsesOf6 \subseteq S
  BY <1>2 DEF Used6
<1>4. Used4(c) \subseteq S /\ UsesOf5 \subseteq S
  BY <1>3 DEF Used5
<1>5. Used3 \subseteq S /\ Uses6 \subseteq S /\ Uses7(c) \subseteq S
  BY <1>4 DEF Used4
<1>6. Used2 \subseteq S /\ Uses5 \subseteq S
  BY <1>5 DEF Used3
<1>7. Used1 \subseteq S /\ Uses3 \subseteq S /\ Uses4 \subseteq S
  BY <1>6 DEF Used2
<1>8. ShiftUses1 \subseteq S /\ InputUses \subseteq S /\ ValueUses \subseteq S /\ Product("NextIsNoop") \in S
  BY <1>6 DEF Uses5
<1>9. Uses8 \subseteq S /\ Uses9 \subseteq S /\ RegRW("RegistersVal") \in S
  BY <1>4 DEF UsesOf5
<1>10. CodeUses \subseteq S /\ RamRaUses \subseteq S /\ IndexUses \subseteq S /\ Incs \subseteq S
  BY <1>3 DEF UsesOf6
<1>11. BooleanityUses(c) \subseteq S /\ VirtualUses(c) \subseteq S /\ RamWeight \in S
  BY <1>2 DEF Uses10
<1> QED
  BY <1>1, <1>4, <1>5, <1>6, <1>7, <1>8, <1>9, <1>10, <1>11

\* The groups of the bytecode's claims.
LEMMA CodesHave ==
    ASSUME NEW S, CodeUses \subseteq S
    PROVE  /\ Code1 \subseteq S /\ Code2 \subseteq S /\ Code3 \subseteq S /\ Code4 \subseteq S
           /\ Code5 \subseteq S /\ Code6 \subseteq S
  BY DEF CodeUses

\* The claims of stage 1 are settled.
LEMMA Settled1 ==
    ASSUME NEW c \in Configs, NEW S, S = Settled(c)
    PROVE  Keys(SkipClaims) \subseteq S /\ Keys(OuterClaims(c)) \subseteq S
<1>1. /\ Used1 \subseteq S /\ Uses3 \subseteq S /\ Uses4 \subseteq S /\ ValueUses \subseteq S /\ ShiftUses1 \subseteq S
      /\ CodeUses \subseteq S
  BY UsesHave
<1>2. Code1 \subseteq S
  BY <1>1, CodesHave
<1>3. ASSUME NEW q \in Range(R1CSInputs) PROVE At(q, "SpartanOuter") \in S
  <2>1. CASE q \in CircuitFlags
    BY <1>2, <2>1 DEF Code1, OuterOf
  <2>2. CASE \E n \in VirtualInputs : q = Virt(n)
    <3>1. PICK n \in VirtualInputs : q = Virt(n)
      BY <2>2
    <3>2. At(q, "SpartanOuter") = Outer(n)
      BY <3>1 DEF Outer
    <3>3. /\ Outer("LeftInstructionInput") \in S /\ Outer("RightInstructionInput") \in S
          /\ Outer("RamAddress") \in S /\ Outer("RamReadValue") \in S /\ Outer("RamWriteValue") \in S
          /\ Outer("LeftLookupOperand") \in S /\ Outer("RightLookupOperand") \in S /\ Outer("LookupOutput") \in S
      BY <1>1 DEF Uses4
    <3>4. Outer("Product") \in S /\ Outer("ShouldBranch") \in S /\ Outer("ShouldJump") \in S
      BY <1>1 DEF Uses3
    <3>5. Outer("PC") \in S /\ Outer("UnexpandedPC") \in S /\ Outer("Imm") \in S
      BY <1>2 DEF Code1
    <3>6. Outer("Rs1Value") \in S /\ Outer("Rs2Value") \in S /\ Outer("RdWriteValue") \in S
      BY <1>1 DEF ValueUses
    <3>7. /\ Outer("NextUnexpandedPC") \in S /\ Outer("NextPC") \in S /\ Outer("NextIsVirtual") \in S
          /\ Outer("NextIsFirstInSequence") \in S
      BY <1>1 DEF ShiftUses1
    <3> QED
      BY <3>1, <3>2, <3>3, <3>4, <3>5, <3>6, <3>7 DEF VirtualInputs
  <2> QED
    BY <2>1, <2>2, InputsAre
<1>4. Keys(OuterClaims(c)) \subseteq S
  BY <1>3, EachCovered DEF OuterClaims
<1> QED
  BY <1>1, <1>4 DEF Used1

\* So are those of stage 2.
LEMMA Settled2 ==
    ASSUME NEW c \in Configs, NEW S, S = Settled(c)
    PROVE  /\ Keys(ProductSkipClaims) \subseteq S /\ Keys(RamClaims(c)) \subseteq S
           /\ Keys(ProductClaims(c)) \subseteq S /\ Keys(LookupClaims(c)) \subseteq S
           /\ Keys(RafClaims(c)) \subseteq S /\ Keys(OutputClaims(c)) \subseteq S
<1>1. /\ Uses4 \subseteq S /\ Uses7(c) \subseteq S /\ Uses8 \subseteq S /\ Uses9 \subseteq S /\ Incs \subseteq S
      /\ InputUses \subseteq S /\ CodeUses \subseteq S /\ Product("NextIsNoop") \in S
  BY UsesHave
<1>2. Code2 \subseteq S
  BY <1>1, CodesHave
<1>3. Keys(ProductSkipClaims) \subseteq S
  <2>1. Product("UnivariateSkip") \in S
    BY <1>1 DEF Uses4
  <2> QED
    BY <2>1, KeysAre DEF ProductSkipClaims
<1>4. Keys(RamClaims(c)) \subseteq S
  <2>1. RamRW("RamVal") \in S /\ RamRa("RamReadWriteChecking") \in S /\ RamInc("RamReadWriteChecking") \in S
    BY <1>1 DEF Uses7, Uses9, Incs
  <2>2. RamRW("RamRa") = RamRa("RamReadWriteChecking")
    BY DEF RamRW, RamRa
  <2>3. \A k \in Keys(RamClaims(c)) : k \in {RamRW("RamVal"), RamRW("RamRa"), RamInc("RamReadWriteChecking")}
    BY UseIs DEF RamClaims, Keys
  <2> QED
    BY <2>1, <2>2, <2>3
<1>5. Keys(RafClaims(c)) \subseteq S
  <2>1. RamRa("RamRafEvaluation") \in S
    BY <1>1 DEF Uses9
  <2> QED
    BY <2>1, KeysAre DEF RafClaims
<1>6. Keys(OutputClaims(c)) \subseteq S
  <2>1. RamFinal \in S
    BY <1>1 DEF Uses7
  <2> QED
    BY <2>1, KeysAre DEF OutputClaims, RamFinal
<1>7. Keys(ProductClaims(c)) \subseteq S
  <2> DEFINE s == "SpartanProductVirtualization"
  <2>1. /\ At(Virt("LeftInstructionInput"), s) \in S /\ At(Virt("RightInstructionInput"), s) \in S
    BY <1>1 DEF InputUses, Product
  <2>2. /\ At(OpFlag("Jump"), s) \in S /\ At(OpFlag("WriteLookupOutputToRD"), s) \in S
        /\ At(InstrFlag("Branch"), s) \in S /\ At(OpFlag("VirtualInstruction"), s) \in S
    BY <1>2 DEF Code2, ProductOf
  <2>3. At(Virt("LookupOutput"), s) \in S
    BY <1>1 DEF Uses8, Product
  <2>4. At(Virt("NextIsNoop"), s) \in S
    BY <1>1 DEF Product
  <2>5. \A q \in Range(ProductFactors) : At(q, s) \in S
    BY <2>1, <2>2, <2>3, <2>4, FactorsAre
  <2> HIDE DEF s
  <2> QED
    BY <2>5, EachCovered DEF ProductClaims, s
<1>8. Keys(LookupClaims(c)) \subseteq S
  <2> DEFINE s == "InstructionClaimReduction"
  <2>1. /\ At(Virt("LookupOutput"), s) \in S /\ At(Virt("LeftLookupOperand"), s) \in S
        /\ At(Virt("RightLookupOperand"), s) \in S
    BY <1>1 DEF Uses8, InstrRed
  <2>2. At(Virt("LeftInstructionInput"), s) \in S /\ At(Virt("RightInstructionInput"), s) \in S
    BY <1>1 DEF InputUses, InstrRed
  <2>3. \A q \in Range(LookupPolys) : At(q, s) \in S
    BY <2>1, <2>2, ListRanges
  <2> HIDE DEF s
  <2> QED
    BY <2>3, EachCovered DEF LookupClaims, s
<1> QED
  BY <1>3, <1>4, <1>5, <1>6, <1>7, <1>8

\* Those of stage 3.
LEMMA Settled3 ==
    ASSUME NEW c \in Configs, NEW S, S = Settled(c)
    PROVE  /\ Keys(ShiftClaims(c)) \subseteq S /\ Keys(OperandClaims(c)) \subseteq S
           /\ Keys(ValueClaims(c)) \subseteq S
<1>1. Uses6 \subseteq S /\ CodeUses \subseteq S
  BY UsesHave
<1>2. Code3 \subseteq S
  BY <1>1, CodesHave
<1>3. Keys(ShiftClaims(c)) \subseteq S
  <2> DEFINE s == "SpartanShift"
  <2>1. /\ At(Virt("UnexpandedPC"), s) \in S /\ At(Virt("PC"), s) \in S /\ At(OpFlag("VirtualInstruction"), s) \in S
        /\ At(OpFlag("IsFirstInSequence"), s) \in S /\ At(InstrFlag("IsNoop"), s) \in S
    BY <1>2 DEF Code3, ShiftOf
  <2>2. \A q \in Range(ShiftPolys) : At(q, s) \in S
    BY <2>1, ListRanges
  <2> HIDE DEF s
  <2> QED
    BY <2>2, EachCovered DEF ShiftClaims, s
<1>4. Keys(OperandClaims(c)) \subseteq S
  <2> DEFINE s == "InstructionInputVirtualization"
  <2>1. At(Virt("Imm"), s) \in S /\ At(Virt("UnexpandedPC"), s) \in S
    BY <1>2 DEF Code3, InstrInput
  <2>2. At(Virt("Rs1Value"), s) \in S /\ At(Virt("Rs2Value"), s) \in S
    BY <1>1 DEF Uses6, InstrInput
  <2>3. /\ At(InstrFlag("LeftOperandIsRs1Value"), s) \in S /\ At(InstrFlag("LeftOperandIsPC"), s) \in S
        /\ At(InstrFlag("RightOperandIsRs2Value"), s) \in S /\ At(InstrFlag("RightOperandIsImm"), s) \in S
    BY <1>2 DEF Code3, InputOf
  <2>4. \A q \in Range(InputPolys) : At(q, s) \in S
    BY <2>1, <2>2, <2>3, ListRanges
  <2> HIDE DEF s
  <2> QED
    BY <2>4, EachCovered DEF OperandClaims, s
<1>5. Keys(ValueClaims(c)) \subseteq S
  <2> DEFINE s == "RegistersClaimReduction"
  <2>1. At(Virt("RdWriteValue"), s) \in S /\ At(Virt("Rs1Value"), s) \in S /\ At(Virt("Rs2Value"), s) \in S
    BY <1>1 DEF Uses6, RegRed
  <2>2. \A q \in Range(ValuePolys) : At(q, s) \in S
    BY <2>1, ListRanges
  <2> HIDE DEF s
  <2> QED
    BY <2>2, EachCovered DEF ValueClaims, s
<1> QED
  BY <1>3, <1>4, <1>5

\* Those of stage 4.
LEMMA Settled4 ==
    ASSUME NEW c \in Configs, NEW S, S = Settled(c)
    PROVE  /\ Keys(AdviceClaims(c)) \subseteq S /\ Keys(RegisterClaims(c)) \subseteq S
           /\ Keys(RamValClaims(c)) \subseteq S
<1>1. /\ Uses7(c) \subseteq S /\ Uses9 \subseteq S /\ Incs \subseteq S /\ CodeUses \subseteq S
      /\ RegRW("RegistersVal") \in S
  BY UsesHave
<1>2. Code4 \subseteq S
  BY <1>1, CodesHave
<1>3. Keys(AdviceClaims(c)) \subseteq S
  <2>1. \A kind \in Range(KindsOf(c)) : AdviceAt(kind, "RamValCheck") \in S
    BY <1>1 DEF Uses7
  <2>2. \A k, p : Use(k, p).key = k
    BY UseIs
  <2> HIDE DEF Use
  <2> QED
    BY <2>1, <2>2 DEF AdviceClaims, Keys
<1>4. Keys(RegisterClaims(c)) \subseteq S
  <2>1. /\ RegRW("RegistersVal") \in S /\ RegRW("Rs1Ra") \in S /\ RegRW("Rs2Ra") \in S /\ RegRW("RdWa") \in S
    BY <1>1, <1>2 DEF Code4
  <2>2. RdInc("RegistersReadWriteChecking") \in S
    BY <1>1 DEF Incs
  <2>3. \A k \in Keys(RegisterClaims(c)) :
           k \in {RegRW("RegistersVal"), RegRW("Rs1Ra"), RegRW("Rs2Ra"), RegRW("RdWa"),
                  RdInc("RegistersReadWriteChecking")}
    BY UseIs DEF RegisterClaims, Keys
  <2> QED
    BY <2>1, <2>2, <2>3
<1>5. Keys(RamValClaims(c)) \subseteq S
  <2>1. RamRa("RamValCheck") \in S /\ RamInc("RamValCheck") \in S
    BY <1>1 DEF Uses9, Incs
  <2>2. \A k \in Keys(RamValClaims(c)) : k \in {RamRa("RamValCheck"), RamInc("RamValCheck")}
    BY UseIs DEF RamValClaims, Keys
  <2> QED
    BY <2>1, <2>2
<1> QED
  BY <1>3, <1>4, <1>5

\* Those of stage 5.
LEMMA Settled5 ==
    ASSUME NEW c \in Configs, NEW S, S = Settled(c)
    PROVE  /\ Keys(LookupIndexClaims(c)) \subseteq S /\ Keys(RaReductionClaims(c)) \subseteq S
           /\ Keys(RegisterValClaims(c)) \subseteq S
<1>1. RamRaUses \subseteq S /\ IndexUses \subseteq S /\ Incs \subseteq S /\ CodeUses \subseteq S
  BY UsesHave
<1>2. Code5 \subseteq S /\ Code6 \subseteq S
  BY <1>1, CodesHave
<1>3. Keys(LookupIndexClaims(c)) \subseteq S
  <2> DEFINE s == "InstructionReadRaf"
  <2>1. \A q \in Range(TableFlags) : At(q, s) \in S
    BY <1>2 DEF Code6, ReadRaf
  <2>2. Keys(FlagClaims(c)) \subseteq S
    <3> HIDE DEF s
    <3> QED
      BY <2>1, EachCovered DEF FlagClaims, s
  <2>3. Keys(IndexClaims(c)) \subseteq S
    <3>1. \A k \in Keys(IndexClaims(c)) : \E i \in 1 .. VirtualD : k = IndexKeys[i]
      BY PairedFacts DEF IndexClaims
    <3> QED
      BY <1>1, <3>1 DEF IndexUses
  <2>4. Keys(RafFlagClaims(c)) \subseteq S
    BY <1>2, KeysAre DEF RafFlagClaims, Code6
  <2>5. Keys(LookupIndexClaims(c)) = Keys(FlagClaims(c)) \cup Keys(IndexClaims(c)) \cup Keys(RafFlagClaims(c))
    BY KeysThree DEF LookupIndexClaims
  <2> QED
    BY <2>2, <2>3, <2>4, <2>5
<1>4. Keys(RaReductionClaims(c)) \subseteq S
  BY <1>1, KeysAre DEF RaReductionClaims, RamRaUses
<1>5. Keys(RegisterValClaims(c)) \subseteq S
  <2>1. RdWaVal \in S /\ RdInc("RegistersValEvaluation") \in S
    BY <1>1, <1>2 DEF Code5, Incs
  <2>2. \A k \in Keys(RegisterValClaims(c)) : k \in {RdWaVal, RdInc("RegistersValEvaluation")}
    BY UseIs DEF RegisterValClaims, Keys
  <2> QED
    BY <2>1, <2>2
<1> QED
  BY <1>3, <1>4, <1>5

\* The claims at an address of their own.
LEMMA ChunksCovered ==
    ASSUME NEW name, NEW s, NEW chunks, NEW n, NEW q, NEW S,
           \A i \in 1 .. n : At(CommAt(name, i), s) \in S
    PROVE  Keys(ChunkClaims(name, s, chunks, n, q)) \subseteq S
<1>1. \A k \in Keys(ChunkClaims(name, s, chunks, n, q)) : \E i \in 1 .. n : k = ChunkKeys(name, s, n)[i]
  BY PairedFacts DEF ChunkClaims
<1>2. \A i \in 1 .. n : ChunkKeys(name, s, n)[i] = At(CommAt(name, i), s)
  BY ChunkKeysAre
<1> QED
  BY <1>1, <1>2

\* The claims of stage 6 on the chunks.
LEMMA VirtualHave ==
    ASSUME NEW c \in Configs, NEW S, VirtualUses(c) \subseteq S
    PROVE  /\ \A i \in 1 .. InstructionD : At(CommAt("InstructionRa", i), "InstructionRaVirtualization") \in S
           /\ \A i \in 1 .. ChunksOf(c.bytecode_log_K) : At(CommAt("BytecodeRa", i), "BytecodeReadRaf") \in S
           /\ \A i \in 1 .. ChunksOf(c.ram_log_K) : At(CommAt("RamRa", i), "RamRaVirtualization") \in S
<1>1. \A p \in Range(RaPolynomials(c)) : VirtualOf(p) \in S
  BY DEF VirtualUses
<1>2. ASSUME NEW i \in 1 .. InstructionD PROVE At(CommAt("InstructionRa", i), "InstructionRaVirtualization") \in S
  <2>1. CommAt("InstructionRa", i) \in Range(RaPolynomials(c))
    BY RaIs
  <2>2. VirtualOf(CommAt("InstructionRa", i)) = At(CommAt("InstructionRa", i), "InstructionRaVirtualization")
    BY DEF VirtualOf, VirtualizationOf, CommAt
  <2> QED
    BY <1>1, <2>1, <2>2
<1>3. ASSUME NEW i \in 1 .. ChunksOf(c.bytecode_log_K) PROVE At(CommAt("BytecodeRa", i), "BytecodeReadRaf") \in S
  <2>1. CommAt("BytecodeRa", i) \in Range(RaPolynomials(c))
    BY RaIs
  <2>2. VirtualOf(CommAt("BytecodeRa", i)) = At(CommAt("BytecodeRa", i), "BytecodeReadRaf")
    BY DEF VirtualOf, VirtualizationOf, CommAt
  <2> QED
    BY <1>1, <2>1, <2>2
<1>4. ASSUME NEW i \in 1 .. ChunksOf(c.ram_log_K) PROVE At(CommAt("RamRa", i), "RamRaVirtualization") \in S
  <2>1. CommAt("RamRa", i) \in Range(RaPolynomials(c))
    BY RaIs
  <2>2. VirtualOf(CommAt("RamRa", i)) = At(CommAt("RamRa", i), "RamRaVirtualization")
    BY DEF VirtualOf, VirtualizationOf, CommAt
  <2> QED
    BY <1>1, <2>1, <2>2
<1> QED
  BY <1>2, <1>3, <1>4

\* The keys of several sets of claims.
LEMMA AllCovered ==
    ASSUME NEW U, NEW n, NEW S, \A i \in 1 .. n : Keys(U[i]) \subseteq S
    PROVE  Keys(All(U, n)) \subseteq S
  BY DEF Keys, All

\* The claims of stage 6 are settled.
LEMMA Settled6 ==
    ASSUME NEW c \in Configs, NEW layout \in Layouts, NEW S, S = Settled(c)
    PROVE  Keys(All(Group6(c), 6)) \subseteq S /\ Keys(All(CycleGroup(c, layout), CycleCount(c))) \subseteq S
<1> DEFINE g == Group6(c)
           h == CycleGroup(c, layout)
           n == CycleCount(c)
<1>1. /\ BooleanityUses(c) \subseteq S /\ VirtualUses(c) \subseteq S /\ RamWeight \in S /\ OpenedIncs \subseteq S
      /\ Finals \subseteq S /\ CMids \subseteq S
  BY UsesHave
<1>2. Keys(BytecodeClaims(c)) \subseteq S /\ Keys(RamRaClaims(c)) \subseteq S /\ Keys(InstructionRaClaims(c)) \subseteq S
  BY <1>1, VirtualHave, ChunksCovered DEF BytecodeClaims, RamRaClaims, InstructionRaClaims
<1>3. Keys(BooleanityClaims(c)) \subseteq S
  BY <1>1, EachKeys DEF BooleanityClaims, BooleanityUses
<1>4. Keys(HammingClaims(c)) \subseteq S
  BY <1>1, KeysAre DEF HammingClaims
<1>5. Keys(IncClaims(c)) \subseteq S
  <2> DEFINE s == "IncClaimReduction"
  <2>1. At(Comm("RamInc"), s) \in S /\ At(Comm("RdInc"), s) \in S
    BY <1>1 DEF OpenedIncs, RamInc, RdInc
  <2>2. \A q \in Range(IncPolys) : At(q, s) \in S
    BY <2>1, ListRanges
  <2> HIDE DEF s
  <2> QED
    BY <2>2, EachCovered DEF IncClaims, s
<1>6. /\ g[1] = BytecodeClaims(c) /\ g[2] = BooleanityClaims(c) /\ g[3] = HammingClaims(c)
      /\ g[4] = RamRaClaims(c) /\ g[5] = InstructionRaClaims(c) /\ g[6] = IncClaims(c)
  BY Group6Is
<1>7. \A i \in 1 .. n : Keys(h[i]) \subseteq S
  <2>1. ASSUME NEW i \in 1 .. n PROVE Keys(h[i]) \subseteq S
    <3> DEFINE k == AdviceOrder(c)[i]
    <3>1. k \in AdviceKinds /\ h[i] = CycleClaims(c, k, layout)
      BY OrderKinds, CycleGroupIs
    <3> HIDE DEF k, h
    <3>2. CMid(k) \in S /\ AdviceFinal(k) \in S
      BY <1>1, <3>1 DEF CMids, Finals
    <3>3. \A u \in CycleClaims(c, k, layout) : u.key \in {CMid(k), AdviceFinal(k)}
      BY UseIs DEF CycleClaims, MidClaim, CycleFinal
    <3> QED
      BY <3>1, <3>2, <3>3 DEF Keys
  <2> QED
    BY <2>1
<1> HIDE DEF g, h, n
<1>8. \A i \in 1 .. 6 : Keys(g[i]) \subseteq S
  BY <1>2, <1>3, <1>4, <1>5, <1>6, UptoSix
<1> QED
  BY <1>7, <1>8, AllCovered DEF g, h, n

\* So are those of stage 7.
LEMMA Settled7 ==
    ASSUME NEW c \in Configs, NEW layout \in Layouts, NEW S, S = Settled(c)
    PROVE  /\ Keys(UnifiedClaims(c)) \subseteq S
           /\ Keys(All(AddressGroup(c, layout), AddressCount(c, layout))) \subseteq S
<1> DEFINE h == AddressGroup(c, layout)
           n == AddressCount(c, layout)
<1>1. OpenedHots(c) \subseteq S /\ Finals \subseteq S
  BY UsesHave
<1>2. Keys(UnifiedClaims(c)) \subseteq S
  BY <1>1, EachKeys DEF UnifiedClaims, OpenedHots
<1>3. \A i \in 1 .. n : Keys(h[i]) \subseteq S
  <2>1. ASSUME NEW i \in 1 .. n PROVE Keys(h[i]) \subseteq S
    <3> DEFINE k == AddressOrder(c, layout)[i]
    <3>1. k \in AdviceKinds /\ h[i] = {AddressFinal(c, k, layout)}
      BY AddressOrderIs, AddressGroupIs
    <3> HIDE DEF k, h
    <3>2. AdviceFinal(k) \in S
      BY <1>1, <3>1 DEF Finals
    <3>3. Keys({AddressFinal(c, k, layout)}) = {AdviceFinal(k)}
      BY KeysAre DEF AddressFinal
    <3> QED
      BY <3>1, <3>2, <3>3
  <2> QED
    BY <2>1
<1> HIDE DEF h, n
<1> QED
  BY <1>2, <1>3, AllCovered DEF h, n

\* Every key but those of the sums left in the middle has been used or is opened.
LEMMA KeysSettled ==
    ASSUME NEW c \in Configs, NEW layout \in Layouts
    PROVE  Keys(K7(c, layout)) \subseteq Settled(c)
<1> DEFINE S == Settled(c)
           G6 == All(Group6(c), 6)
           H6 == All(CycleGroup(c, layout), CycleCount(c))
           G7 == UnifiedClaims(c)
           H7 == All(AddressGroup(c, layout), AddressCount(c, layout))
<1>1. S = Settled(c)
  OBVIOUS
<1> HIDE DEF S
<1>2. Keys(SkipClaims) \subseteq S /\ Keys(OuterClaims(c)) \subseteq S
  BY <1>1, Settled1
<1>3. /\ Keys(ProductSkipClaims) \subseteq S /\ Keys(RamClaims(c)) \subseteq S
      /\ Keys(ProductClaims(c)) \subseteq S /\ Keys(LookupClaims(c)) \subseteq S
      /\ Keys(RafClaims(c)) \subseteq S /\ Keys(OutputClaims(c)) \subseteq S
  BY <1>1, Settled2
<1>4. Keys(ShiftClaims(c)) \subseteq S /\ Keys(OperandClaims(c)) \subseteq S /\ Keys(ValueClaims(c)) \subseteq S
  BY <1>1, Settled3
<1>5. Keys(AdviceClaims(c)) \subseteq S /\ Keys(RegisterClaims(c)) \subseteq S /\ Keys(RamValClaims(c)) \subseteq S
  BY <1>1, Settled4
<1>6. /\ Keys(LookupIndexClaims(c)) \subseteq S /\ Keys(RaReductionClaims(c)) \subseteq S
      /\ Keys(RegisterValClaims(c)) \subseteq S
  BY <1>1, Settled5
<1>7. Keys(G6) \subseteq S /\ Keys(H6) \subseteq S
  BY <1>1, Settled6
<1>8. Keys(G7) \subseteq S /\ Keys(H7) \subseteq S
  BY <1>1, Settled7
<1>9. \A U : Keys(U) \subseteq S <=> \A u \in U : u.key \in S
  BY DEF Keys
<1>10. \A U, V : Keys(U) \subseteq S /\ Keys(V) \subseteq S => Keys(U \cup V) \subseteq S
  BY <1>9
<1>11. K7(c, layout) = K6(c, layout) \cup (G7 \cup H7) /\ K6(c, layout) = K5(c) \cup (G6 \cup H6)
  BY Group7Is DEF K7, Stage7Claims, K6, Stage6Claims
<1> HIDE DEF G6, H6, G7, H7
<1>12. Keys(K1(c)) \subseteq S
  BY <1>2, <1>10 DEF K1
<1>13. Keys(K2(c)) \subseteq S
  <2>1. Keys(Beside2(c)) \subseteq S
    BY <1>3, <1>10 DEF Beside2
  <2>2. Keys(Stage2Claims(c)) \subseteq S
    BY <1>3, <1>10, <2>1 DEF Stage2Claims
  <2> QED
    BY <1>10, <1>12, <2>2 DEF K2
<1>14. Keys(K3(c)) \subseteq S
  <2>1. Keys(Stage3Claims(c)) \subseteq S
    BY <1>4, <1>10 DEF Stage3Claims
  <2> QED
    BY <1>10, <1>13, <2>1 DEF K3
<1>15. Keys(K4(c)) \subseteq S
  <2>1. Keys(Stage4Claims(c)) \subseteq S
    BY <1>5, <1>10 DEF Stage4Claims
  <2> QED
    BY <1>10, <1>14, <2>1 DEF K4
<1>16. Keys(K5(c)) \subseteq S
  <2>1. Keys(Stage5Claims(c)) \subseteq S
    BY <1>6, <1>10 DEF Stage5Claims
  <2> QED
    BY <1>10, <1>15, <2>1 DEF K5
<1>17. Keys(K6(c, layout)) \subseteq S
  BY <1>7, <1>10, <1>11, <1>16
<1>18. Keys(K7(c, layout)) \subseteq S
  BY <1>8, <1>10, <1>11, <1>17
<1> QED
  BY <1>18 DEF S

----------------------------------------------------------------------------
(* The opening. *)

\* A list with places from 1 on.
Places(s) == \E n \in Nat : PlacesOf(s, n)

\* What is in one of two lists is in their concatenation.
LEMMA PlacesJoin ==
    ASSUME NEW s, NEW t, Places(s), Places(t)
    PROVE  Places(s \o t) /\ Range(s) \subseteq Range(s \o t) /\ Range(t) \subseteq Range(s \o t)
<1>1. PICK n \in Nat : PlacesOf(s, n)
  BY DEF Places
<1>2. PICK m \in Nat : PlacesOf(t, m)
  BY DEF Places
<1> DEFINE w == s \o t
<1>3. DOMAIN s = 1 .. n /\ DOMAIN t = 1 .. m
  BY <1>1, <1>2, PlacesAreSeq
<1>4. Joined(s, n, t, m) /\ PlacesOf(w, n + m)
  BY <1>1, <1>2, JoinPlaces, JoinedPlaces
<1>5. /\ DOMAIN w = 1 .. n + m /\ \A i \in 1 .. n : w[i] = s[i]
      /\ \A i \in 1 .. m : w[n + i] = t[i]
  BY <1>4 DEF Joined
<1> HIDE DEF w
<1>6. Range(s) \subseteq Range(w)
  <2> SUFFICES ASSUME NEW i \in DOMAIN s PROVE s[i] \in Range(w)
    BY DEF Range
  <2>1. i \in DOMAIN w /\ w[i] = s[i]
    BY <1>3, <1>5
  <2> QED
    BY <2>1 DEF Range
<1>7. Range(t) \subseteq Range(w)
  <2> SUFFICES ASSUME NEW i \in DOMAIN t PROVE t[i] \in Range(w)
    BY DEF Range
  <2>1. n + i \in DOMAIN w /\ w[n + i] = t[i]
    BY <1>3, <1>5
  <2> QED
    BY <2>1 DEF Range
<1>8. Places(w)
  BY <1>4 DEF Places, w
<1> QED
  BY <1>6, <1>7, <1>8 DEF w

\* What is opened when it is there.
LEMMA OnlyPlaces ==
    ASSUME NEW k, NEW condition
    PROVE  Places(Only(k, condition)) /\ (condition => k \in Range(Only(k, condition)))
<1>1. CASE condition
  <2>1. Only(k, condition) = <<k>>
    BY <1>1 DEF Only
  <2>2. PlacesOf(<<k>>, 1) /\ k \in Range(<<k>>)
    BY DEF PlacesOf, Range
  <2> QED
    BY <2>1, <2>2 DEF Places
<1>2. CASE ~condition
  <2>1. Only(k, condition) = <<>>
    BY <1>2 DEF Only
  <2>2. PlacesOf(<<>>, 0)
    BY DEF PlacesOf
  <2> QED
    BY <1>2, <2>1, <2>2 DEF Places
<1> QED
  BY <1>1, <1>2

\* The claims of the increments and of the one-hot polynomials are opened, and
\* those of the advice when they are there.
LEMMA OpenedIdsHave ==
    ASSUME NEW c \in Configs, NEW side
    PROVE  /\ OpenedIncs \cup OpenedHots(c) \subseteq Range(OpenedIds(side, c))
           /\ \A kind \in AdviceKinds : Has(side.acc, AdviceFinal(kind)) =>
                 AdviceFinal(kind) \in Range(OpenedIds(side, c))
<1> DEFINE polys == RaPolynomials(c)
           a == RamInc("IncClaimReduction")
           b == RdInc("IncClaimReduction")
           two == <<a, b>>
           hots == [i \in DOMAIN polys |-> At(polys[i], "HammingWeightClaimReduction")]
           x == AdviceFinal("trusted")
           y == AdviceFinal("untrusted")
           p == Has(side.acc, x)
           q == Has(side.acc, y)
           first == Only(x, p)
           second == Only(y, q)
           ids == OpenedIds(side, c)
<1>1. ids = two \o hots \o first \o second
  BY DEF OpenedIds
<1>2. Places(two) /\ a \in Range(two) /\ b \in Range(two)
  <2> HIDE DEF a, b
  <2>1. PlacesOf(two, 2) /\ a \in Range(two) /\ b \in Range(two)
    BY DEF PlacesOf, Range
  <2> QED
    BY <2>1 DEF Places
<1>3. Places(hots) /\ OpenedHots(c) \subseteq Range(hots)
  <2>1. PICK n \in Nat : PlacesOf(polys, n)
    BY RaDiffer DEF Different
  <2>2. DOMAIN polys = 1 .. n
    BY <2>1, PlacesAreSeq
  <2>3. PlacesOf(hots, n)
    BY <2>2 DEF PlacesOf
  <2>4. OpenedHots(c) \subseteq Range(hots)
    BY DEF OpenedHots, IdsAt, Range
  <2> QED
    BY <2>3, <2>4 DEF Places
<1>4. Places(first) /\ (p => x \in Range(first))
  <2> HIDE DEF x, p
  <2> QED
    BY OnlyPlaces
<1>5. Places(second) /\ (q => y \in Range(second))
  <2> HIDE DEF y, q
  <2> QED
    BY OnlyPlaces
<1> HIDE DEF two, hots, first, second, ids
<1>6. Places(two \o hots) /\ Range(two) \subseteq Range(two \o hots) /\ Range(hots) \subseteq Range(two \o hots)
  BY <1>2, <1>3, PlacesJoin
<1> DEFINE u == two \o hots
<1> HIDE DEF u
<1>7. Places(u \o first) /\ Range(u) \subseteq Range(u \o first) /\ Range(first) \subseteq Range(u \o first)
  BY <1>4, <1>6, PlacesJoin DEF u
<1> DEFINE v == u \o first
<1> HIDE DEF v
<1>8. Range(v) \subseteq Range(v \o second) /\ Range(second) \subseteq Range(v \o second)
  BY <1>5, <1>7, PlacesJoin DEF v
<1>9. ids = v \o second
  BY <1>1 DEF u, v
<1>10. Range(two) \subseteq Range(ids) /\ Range(hots) \subseteq Range(ids)
  BY <1>6, <1>7, <1>8, <1>9 DEF u, v
<1>11. Range(first) \subseteq Range(ids) /\ Range(second) \subseteq Range(ids)
  BY <1>7, <1>8, <1>9 DEF v
<1>12. OpenedIncs \cup OpenedHots(c) \subseteq Range(ids)
  BY <1>2, <1>3, <1>10 DEF OpenedIncs
<1>13. (p => x \in Range(ids)) /\ (q => y \in Range(ids))
  BY <1>4, <1>5, <1>11
<1> QED
  BY <1>12, <1>13 DEF ids, AdviceKinds

\* The opening looks claims up, and appends none.
LEMMA Stage8Knows ==
    ASSUME NEW c \in Configs, NEW side, NEW T, SideKnows(side, T)
    PROVE  /\ SideKnows(Stage8(side, c), T)
           /\ Stage8(side, c).wrong = side.wrong /\ Stage8(side, c).advice = side.advice
           /\ Stage8(side, c).acc = side.acc
           /\ Stage8(side, c).used = side.used \cup Range(OpenedIds(side, c))
<1> DEFINE ids == OpenedIds(side, c)
           t == Stage8(side, c)
<1>1. PICK ok, transcript :
        t = [side EXCEPT !.ok = ok, !.used = @ \cup Range(ids), !.transcript = transcript]
  BY DEF Stage8
<1> HIDE DEF ids, t
<1>2. DOMAIN side = {"acc", "transcript", "advice", "ok", "wrong", "unbalanced", "used", "appended"}
  BY DEF SideKnows
<1>3. /\ DOMAIN t = DOMAIN side /\ t.acc = side.acc /\ t.wrong = side.wrong /\ t.advice = side.advice
      /\ t.appended = side.appended /\ t.used = side.used \cup Range(ids)
  BY <1>1, <1>2
<1>4. SideKnows(t, T)
  BY <1>3 DEF SideKnows
<1> QED
  BY <1>3, <1>4 DEF t, ids

----------------------------------------------------------------------------
(* What a side knows and has used, by the stage it is at. *)

\* The stages that begin without any claim.
Early == {"preprocess", "commit", "witness", "advice", "waiting", "stage1"}

\* All stages.
Ats == Early \cup {"stage2", "stage3", "stage4", "stage5", "stage6", "stage7", "stage8", "open", "done"}

\* After stage 7.
After7(side, c, layout) == SideKnows(side, K7(c, layout)) /\ Used7(c) \subseteq side.used

\* After the claims for the opening have been taken.
After8(side, c, layout) ==
    /\ After7(side, c, layout)
    /\ OpenedIncs \cup OpenedHots(c) \subseteq side.used
    /\ \A kind \in AdviceKinds : Has(side.acc, AdviceFinal(kind)) => AdviceFinal(kind) \in side.used

\* What a side knows and has used at a stage, when the proof has this layout.
AtStage(at, side, c, layout) ==
    /\ at \in Ats /\ side.wrong = {}
    /\ at \in Early => SideKnows(side, {})
    /\ at = "stage2" => SideKnows(side, K1(c)) /\ Used1 \subseteq side.used
    /\ at = "stage3" => SideKnows(side, K2(c)) /\ Used2 \subseteq side.used
    /\ at = "stage4" => SideKnows(side, K3(c)) /\ Used3 \subseteq side.used
    /\ at = "stage5" => SideKnows(side, K4(c)) /\ Used4(c) \subseteq side.used
    /\ at = "stage6" => SideKnows(side, K5(c)) /\ Used5(c) \subseteq side.used
    /\ at = "stage7" => /\ SideKnows(side, K6(c, layout)) /\ Used6(c) \subseteq side.used
                        /\ KeepsAdvice(side.advice, c, layout)
    /\ at = "stage8" => After7(side, c, layout)
    /\ at \in {"open", "done"} => After8(side, c, layout)

\* The parts of AtStage, one at a time.
LEMMA AtStageIs ==
    ASSUME NEW side, NEW c, NEW layout, side.wrong = {}
    PROVE  /\ \A at \in Early : SideKnows(side, {}) => AtStage(at, side, c, layout)
           /\ SideKnows(side, K1(c)) /\ Used1 \subseteq side.used => AtStage("stage2", side, c, layout)
           /\ SideKnows(side, K2(c)) /\ Used2 \subseteq side.used => AtStage("stage3", side, c, layout)
           /\ SideKnows(side, K3(c)) /\ Used3 \subseteq side.used => AtStage("stage4", side, c, layout)
           /\ SideKnows(side, K4(c)) /\ Used4(c) \subseteq side.used => AtStage("stage5", side, c, layout)
           /\ SideKnows(side, K5(c)) /\ Used5(c) \subseteq side.used => AtStage("stage6", side, c, layout)
           /\ SideKnows(side, K6(c, layout)) /\ Used6(c) \subseteq side.used
              /\ KeepsAdvice(side.advice, c, layout) => AtStage("stage7", side, c, layout)
           /\ After7(side, c, layout) => AtStage("stage8", side, c, layout)
           /\ \A at \in {"open", "done"} : After8(side, c, layout) => AtStage(at, side, c, layout)
  BY DEF AtStage, Ats, Early

\* Stages 1 to 5, whatever side runs them.
LEMMA Advance1To5 ==
    ASSUME NEW c \in Configs, NEW layout, NEW who \in Sides, NEW side
    PROVE  /\ AtStage("stage1", side, c, layout) => AtStage("stage2", Stage1(who, side, c), c, layout)
           /\ AtStage("stage2", side, c, layout) => AtStage("stage3", Stage2(who, side, c), c, layout)
           /\ AtStage("stage3", side, c, layout) => AtStage("stage4", Stage3(who, side, c), c, layout)
           /\ AtStage("stage4", side, c, layout) => AtStage("stage5", Stage4(who, side, c), c, layout)
           /\ AtStage("stage5", side, c, layout) => AtStage("stage6", Stage5(who, side, c), c, layout)
<1>1. ASSUME AtStage("stage1", side, c, layout) PROVE AtStage("stage2", Stage1(who, side, c), c, layout)
  <2> DEFINE t == Stage1(who, side, c)
             T == {}
  <2>1. SideKnows(side, {}) /\ side.wrong = {}
    BY <1>1 DEF AtStage, Early
  <2>2. T = {} /\ SideKnows(side, T)
    BY <2>1
  <2> HIDE DEF T
  <2>3. Went(side, t, T, K1(c), Keys(SkipClaims))
    BY <2>2, Stage1Knows
  <2>4. T \cup K1(c) = K1(c)
    BY <2>2
  <2> HIDE DEF t
  <2>5. SideKnows(t, K1(c)) /\ t.wrong = {} /\ Used1 \subseteq t.used
    BY <2>1, <2>3, <2>4 DEF Went, Used1
  <2>6. AtStage("stage2", t, c, layout)
    BY <2>5, AtStageIs
  <2> QED
    BY <2>6 DEF t
<1>2. ASSUME AtStage("stage2", side, c, layout) PROVE AtStage("stage3", Stage2(who, side, c), c, layout)
  <2> DEFINE t == Stage2(who, side, c)
             T == K1(c)
  <2>1. SideKnows(side, T) /\ side.wrong = {} /\ Used1 \subseteq side.used
    BY <1>2 DEF AtStage
  <2>2. T = K1(c)
    OBVIOUS
  <2> HIDE DEF T
  <2>3. Went(side, t, T, Stage2Claims(c), Uses3 \cup Uses4)
    BY <2>1, <2>2, Stage2Knows
  <2>4. T \cup Stage2Claims(c) = K2(c)
    BY <2>2 DEF K2
  <2> HIDE DEF t
  <2>5. SideKnows(t, K2(c)) /\ t.wrong = {} /\ Used2 \subseteq t.used
    BY <2>1, <2>3, <2>4 DEF Went, Used2
  <2>6. AtStage("stage3", t, c, layout)
    BY <2>5, AtStageIs
  <2> QED
    BY <2>6 DEF t
<1>3. ASSUME AtStage("stage3", side, c, layout) PROVE AtStage("stage4", Stage3(who, side, c), c, layout)
  <2> DEFINE t == Stage3(who, side, c)
             T == K2(c)
  <2>1. SideKnows(side, T) /\ side.wrong = {} /\ Used2 \subseteq side.used
    BY <1>3 DEF AtStage
  <2>2. T = K2(c)
    OBVIOUS
  <2> HIDE DEF T
  <2>3. Went(side, t, T, Stage3Claims(c), Uses5)
    BY <2>1, <2>2, Stage3Knows
  <2>4. T \cup Stage3Claims(c) = K3(c)
    BY <2>2 DEF K3
  <2> HIDE DEF t
  <2>5. SideKnows(t, K3(c)) /\ t.wrong = {} /\ Used3 \subseteq t.used
    BY <2>1, <2>3, <2>4 DEF Went, Used3
  <2>6. AtStage("stage4", t, c, layout)
    BY <2>5, AtStageIs
  <2> QED
    BY <2>6 DEF t
<1>4. ASSUME AtStage("stage4", side, c, layout) PROVE AtStage("stage5", Stage4(who, side, c), c, layout)
  <2> DEFINE t == Stage4(who, side, c)
             T == K3(c)
  <2>1. SideKnows(side, T) /\ side.wrong = {} /\ Used3 \subseteq side.used
    BY <1>4 DEF AtStage
  <2>2. T = K3(c)
    OBVIOUS
  <2> HIDE DEF T
  <2>3. Went(side, t, T, Stage4Claims(c), Uses6 \cup Uses7(c))
    BY <2>1, <2>2, Stage4Knows
  <2>4. T \cup Stage4Claims(c) = K4(c)
    BY <2>2 DEF K4
  <2> HIDE DEF t
  <2>5. SideKnows(t, K4(c)) /\ t.wrong = {} /\ Used4(c) \subseteq t.used
    BY <2>1, <2>3, <2>4 DEF Went, Used4
  <2>6. AtStage("stage5", t, c, layout)
    BY <2>5, AtStageIs
  <2> QED
    BY <2>6 DEF t
<1>5. ASSUME AtStage("stage5", side, c, layout) PROVE AtStage("stage6", Stage5(who, side, c), c, layout)
  <2> DEFINE t == Stage5(who, side, c)
             T == K4(c)
  <2>1. SideKnows(side, T) /\ side.wrong = {} /\ Used4(c) \subseteq side.used
    BY <1>5 DEF AtStage
  <2>2. T = K4(c)
    OBVIOUS
  <2> HIDE DEF T
  <2>3. Went(side, t, T, Stage5Claims(c), UsesOf5)
    BY <2>1, <2>2, Stage5Knows
  <2>4. T \cup Stage5Claims(c) = K5(c)
    BY <2>2 DEF K5
  <2> HIDE DEF t
  <2>5. SideKnows(t, K5(c)) /\ t.wrong = {} /\ Used5(c) \subseteq t.used
    BY <2>1, <2>3, <2>4 DEF Went, Used5
  <2>6. AtStage("stage6", t, c, layout)
    BY <2>5, AtStageIs
  <2> QED
    BY <2>6 DEF t
<1> QED
  BY <1>1, <1>2, <1>3, <1>4, <1>5

\* Stages 6 and 7, in the layout of the side's thread, and the opening.
LEMMA Advance6To8 ==
    ASSUME NEW c \in Configs, NEW layout \in Layouts, NEW who \in Sides, NEW side
    PROVE  /\ AtStage("stage6", side, c, layout) => AtStage("stage7", Stage6(who, side, c, layout), c, layout)
           /\ AtStage("stage7", side, c, layout) => AtStage("stage8", Stage7(who, side, c, layout), c, layout)
           /\ AtStage("stage8", side, c, layout) =>
                 \A at \in {"open", "done"} : AtStage(at, Stage8(side, c), c, layout)
<1>1. ASSUME AtStage("stage6", side, c, layout)
      PROVE  AtStage("stage7", Stage6(who, side, c, layout), c, layout)
  <2> DEFINE t == Stage6(who, side, c, layout)
             T == K5(c)
  <2>1. SideKnows(side, T) /\ side.wrong = {} /\ Used5(c) \subseteq side.used
    BY <1>1 DEF AtStage
  <2>2. T = K5(c) /\ t = Stage6(who, side, c, layout)
    OBVIOUS
  <2> HIDE DEF T, t
  <2>3. /\ SideKnows(t, T \cup Stage6Claims(c, layout))
        /\ t.wrong = side.wrong /\ side.used \subseteq t.used /\ UsesOf6 \subseteq t.used
        /\ KeepsAdvice(t.advice, c, layout)
    BY <2>1, <2>2, Stage6Knows
  <2>4. T \cup Stage6Claims(c, layout) = K6(c, layout)
    BY <2>2 DEF K6
  <2>5. SideKnows(t, K6(c, layout)) /\ t.wrong = {} /\ Used6(c) \subseteq t.used
    BY <2>1, <2>3, <2>4 DEF Used6
  <2>6. AtStage("stage7", t, c, layout)
    BY <2>3, <2>5, AtStageIs
  <2> QED
    BY <2>6 DEF t
<1>2. ASSUME AtStage("stage7", side, c, layout)
      PROVE  AtStage("stage8", Stage7(who, side, c, layout), c, layout)
  <2> DEFINE t == Stage7(who, side, c, layout)
             T == K6(c, layout)
  <2>1. /\ SideKnows(side, T) /\ side.wrong = {} /\ Used6(c) \subseteq side.used
        /\ KeepsAdvice(side.advice, c, layout)
    BY <1>2 DEF AtStage
  <2>2. T = K6(c, layout)
    OBVIOUS
  <2> HIDE DEF T
  <2>3. Went(side, t, T, Stage7Claims(c, layout), Uses10(c))
    BY <2>1, <2>2, Stage7Knows
  <2>4. T \cup Stage7Claims(c, layout) = K7(c, layout)
    BY <2>2 DEF K7
  <2> HIDE DEF t
  <2>5. SideKnows(t, K7(c, layout)) /\ t.wrong = {} /\ Used7(c) \subseteq t.used
    BY <2>1, <2>3, <2>4 DEF Went, Used7
  <2>6. AtStage("stage8", t, c, layout)
    BY <2>5, AtStageIs DEF After7
  <2> QED
    BY <2>6 DEF t
<1>3. ASSUME AtStage("stage8", side, c, layout), NEW at \in {"open", "done"}
      PROVE  AtStage(at, Stage8(side, c), c, layout)
  <2> DEFINE t == Stage8(side, c)
             T == K7(c, layout)
             ids == OpenedIds(side, c)
  <2>1. SideKnows(side, T) /\ side.wrong = {} /\ Used7(c) \subseteq side.used
    BY <1>3 DEF AtStage, After7
  <2> HIDE DEF T, ids, t
  <2>2. /\ SideKnows(t, T) /\ t.wrong = side.wrong /\ t.acc = side.acc
        /\ t.used = side.used \cup Range(ids)
    BY <2>1, Stage8Knows DEF t, ids
  <2>3. /\ OpenedIncs \cup OpenedHots(c) \subseteq Range(ids)
        /\ \A kind \in AdviceKinds : Has(side.acc, AdviceFinal(kind)) => AdviceFinal(kind) \in Range(ids)
    BY OpenedIdsHave DEF ids
  <2>4. After7(t, c, layout)
    BY <2>1, <2>2 DEF After7, T
  <2>5. After8(t, c, layout)
    BY <2>2, <2>3, <2>4 DEF After8
  <2>6. AtStage(at, t, c, layout)
    BY <2>1, <2>2, <2>5, AtStageIs
  <2> QED
    BY <2>6 DEF t
<1> QED
  BY <1>1, <1>2, <1>3

----------------------------------------------------------------------------
(* Both sides, along a run. *)

\* The verifier keeps the layout of its thread until it has accepted.
VerifierAt(layout) ==
    /\ AtStage(stage.verifier, verifier, config, layout)
    /\ stage.verifier # "done" => thread.verifier.layout = layout

\* Both sides know and have used what their stage says; the verifier by the layout it works with.
KnowsInv ==
    /\ config \in Configs
    /\ ThreadInv
    /\ AtStage(stage.prover, prover, config, config.layout)
    /\ \E layout \in Layouts : VerifierAt(layout)

\* The other side's stage and thread stay as they are.
LEMMA OtherSide ==
    ASSUME NEW f, DOMAIN f = {"prover", "verifier"}, NEW x
    PROVE  /\ [f EXCEPT !.prover = x].verifier = f.verifier
           /\ [f EXCEPT !.verifier = x].verifier = x
  OBVIOUS

\* A side that has not begun knows nothing.
LEMMA NewSideKnows ==
    /\ SideKnows(NewSide, {}) /\ NewSide.wrong = {}
    /\ \A claims : LET acc == [Acc!NewAccumulator EXCEPT !.openings = claims]
                   IN  AccPoints(acc) => Knows(acc, {})
<1> DEFINE fields == {"acc", "transcript", "advice", "ok", "wrong", "unbalanced", "used", "appended"}
           T == {}
<1>1. Keys(T) = {}
  BY DEF Keys
<1>2. ASSUME NEW claims, NEW acc, acc = [Acc!NewAccumulator EXCEPT !.openings = claims], AccPoints(acc)
      PROVE  Knows(acc, T)
  <2>1. /\ DOMAIN acc = {"openings", "by_poly", "aliases", "pending", "pending_ids"}
        /\ acc.aliases = [k \in {} |-> k] /\ acc.by_poly = [p \in Acc!Poly |-> <<>>]
    BY <1>2 DEF Acc!NewAccumulator
  <2>2. DOMAIN acc.aliases = {}
    BY <2>1
  <2>3. IsFiniteSet(DOMAIN acc.aliases)
    BY <2>2, FS_EmptySet
  <2>4. DOMAIN acc.by_poly = Acc!Poly /\ \A p \in Acc!Poly : acc.by_poly[p] = <<>>
    BY <2>1
  <2>5. <<>> \in Seq(Keys(T)) /\ DOMAIN <<>> = {}
    OBVIOUS
  <2>6. \A p \in Acc!Poly : acc.by_poly[p] \in Seq(Keys(T)) /\ DOMAIN acc.by_poly[p] = {}
    BY <2>4, <2>5
  <2> QED
    BY <1>1, <1>2, <2>1, <2>2, <2>3, <2>4, <2>6 DEF Knows
<1>3. PlacesOf(<<>>, 0) /\ DOMAIN <<>> = {} /\ Range(<<>>) = {}
  BY DEF PlacesOf, Range
<1>4. ASSUME NEW side, DOMAIN side = fields, side.appended = <<>>, Knows(side.acc, T)
      PROVE  SideKnows(side, T)
  BY <1>1, <1>3, <1>4 DEF SideKnows
<1>5. Knows(Acc!NewAccumulator, T)
  <2> DEFINE acc == Acc!NewAccumulator
             claims == acc.openings
  <2>1. acc = [Acc!NewAccumulator EXCEPT !.openings = claims]
    BY DEF Acc!NewAccumulator
  <2>2. AccPoints(acc)
    BY DEF Acc!NewAccumulator, AccPoints
  <2> HIDE DEF claims
  <2>3. PICK x : x = acc
    OBVIOUS
  <2>4. x = [Acc!NewAccumulator EXCEPT !.openings = claims] /\ AccPoints(x)
    BY <2>1, <2>2, <2>3
  <2> QED
    BY <1>2, <2>3, <2>4
<1> DEFINE empty == Acc!NewAccumulator
<1> HIDE DEF T, empty
<1>6. /\ DOMAIN NewSide = fields /\ NewSide.acc = empty /\ NewSide.appended = <<>> /\ NewSide.wrong = {}
  BY DEF NewSide, empty
<1>7. SideKnows(NewSide, T)
  BY <1>4, <1>5, <1>6 DEF empty
<1>8. ASSUME NEW claims, AccPoints([empty EXCEPT !.openings = claims])
      PROVE  Knows([empty EXCEPT !.openings = claims], T)
  BY <1>2, <1>8 DEF empty
<1> QED
  BY <1>6, <1>7, <1>8 DEF T, empty

\* Neither side has begun.
LEMMA KnowsInit == Init => KnowsInv
<1> SUFFICES ASSUME Init PROVE KnowsInv
  OBVIOUS
<1>1. config \in Configs /\ ThreadInv
  BY WeightsInit DEF WeightsInv
<1>2. stage.prover = "preprocess" /\ stage.verifier = "waiting" /\ prover = NewSide /\ verifier = NewSide
  BY DEF Init
<1>3. AtStage("preprocess", NewSide, config, config.layout)
  BY NewSideKnows, AtStageIs DEF Early
<1>4. \A layout : AtStage("waiting", NewSide, config, layout)
  BY NewSideKnows, AtStageIs DEF Early
<1>5. PICK layout \in Layouts :
        thread = [prover |-> [NewThread EXCEPT !.layout = config.layout],
                  verifier |-> [NewThread EXCEPT !.layout = layout]]
  BY DEF Init
<1>6. thread.verifier.layout = layout
  <2> DEFINE new == [NewThread EXCEPT !.layout = layout]
  <2>1. new.layout = layout
    BY DEF NewThread
  <2>2. thread.verifier = new
    BY <1>5
  <2> QED
    BY <2>1, <2>2
<1>7. VerifierAt(layout)
  BY <1>2, <1>4, <1>6 DEF VerifierAt
<1> QED
  BY <1>1, <1>2, <1>3, <1>7 DEF KnowsInv

\* The prover's side moves on, and the verifier's stays.
LEMMA ProverMoved ==
    ASSUME KnowsInv, ThreadInv', config' = config, verifier' = verifier,
           stage'.verifier = stage.verifier, thread'.verifier = thread.verifier,
           AtStage(stage'.prover, prover', config, config.layout)
    PROVE  KnowsInv'
<1>1. PICK layout \in Layouts : VerifierAt(layout)
  BY DEF KnowsInv
<1>2. VerifierAt(layout)'
  BY <1>1 DEF VerifierAt
<1>3. config' \in Configs /\ AtStage(stage'.prover, prover', config', config'.layout)
  BY DEF KnowsInv
<1> QED
  BY <1>2, <1>3 DEF KnowsInv

\* The verifier's side moves on, in the layout of its thread.
LEMMA VerifierMoved ==
    ASSUME KnowsInv, ThreadInv', config' = config, prover' = prover, stage'.prover = stage.prover,
           NEW layout \in Layouts, AtStage(stage'.verifier, verifier', config, layout),
           stage'.verifier # "done" => thread'.verifier.layout = layout
    PROVE  KnowsInv'
<1>1. VerifierAt(layout)'
  BY DEF VerifierAt
<1>2. config' \in Configs /\ AtStage(stage'.prover, prover', config', config'.layout)
  BY DEF KnowsInv
<1> QED
  BY <1>1, <1>2 DEF KnowsInv

\* What stages of the two sides do to the rest of the state.
LEMMA StagesOf ==
    ASSUME ThreadInv, NEW from, NEW to, NEW side
    PROVE  /\ ProverTo(from, to) => /\ stage.prover = from /\ stage'.prover = to
                                    /\ stage'.verifier = stage.verifier
           /\ VerifyStage(from, to, side) =>
                 /\ stage.verifier = from /\ stage'.verifier = to /\ stage'.prover = stage.prover
                 /\ verifier' = side /\ prover' = prover /\ config' = config
<1>1. DOMAIN stage = {"prover", "verifier"}
  BY DEF ThreadInv
<1>2. ASSUME ProverTo(from, to)
      PROVE  stage.prover = from /\ stage'.prover = to /\ stage'.verifier = stage.verifier
  <2>1. stage.prover = from /\ stage' = [stage EXCEPT !.prover = to]
    BY <1>2 DEF ProverTo
  <2> QED
    BY <1>1, <2>1, OneSide, OtherSide
<1>3. ASSUME VerifyStage(from, to, side)
      PROVE  /\ stage.verifier = from /\ stage'.verifier = to /\ stage'.prover = stage.prover
             /\ verifier' = side /\ prover' = prover /\ config' = config
  <2>1. /\ stage.verifier = from /\ stage' = [stage EXCEPT !.verifier = to]
        /\ verifier' = side /\ prover' = prover /\ config' = config
    BY <1>3 DEF VerifyStage
  <2> QED
    BY <1>1, <2>1, OneSide, OtherSide
<1> QED
  BY <1>2, <1>3

\* One stage of either side, up to the seventh.
LEMMA ProverAdvances ==
    ASSUME KnowsInv, ThreadInv', config' = config, NEW from, NEW to, NEW side, ProveStage(from, to, side),
           AtStage(from, prover, config, config.layout) => AtStage(to, side, config, config.layout)
    PROVE  KnowsInv'
<1>1. ThreadInv /\ AtStage(stage.prover, prover, config, config.layout)
  BY DEF KnowsInv
<1>2. ProverTo(from, to) /\ prover' = side /\ verifier' = verifier /\ thread' = thread
  BY DEF ProveStage
<1>3. stage.prover = from /\ stage'.prover = to /\ stage'.verifier = stage.verifier
  BY <1>1, <1>2, StagesOf
<1>4. AtStage(stage'.prover, prover', config, config.layout)
  BY <1>1, <1>2, <1>3
<1>5. thread'.verifier = thread.verifier
  BY <1>2
<1> QED
  BY <1>2, <1>3, <1>4, <1>5, ProverMoved

\* A stage of the verifier.
LEMMA VerifierAdvances ==
    ASSUME KnowsInv, ThreadInv', config' = config, NEW from, NEW to, NEW side, VerifyStage(from, to, side),
           from # "done",
           \A layout \in Layouts : thread.verifier.layout = layout /\ AtStage(from, verifier, config, layout)
                => AtStage(to, side, config, layout),
           to # "done" => thread' = thread
    PROVE  KnowsInv'
<1>1. PICK layout \in Layouts : VerifierAt(layout)
  BY DEF KnowsInv
<1>2. ThreadInv
  BY DEF KnowsInv
<1>3. /\ stage.verifier = from /\ stage'.verifier = to /\ stage'.prover = stage.prover
      /\ verifier' = side /\ prover' = prover
  BY <1>2, StagesOf
<1>4. AtStage(from, verifier, config, layout) /\ thread.verifier.layout = layout
  BY <1>1, <1>3 DEF VerifierAt
<1>5. AtStage(stage'.verifier, verifier', config, layout)
  BY <1>3, <1>4
<1>6. stage'.verifier # "done" => thread'.verifier.layout = layout
  BY <1>3, <1>4
<1> QED
  BY <1>3, <1>5, <1>6, VerifierMoved

\* The verifier takes the claims of a proof, and none of its points.
LEMMA KnowsDeliver ==
    ASSUME KnowsInv, ThreadInv', config' = config, Deliver
    PROVE  KnowsInv'
<1>1. PICK layout \in Layouts : VerifierAt(layout)
  BY DEF KnowsInv
<1>2. DOMAIN stage = {"prover", "verifier"}
  BY DEF KnowsInv, ThreadInv
<1>3. /\ stage.verifier = "waiting" /\ stage' = [stage EXCEPT !.verifier = "stage1"]
      /\ verifier' = [verifier EXCEPT !.acc = ProofClaims] /\ prover' = prover /\ thread' = thread
  BY DEF Deliver
<1>4. stage'.verifier = "stage1" /\ stage'.prover = stage.prover
  BY <1>2, <1>3, OneSide, OtherSide
<1>5. SideKnows(verifier, {}) /\ verifier.wrong = {} /\ thread.verifier.layout = layout
  BY <1>1, <1>3 DEF VerifierAt, AtStage, Early
<1>6. Knows(ProofClaims, {})
  <2> DEFINE claims == [k \in DOMAIN prover.acc.openings |->
                           [point |-> <<>>, claim |-> prover.acc.openings[k].claim]]
             acc == [Acc!NewAccumulator EXCEPT !.openings = claims]
  <2>1. <<>> \in Points
    BY DEF Points
  <2>2. \A k \in DOMAIN claims : claims[k].point \in Points
    BY <2>1
  <2> HIDE DEF claims
  <2>3. acc.openings = claims
    BY DEF Acc!NewAccumulator
  <2>4. AccPoints(acc)
    BY <2>2, <2>3 DEF AccPoints
  <2>5. Knows(acc, {})
    BY <2>4, NewSideKnows
  <2> QED
    BY <2>5 DEF ProofClaims, claims
<1>7. AtStage("stage1", verifier', config, layout)
  <2> DEFINE acc == ProofClaims
             side == verifier
             t == [side EXCEPT !.acc = acc]
  <2> HIDE DEF acc, side
  <2>1. SideKnows(side, {}) /\ side.wrong = {} /\ Knows(acc, {})
    BY <1>5, <1>6 DEF acc, side
  <2>2. DOMAIN side = {"acc", "transcript", "advice", "ok", "wrong", "unbalanced", "used", "appended"}
    BY <2>1 DEF SideKnows
  <2>3. DOMAIN t = DOMAIN side /\ t.acc = acc /\ t.wrong = side.wrong /\ t.appended = side.appended
    BY <2>2
  <2> HIDE DEF t
  <2>4. SideKnows(t, {}) /\ t.wrong = {}
    BY <2>1, <2>2, <2>3 DEF SideKnows
  <2>5. AtStage("stage1", t, config, layout)
    BY <2>4, AtStageIs DEF Early
  <2> QED
    BY <1>3, <2>5 DEF t, acc, side
<1> QED
  BY <1>3, <1>4, <1>5, <1>7, VerifierMoved

\* A step that leaves both sides alone.
LEMMA KnowsSame ==
    ASSUME KnowsInv, ThreadInv', config' = config, prover' = prover, verifier' = verifier,
           stage'.verifier = stage.verifier, thread'.verifier = thread.verifier,
           \/ stage'.prover = stage.prover
           \/ stage'.prover \in {"commit", "witness", "advice", "stage1"}
              /\ stage.prover \in {"preprocess", "commit", "witness", "advice"}
           \/ stage'.prover = "done" /\ stage.prover = "open"
    PROVE  KnowsInv'
<1>1. AtStage(stage.prover, prover, config, config.layout)
  BY DEF KnowsInv
<1>2. AtStage(stage'.prover, prover, config, config.layout)
  BY <1>1 DEF AtStage, Ats, Early
<1> QED
  BY <1>2, ProverMoved

\* The commitments, the opening and other proofs leave the verifier's thread alone.
LEMMA ProverThread ==
    ASSUME ThreadInv, \/ CommitTrustedAdvice \/ CommitUntrustedAdvice \/ CommitInit \/ ProveStage8 \/ Steal
    PROVE  thread'.verifier = thread.verifier
<1>1. DOMAIN thread = {"prover", "verifier"}
  BY DEF ThreadInv
<1>2. \A x : [thread EXCEPT !.prover = x].verifier = thread.verifier
  BY <1>1, OtherSide
<1>3. CASE CommitTrustedAdvice
  BY <1>2, <1>3 DEF CommitTrustedAdvice, CommitAdvice
<1>4. CASE CommitUntrustedAdvice
  BY <1>2, <1>4 DEF CommitUntrustedAdvice, CommitAdvice
<1>5. CASE CommitInit
  BY <1>2, <1>5 DEF CommitInit
<1>6. CASE ProveStage8
  BY <1>2, <1>6 DEF ProveStage8
<1>7. CASE Steal
  BY <1>2, <1>7 DEF Steal
<1> QED
  BY <1>3, <1>4, <1>5, <1>6, <1>7

\* No step of either side makes a claim at a point that is not its own.
LEMMA KnowsStep ==
    ASSUME KnowsInv, [Next]_vars
    PROVE  KnowsInv'
<1>1. ThreadInv /\ config \in Configs /\ thread.prover.layout = config.layout
  BY DEF KnowsInv, ThreadInv
<1>2. ThreadInv' /\ config' = config
  BY <1>1, ThreadStep
<1>3. config.layout \in Layouts /\ "prover" \in Sides /\ "verifier" \in Sides
  BY <1>1, ConfigAssumption DEF Sides
<1>4. AtStage(stage.prover, prover, config, config.layout)
  BY DEF KnowsInv
<1> DEFINE c == config
           p == prover
           v == verifier
           own == config.layout
<1>5. CASE ProveStage1
  <2>1. ProveStage("stage1", "stage2", Stage1("prover", p, c))
    BY <1>5 DEF ProveStage1
  <2>2. AtStage("stage1", p, c, own) => AtStage("stage2", Stage1("prover", p, c), c, own)
    BY <1>1, <1>3, Advance1To5
  <2> QED
    BY <1>2, <2>1, <2>2, ProverAdvances
<1>6. CASE ProveStage2
  <2>1. ProveStage("stage2", "stage3", Stage2("prover", p, c))
    BY <1>6 DEF ProveStage2
  <2>2. AtStage("stage2", p, c, own) => AtStage("stage3", Stage2("prover", p, c), c, own)
    BY <1>1, <1>3, Advance1To5
  <2> QED
    BY <1>2, <2>1, <2>2, ProverAdvances
<1>7. CASE ProveStage3
  <2>1. ProveStage("stage3", "stage4", Stage3("prover", p, c))
    BY <1>7 DEF ProveStage3
  <2>2. AtStage("stage3", p, c, own) => AtStage("stage4", Stage3("prover", p, c), c, own)
    BY <1>1, <1>3, Advance1To5
  <2> QED
    BY <1>2, <2>1, <2>2, ProverAdvances
<1>8. CASE ProveStage4
  <2>1. ProveStage("stage4", "stage5", Stage4("prover", p, c))
    BY <1>8 DEF ProveStage4
  <2>2. AtStage("stage4", p, c, own) => AtStage("stage5", Stage4("prover", p, c), c, own)
    BY <1>1, <1>3, Advance1To5
  <2> QED
    BY <1>2, <2>1, <2>2, ProverAdvances
<1>9. CASE ProveStage5
  <2>1. ProveStage("stage5", "stage6", Stage5("prover", p, c))
    BY <1>9 DEF ProveStage5
  <2>2. AtStage("stage5", p, c, own) => AtStage("stage6", Stage5("prover", p, c), c, own)
    BY <1>1, <1>3, Advance1To5
  <2> QED
    BY <1>2, <2>1, <2>2, ProverAdvances
<1>10. CASE ProveStage6
  <2>1. ProveStage("stage6", "stage7", Stage6("prover", p, c, own))
    BY <1>1, <1>10 DEF ProveStage6
  <2>2. AtStage("stage6", p, c, own) => AtStage("stage7", Stage6("prover", p, c, own), c, own)
    BY <1>1, <1>3, Advance6To8
  <2> QED
    BY <1>2, <2>1, <2>2, ProverAdvances
<1>11. CASE ProveStage7
  <2>1. ProveStage("stage7", "stage8", Stage7("prover", p, c, own))
    BY <1>1, <1>11 DEF ProveStage7
  <2>2. AtStage("stage7", p, c, own) => AtStage("stage8", Stage7("prover", p, c, own), c, own)
    BY <1>1, <1>3, Advance6To8
  <2> QED
    BY <1>2, <2>1, <2>2, ProverAdvances
<1>12. CASE ProveStage8
  <2>1. ProverTo("stage8", "open") /\ prover' = Stage8(p, c) /\ verifier' = verifier
    BY <1>12 DEF ProveStage8
  <2>2. stage.prover = "stage8" /\ stage'.prover = "open" /\ stage'.verifier = stage.verifier
    BY <1>1, <2>1, StagesOf
  <2>3. AtStage("open", Stage8(p, c), c, own)
    <3>1. \A at \in {"open", "done"} : AtStage(at, Stage8(p, c), c, own)
      BY <1>1, <1>3, <1>4, <2>2, Advance6To8
    <3> QED
      BY <3>1
  <2>4. thread'.verifier = thread.verifier
    BY <1>1, <1>12, ProverThread
  <2> QED
    BY <1>2, <2>1, <2>2, <2>3, <2>4, ProverMoved
<1>13. CASE CommitTrustedAdvice
  <2>1. ProverTo("preprocess", "commit") /\ prover' = prover /\ verifier' = verifier
    BY <1>13 DEF CommitTrustedAdvice
  <2>2. thread'.verifier = thread.verifier
    BY <1>1, <1>13, ProverThread
  <2> QED
    BY <1>1, <1>2, <2>1, <2>2, StagesOf, KnowsSame
<1>14. CASE CommitInit
  <2>1. ProverTo("commit", "witness") /\ prover' = prover /\ verifier' = verifier
    BY <1>14 DEF CommitInit
  <2>2. thread'.verifier = thread.verifier
    BY <1>1, <1>14, ProverThread
  <2> QED
    BY <1>1, <1>2, <2>1, <2>2, StagesOf, KnowsSame
<1>15. CASE CommitWitness
  <2>1. ProverTo("witness", "advice") /\ prover' = prover /\ verifier' = verifier /\ thread' = thread
    BY <1>15 DEF CommitWitness
  <2> QED
    BY <1>1, <1>2, <2>1, StagesOf, KnowsSame
<1>16. CASE CommitUntrustedAdvice
  <2>1. ProverTo("advice", "stage1") /\ prover' = prover /\ verifier' = verifier
    BY <1>16 DEF CommitUntrustedAdvice
  <2>2. thread'.verifier = thread.verifier
    BY <1>1, <1>16, ProverThread
  <2> QED
    BY <1>1, <1>2, <2>1, <2>2, StagesOf, KnowsSame
<1>17. CASE OpenJointPolynomial
  <2>1. ProverTo("open", "done") /\ prover' = prover /\ verifier' = verifier /\ thread' = thread
    BY <1>17 DEF OpenJointPolynomial
  <2> QED
    BY <1>1, <1>2, <2>1, StagesOf, KnowsSame
<1>18. CASE Steal
  <2>1. stage' = stage /\ prover' = prover /\ verifier' = verifier
    BY <1>18 DEF Steal
  <2>2. thread'.verifier = thread.verifier
    BY <1>1, <1>18, ProverThread
  <2> QED
    BY <1>2, <2>1, <2>2, KnowsSame
<1>19. CASE Deliver
  BY <1>2, <1>19, KnowsDeliver
<1>20. CASE VerifyStage1
  <2>1. VerifyStage("stage1", "stage2", Stage1("verifier", v, c)) /\ thread' = thread
    BY <1>20 DEF VerifyStage1
  <2>2. \A l : AtStage("stage1", v, c, l) => AtStage("stage2", Stage1("verifier", v, c), c, l)
    BY <1>1, <1>3, Advance1To5
  <2> QED
    BY <1>2, <2>1, <2>2, VerifierAdvances
<1>21. CASE VerifyStage2
  <2>1. VerifyStage("stage2", "stage3", Stage2("verifier", v, c)) /\ thread' = thread
    BY <1>21 DEF VerifyStage2
  <2>2. \A l : AtStage("stage2", v, c, l) => AtStage("stage3", Stage2("verifier", v, c), c, l)
    BY <1>1, <1>3, Advance1To5
  <2> QED
    BY <1>2, <2>1, <2>2, VerifierAdvances
<1>22. CASE VerifyStage3
  <2>1. VerifyStage("stage3", "stage4", Stage3("verifier", v, c)) /\ thread' = thread
    BY <1>22 DEF VerifyStage3
  <2>2. \A l : AtStage("stage3", v, c, l) => AtStage("stage4", Stage3("verifier", v, c), c, l)
    BY <1>1, <1>3, Advance1To5
  <2> QED
    BY <1>2, <2>1, <2>2, VerifierAdvances
<1>23. CASE VerifyStage4
  <2>1. VerifyStage("stage4", "stage5", Stage4("verifier", v, c)) /\ thread' = thread
    BY <1>23 DEF VerifyStage4
  <2>2. \A l : AtStage("stage4", v, c, l) => AtStage("stage5", Stage4("verifier", v, c), c, l)
    BY <1>1, <1>3, Advance1To5
  <2> QED
    BY <1>2, <2>1, <2>2, VerifierAdvances
<1>24. CASE VerifyStage5
  <2>1. VerifyStage("stage5", "stage6", Stage5("verifier", v, c)) /\ thread' = thread
    BY <1>24 DEF VerifyStage5
  <2>2. \A l : AtStage("stage5", v, c, l) => AtStage("stage6", Stage5("verifier", v, c), c, l)
    BY <1>1, <1>3, Advance1To5
  <2> QED
    BY <1>2, <2>1, <2>2, VerifierAdvances
<1>25. CASE VerifyStage6
  <2> DEFINE l == thread.verifier.layout
             side == Stage6("verifier", v, c, l)
  <2>1. VerifyStage("stage6", "stage7", side) /\ thread' = thread
    BY <1>25 DEF VerifyStage6
  <2>2. l \in Layouts => (AtStage("stage6", v, c, l) => AtStage("stage7", side, c, l))
    BY <1>1, <1>3, Advance6To8
  <2> HIDE DEF side
  <2>3. \A layout \in Layouts : l = layout /\ AtStage("stage6", v, c, layout) => AtStage("stage7", side, c, layout)
    BY <2>2
  <2> QED
    BY <1>2, <2>1, <2>3, VerifierAdvances
<1>26. CASE VerifyStage7
  <2> DEFINE l == thread.verifier.layout
             side == Stage7("verifier", v, c, l)
  <2>1. VerifyStage("stage7", "stage8", side) /\ thread' = thread
    BY <1>26 DEF VerifyStage7
  <2>2. l \in Layouts => (AtStage("stage7", v, c, l) => AtStage("stage8", side, c, l))
    BY <1>1, <1>3, Advance6To8
  <2> HIDE DEF side
  <2>3. \A layout \in Layouts : l = layout /\ AtStage("stage7", v, c, layout) => AtStage("stage8", side, c, layout)
    BY <2>2
  <2> QED
    BY <1>2, <2>1, <2>3, VerifierAdvances
<1>27. CASE VerifyStage8
  <2> DEFINE side == Stage8(v, c)
  <2>1. VerifyStage("stage8", "done", side)
    BY <1>27 DEF VerifyStage8
  <2>2. ASSUME NEW layout \in Layouts, AtStage("stage8", v, c, layout)
        PROVE  AtStage("done", side, c, layout)
    <3>1. \A at \in {"open", "done"} : AtStage(at, side, c, layout)
      BY <1>1, <1>3, <2>2, Advance6To8
    <3> QED
      BY <3>1
  <2> HIDE DEF side
  <2> QED
    BY <1>2, <2>1, <2>2, VerifierAdvances
<1>28. CASE UNCHANGED vars
  BY <1>2, <1>28, KnowsSame DEF vars
<1> QED
  BY <1>5, <1>6, <1>7, <1>8, <1>9, <1>10, <1>11, <1>12, <1>13, <1>14, <1>15, <1>16, <1>17, <1>18, <1>19,
     <1>20, <1>21, <1>22, <1>23, <1>24, <1>25, <1>26, <1>27, <1>28 DEF Next

----------------------------------------------------------------------------
(* What follows for a proof. *)

\* Whatever stage a side is at, it knows the claims it has appended.
LEMMA SomethingKnown ==
    ASSUME NEW at, NEW side, NEW c, NEW layout, AtStage(at, side, c, layout)
    PROVE  \E T : SideKnows(side, T)
  BY DEF AtStage, Ats, After7, After8

\* A list without repetition is as long as the set of its elements.
LEMMA AppendedApart ==
    ASSUME NEW side, NEW T, SideKnows(side, T)
    PROVE  Len(side.appended) = Cardinality(Range(side.appended))
<1> DEFINE s == side.appended
<1>1. PICK n \in Nat : PlacesOf(s, n)
  BY DEF SideKnows
<1>2. \A i, j \in DOMAIN s : s[i] = s[j] => i = j
  BY DEF SideKnows
<1>3. Len(s) = n /\ DOMAIN s = 1 .. n
  BY <1>1, PlacesAreSeq
<1> HIDE DEF s
<1>4. ExistsBijection(1 .. n, Range(s))
  <2> DEFINE f == [i \in 1 .. n |-> s[i]]
  <2>1. f \in Bijection(1 .. n, Range(s))
    <3>1. f \in [1 .. n -> Range(s)]
      BY <1>3 DEF Range
    <3>2. \A i, j \in 1 .. n : f[i] = f[j] => i = j
      BY <1>2, <1>3
    <3>3. \A x \in Range(s) : \E i \in 1 .. n : f[i] = x
      BY <1>3 DEF Range
    <3> HIDE DEF f
    <3> QED
      BY <3>1, <3>2, <3>3 DEF Bijection, Injection, Surjection, IsInjective
  <2> QED
    BY <2>1 DEF ExistsBijection
<1>5. Cardinality(Range(s)) = n
  BY <1>4, FS_CountingElements
<1> QED
  BY <1>3, <1>5 DEF s

\* What each claim of the verifier is used for, once it has accepted.
LEMMA AllUsed ==
    ASSUME NEW side, NEW c \in Configs, NEW layout \in Layouts, After8(side, c, layout)
    PROVE  Range(side.appended) \ CMids \subseteq side.used
<1> DEFINE T == K7(c, layout)
           S == Settled(c)
<1>1. SideKnows(side, T) /\ Used7(c) \subseteq side.used
  BY DEF After8, After7
<1>2. OpenedIncs \cup OpenedHots(c) \subseteq side.used
  BY DEF After8
<1>3. Range(side.appended) = Keys(T) /\ Knows(side.acc, T)
  BY <1>1 DEF SideKnows
<1>4. Keys(T) \subseteq S
  BY KeysSettled
<1>5. \A k \in S : k \in side.used \/ k \in Finals \/ k \in CMids
  BY <1>1, <1>2 DEF Settled
<1> HIDE DEF T, S
<1> SUFFICES ASSUME NEW k \in Keys(T), k \notin CMids PROVE k \in side.used
  BY <1>3
<1>6. PICK u \in T : k = u.key
  BY DEF Keys
<1>7. Has(side.acc, k)
  BY <1>3, <1>6, KnownPoint
<1>8. ASSUME k \in Finals PROVE k \in side.used
  <2>1. PICK kind \in AdviceKinds : k = AdviceFinal(kind)
    BY <1>8 DEF Finals
  <2> QED
    BY <1>7, <2>1 DEF After8
<1> QED
  BY <1>4, <1>5, <1>8

\* At the beginning of every stage both sides know the claims of the stages before,
\* at the points the configuration determines, have appended no others, and have used
\* those the stages so far read from their accumulators.
THEOREM KnowsAlways == Spec => []KnowsInv
<1>1. Init => KnowsInv
  BY KnowsInit
<1>2. KnowsInv /\ [Next]_vars => KnowsInv'
  BY KnowsStep
<1> QED
  BY <1>1, <1>2, PTL DEF Spec

\* No side appends a key twice in a proof.  The assertions of the accumulators look
\* only at stored openings and would not see a second append of an aliased key.
THEOREM AppendedCorrect == Spec => []AppendedOnce
<1>1. KnowsInv => AppendedOnce
  <2> SUFFICES ASSUME KnowsInv PROVE AppendedOnce
    OBVIOUS
  <2>1. \E T : SideKnows(prover, T)
    BY SomethingKnown DEF KnowsInv
  <2>2. \E T : SideKnows(verifier, T)
    BY SomethingKnown DEF KnowsInv, VerifierAt
  <2> QED
    BY <2>1, <2>2, AppendedApart DEF AppendedOnce
<1> QED
  BY <1>1, KnowsAlways, PTL

\* Every claim that enters a sumcheck's input claim was opened at the point of the eq
\* polynomial the instance multiplies it by, although the constructors take one point
\* for claims of several polynomials and sumchecks; on the verifier's side as well.
THEOREM KernelsCorrect == Spec => []KernelsMatch
<1>1. KnowsInv => KernelsMatch
  <2> SUFFICES ASSUME KnowsInv PROVE KernelsMatch
    OBVIOUS
  <2>1. prover.wrong = {}
    BY DEF KnowsInv, AtStage
  <2>2. verifier.wrong = {}
    BY DEF KnowsInv, VerifierAt, AtStage
  <2> QED
    BY <2>1, <2>2 DEF KernelsMatch
<1> QED
  BY <1>1, KnowsAlways, PTL

\* When the verifier accepts, each claim it read from the proof, but for the halfway
\* claims of the advice, has been the input of a later sumcheck or was opened against
\* a commitment: no value the prover chose is left unproven.
THEOREM UsedCorrect == Spec => []EveryClaimUsed
<1>1. KnowsInv => EveryClaimUsed
  <2> SUFFICES ASSUME KnowsInv, stage.verifier = "done"
               PROVE  Range(verifier.appended) \ CMids \subseteq verifier.used
    BY DEF EveryClaimUsed
  <2>1. config \in Configs
    BY DEF KnowsInv
  <2>2. PICK layout \in Layouts : AtStage(stage.verifier, verifier, config, layout)
    BY DEF KnowsInv, VerifierAt
  <2>3. After8(verifier, config, layout)
    BY <2>2 DEF AtStage
  <2> QED
    BY <2>1, <2>3, AllUsed
<1> QED
  BY <1>1, KnowsAlways, PTL

----------------------------------------------------------------------------
(* The advice in the block of the matrix its commitment has. *)

\* The columns of the main matrix reach over the address and not past the cycles.
LEMMA MainColsFit ==
    ASSUME NEW c \in Configs
    PROVE  LogKChunk <= MainCols(c) /\ MainCols(c) <= c.log_T /\ MainCols(c) \in Nat
<1>1. LogKChunk \in Nat /\ c.log_T \in Nat /\ LogKChunk <= c.log_T
  BY ConfigAssumption, OneHotAssumption
<1>2. \A v, t \in Nat : v <= t => v <= ((v + t) + 1) \div 2 /\ ((v + t) + 1) \div 2 <= t /\ ((v + t) + 1) \div 2 \in Nat
  OBVIOUS
<1>3. MainCols(c) = ((LogKChunk + c.log_T) + 1) \div 2
  BY DEF MainCols, Sigma
<1> QED
  BY <1>1, <1>2, <1>3

\* The schedule in full: the last round of a column, the one before the first of a
\* row, and the last of a row.
LastColRound(c, kind, layout) ==
    IF layout = "CycleMajor" THEN AdviceCols(c, kind)
    ELSE IF AdviceCols(c, kind) <= LogKChunk THEN 0 ELSE AdviceCols(c, kind) - LogKChunk

\* The cycle variables before the first of a row.
BeforeRows(c, layout) == IF layout = "CycleMajor" THEN MainCols(c) ELSE MainCols(c) - LogKChunk

\* The last round that binds a row of the advice.
LastRowRound(c, kind, layout) ==
    IF layout = "CycleMajor" /\ c.log_T <= MainCols(c) + AdviceRows(c, kind) THEN c.log_T
    ELSE BeforeRows(c, layout) + AdviceRows(c, kind)

\* ScheduleOf holds of these three rounds.
LEMMA ScheduleIs ==
    ASSUME NEW c \in Configs, NEW kind \in AdviceKinds, NEW layout \in Layouts,
           NEW a, a = LastColRound(c, kind, layout), NEW b, b = BeforeRows(c, layout),
           NEW e, e = LastRowRound(c, kind, layout)
    PROVE  a \in Nat /\ b \in Nat /\ e \in Nat /\ ScheduleOf(c, kind, layout, a, b, e)
<1> DEFINE T == c.log_T
           K == LogKChunk
           V == AdviceVars(c, kind)
           C == AdviceCols(c, kind)
           R == AdviceRows(c, kind)
           M == MainCols(c)
<1>1. /\ T \in Nat /\ K \in Nat \ {0} /\ V \in Nat /\ C \in Nat /\ R \in Nat /\ M \in Nat
      /\ V = C + R /\ (C = 0 => R = 0) /\ C <= M /\ R + M <= K + T
  BY AdviceSizes
<1>2. K <= M /\ M <= T
  BY MainColsFit
<1>3. CASE layout = "CycleMajor"
  <2>1. a = C /\ b = M /\ e = IF T <= M + R THEN T ELSE M + R
    BY <1>3 DEF LastColRound, BeforeRows, LastRowRound
  <2>2. /\ ColRounds(c, kind, layout) = 1 .. Min({T, C})
        /\ RowRounds(c, kind, layout) = Min({T, M}) + 1 .. Min({T, M + R})
    BY <1>3 DEF ColRounds, RowRounds
  <2> HIDE DEF T, K, V, C, R, M
  <2>3. Min({T, C}) = a /\ Min({T, M}) = b /\ Min({T, M + R}) = e
    <3> DEFINE S == M + R
    <3>1. S \in Int /\ T \in Int /\ C \in Int /\ M \in Int /\ C <= T /\ M <= T
      BY <1>1, <1>2
    <3> HIDE DEF S
    <3>2. Min({T, S}) = IF T <= S THEN T ELSE S
      BY <3>1, OfTwo
    <3>3. Min({T, C}) = C
      <4>1. Min({T, C}) = IF T <= C THEN T ELSE C
        BY <3>1, OfTwo
      <4> QED
        BY <3>1, <4>1
    <3>4. Min({T, M}) = M
      <4>1. Min({T, M}) = IF T <= M THEN T ELSE M
        BY <3>1, OfTwo
      <4> QED
        BY <3>1, <4>1
    <3> QED
      BY <2>1, <3>2, <3>3, <3>4 DEF S
  <2>4. a \in Nat /\ b \in Nat /\ e \in Nat /\ a <= b /\ b <= e /\ e <= T
    BY <1>1, <1>2, <2>1
  <2>5. a + (e - b) <= V /\ V - (a + (e - b)) <= K /\ ~(a = 0 /\ 0 < b /\ b < e)
    BY <1>1, <1>2, <2>1
  <2>6. ColRounds(c, kind, layout) = 1 .. a /\ RowRounds(c, kind, layout) = b + 1 .. e
    BY <2>2, <2>3
  <2> QED
    BY <2>4, <2>5, <2>6 DEF ScheduleOf, T, K, V
<1>4. CASE layout = "AddressMajor"
  <2>1. a = (IF C <= K THEN 0 ELSE C - K) /\ b = M - K /\ e = (M - K) + R
    BY <1>4 DEF LastColRound, BeforeRows, LastRowRound
  <2>2. /\ ColRounds(c, kind, layout) = 1 .. SaturatingSub(C, K)
        /\ RowRounds(c, kind, layout) = Min({T, SaturatingSub(M, K)}) + 1 .. Min({T, SaturatingSub(M, K) + R})
    BY <1>4 DEF ColRounds, RowRounds
  <2> HIDE DEF T, K, V, C, R, M
  <2>3. SaturatingSub(C, K) = a /\ SaturatingSub(M, K) = b
    BY <1>1, <1>2, <2>1, SaturatingSubIs
  <2>4. a \in Nat /\ b \in Nat /\ e \in Nat /\ a <= b /\ b <= e /\ e <= T /\ e = b + R
    BY <1>1, <1>2, <2>1
  <2>5. Min({T, b}) = b /\ Min({T, e}) = e
    <3>1. T \in Int /\ b \in Int /\ e \in Int
      BY <1>1, <2>4
    <3>2. \A x \in Int : Min({T, x}) = IF T <= x THEN T ELSE x
      BY <3>1, OfTwo
    <3> QED
      BY <2>4, <3>1, <3>2
  <2>6. a + (e - b) <= V /\ V - (a + (e - b)) <= K /\ ((a = 0 /\ 0 < b /\ b < e) => C <= K /\ R > 0)
    BY <1>1, <1>2, <2>1
  <2>7. ColRounds(c, kind, layout) = 1 .. a /\ RowRounds(c, kind, layout) = b + 1 .. e
    BY <2>2, <2>3, <2>4, <2>5
  <2> QED
    BY <1>4, <2>4, <2>6, <2>7 DEF ScheduleOf, T, K, V, C, R
<1> QED
  BY <1>3, <1>4 DEF Layouts

\* The challenges that are kept: the cycle variables of the columns, then of the rows.
KeptFrom(s, L, a, b, n) ==
    /\ PlacesOf(s, n)
    /\ \A j \in 1 .. n : s[j] = IF j <= a THEN L[j] ELSE L[b + (j - a)]

\* The cycle variables are the last challenges of stage 6.
LEMMA LastVars ==
    ASSUME NEW c \in Configs
    PROVE  PartOf(Part(8, M8(c), c.log_T), Challenges(8, M8(c)), M8(c) - c.log_T, c.log_T)
<1> DEFINE m == M8(c)
           T == c.log_T
           f == m - T
           k == 8
           p == Challenges(k, m)
           L == Part(k, m, T)
<1>1. m \in Nat /\ T \in 0 .. m /\ k \in Nat
  BY Sizes8
<1>2. p \in Points /\ Len(p) = m
  <2> HIDE DEF k, m
  <2> QED
    BY <1>1, ChallengesPoint
<1>3. L = SubSeq(p, f + 1, m)
  BY DEF Part
<1>4. f \in Nat /\ m \in Nat /\ f <= m /\ m <= Len(p) /\ T = m - f
  BY <1>1, <1>2
<1>5. PartOf(L, p, f, T)
  <2> HIDE DEF f, p, m, T, L, k
  <2> QED
    BY <1>2, <1>3, <1>4, PartPlaces
<1> QED
  BY <1>5

\* What is kept, for any such schedule.
LEMMA KeptOf ==
    ASSUME NEW c \in Configs, NEW kind \in AdviceKinds, NEW layout \in Layouts,
           NEW a \in Nat, NEW b \in Nat, NEW e \in Nat, ScheduleOf(c, kind, layout, a, b, e),
           NEW n, n = a + (e - b),
           NEW L, PartOf(L, Challenges(8, M8(c)), M8(c) - c.log_T, c.log_T)
    PROVE  KeptFrom(AdviceKept(c, kind, layout), L, a, b, n)
<1> DEFINE r == AdviceSlice(c, kind, layout)
           d == DOMAIN r \ ActiveRounds(c, kind, layout)
           x == Without(r, d)
           m == M8(c)
           T == c.log_T
           l == CyclePhaseRounds(c, kind, layout)
           p == Challenges(8, m)
           f == m - T
           h == f + l
           k == 8
<1>1. a \in Nat /\ b \in Nat /\ e \in Nat /\ ScheduleOf(c, kind, layout, a, b, e)
  OBVIOUS
<1>2. a <= b /\ b <= e /\ e <= T /\ ColRounds(c, kind, layout) = 1 .. a /\ RowRounds(c, kind, layout) = b + 1 .. e
  BY <1>1 DEF ScheduleOf
<1>3. l = IF b < e THEN e ELSE a
  BY <1>1, ScheduleCounts
<1>4. m \in Nat /\ T \in 0 .. m /\ l \in 0 .. T /\ k \in Nat /\ k = 8
  BY Sizes8, CycleSizes
<1>5. r \in Points /\ Len(r) = l
  BY AdviceSliceIs
<1>6. p \in Points /\ Len(p) = m
  BY <1>4, ChallengesPoint
<1>7. r = SubSeq(p, f + 1, h)
  BY DEF AdviceSlice
<1>8. AdviceKept(c, kind, layout) = x
  BY DEF AdviceKept, CycleVarChallenges
<1>9. \A i \in 1 .. Len(r) : i \in d <=> ~(i <= a \/ (b < i /\ i <= e))
  <2>1. DOMAIN r = 1 .. Len(r) /\ Len(r) \in Nat
    BY <1>5 DEF Points
  <2>2. ActiveRounds(c, kind, layout) = (1 .. a) \cup (b + 1 .. e)
    BY <1>2 DEF ActiveRounds
  <2> QED
    BY <1>1, <1>2, <2>1, <2>2
<1>10. PartOf(r, p, f, l)
  <2>1. f \in Nat /\ h \in Nat /\ f <= h /\ h <= Len(p) /\ l = h - f /\ r = SubSeq(p, f + 1, h) /\ p \in Points
    <3>1. f \in Nat /\ h \in Nat /\ f <= h /\ h <= m /\ l = h - f
      <4> HIDE DEF m, T, l
      <4> QED
        BY <1>4
    <3> HIDE DEF f, h, m
    <3> QED
      BY <1>6, <1>7, <3>1
  <2> HIDE DEF f, h, l, r, p
  <2> QED
    BY <2>1, PartPlaces
<1>11. \A j \in 1 .. T : L[j] = p[f + j]
  BY DEF PartOf
<1>12. \A j \in 1 .. l : r[j] = L[j]
  <2>1. \A j \in 1 .. l : j \in 1 .. T
    BY <1>4
  <2>2. \A j \in 1 .. l : r[j] = p[f + j]
    BY <1>10 DEF PartOf
  <2> QED
    BY <1>11, <2>1, <2>2
<1> DEFINE g == IF b < e THEN b ELSE a
           q == IF b < e THEN e ELSE a
           zero == 0
           na == a - zero
           nf == q - g
           xa == SubSeq(r, zero + 1, a)
           xf == SubSeq(r, g + 1, q)
<1>13. /\ g \in Nat /\ q \in Nat /\ a <= g /\ g <= q /\ q <= Len(r) /\ q = l
       /\ a <= Len(r) /\ g <= Len(r) /\ zero \in Nat /\ zero <= a /\ na = a /\ nf = e - b /\ n = na + nf
      /\ nf = q - g
  BY <1>1, <1>2, <1>3, <1>5
<1>14. \A i \in 1 .. Len(r) : i \in d <=> ~(i <= a \/ (g < i /\ i <= q))
  BY <1>1, <1>2, <1>3, <1>5, <1>9
<1>15. b < e => g = b
  OBVIOUS
<1> HIDE DEF d, g, q, r, p, f, h, m, T, l
<1>16. x = SubSeq(r, 1, a) \o SubSeq(r, g + 1, q)
  <2> HIDE DEF zero, na, nf, xa, xf
  <2>1. r \in Points /\ a \in Nat /\ g \in Nat /\ q \in Nat /\ a <= g /\ g <= q /\ q <= Len(r)
    BY <1>5, <1>13
  <2> QED
    BY <2>1, <1>14, WithoutTwo, ZenonT(60)
<1>17. x = xa \o xf
  BY <1>16
<1>18. PartOf(xa, r, zero, na)
  <2>1. xa = SubSeq(r, zero + 1, a) /\ na = a - zero
    OBVIOUS
  <2> HIDE DEF zero, xa, na
  <2> QED
    BY <1>1, <1>5, <1>13, <2>1, PartPlaces
<1>19. PartOf(xf, r, g, nf)
  <2>1. xf = SubSeq(r, g + 1, q) /\ nf = q - g
    OBVIOUS
  <2> HIDE DEF xf, nf
  <2> QED
    BY <1>5, <1>13, <2>1, PartPlaces
<1>20. na \in Nat /\ nf \in Nat
  BY <1>1, <1>13
<1>21. zero + 1 = 1 /\ \A j \in 1 .. na : zero + j = j
  BY <1>20
<1> HIDE DEF xa, xf, na, nf, zero, x
<1>22. PlacesOf(xa, na) /\ PlacesOf(xf, nf)
  BY <1>18, <1>19 DEF PartOf
<1>23. Joined(xa, na, xf, nf) /\ PlacesOf(x, na + nf)
  BY <1>17, <1>20, <1>22, JoinPlaces, JoinedPlaces
<1>24. ASSUME NEW j \in 1 .. n PROVE x[j] = IF j <= a THEN L[j] ELSE L[b + (j - a)]
  <2>1. CASE j <= a
    <3>1. j \in 1 .. na
      BY <1>13, <2>1
    <3>2. x[j] = xa[j]
      BY <1>17, <1>23, <3>1 DEF Joined
    <3>3. xa[j] = r[j]
      BY <1>18, <1>21, <3>1 DEF PartOf
    <3>4. r[j] = L[j]
      BY <1>1, <1>5, <1>12, <1>13, <3>1
    <3> QED
      BY <2>1, <3>2, <3>3, <3>4
  <2>2. CASE ~(j <= a)
    <3> DEFINE i == j - a
    <3>1. i \in 1 .. nf /\ j = na + i /\ b < e
      BY <1>1, <1>2, <1>13, <2>2
    <3> HIDE DEF i
    <3>2. x[na + i] = xf[i]
      BY <1>17, <1>23, <3>1 DEF Joined
    <3>3. xf[i] = r[g + i]
      BY <1>19, <3>1 DEF PartOf
    <3>4. g + i \in 1 .. l /\ g = b
      BY <1>1, <1>13, <1>15, <3>1
    <3>5. r[g + i] = L[b + i]
      BY <1>12, <3>4
    <3> QED
      BY <2>2, <3>1, <3>2, <3>3, <3>5 DEF i
  <2> QED
    BY <2>1, <2>2
<1>25. PlacesOf(x, n)
  BY <1>13, <1>23
<1> QED
  BY <1>8, <1>24, <1>25 DEF KeptFrom

\* The same for the three rounds above.
LEMMA KeptIs ==
    ASSUME NEW c \in Configs, NEW kind \in AdviceKinds, NEW layout \in Layouts
    PROVE  LET a == LastColRound(c, kind, layout)
               b == BeforeRows(c, layout)
               e == LastRowRound(c, kind, layout)
           IN  KeptFrom(AdviceKept(c, kind, layout), Part(8, M8(c), c.log_T), a, b, a + (e - b))
<1> DEFINE a == LastColRound(c, kind, layout)
           b == BeforeRows(c, layout)
           e == LastRowRound(c, kind, layout)
           n == a + (e - b)
           L == Part(8, M8(c), c.log_T)
<1>1. a \in Nat /\ b \in Nat /\ e \in Nat /\ ScheduleOf(c, kind, layout, a, b, e)
  BY ScheduleIs
<1>2. PartOf(L, Challenges(8, M8(c)), M8(c) - c.log_T, c.log_T)
  BY LastVars
<1>3. n = a + (e - b)
  OBVIOUS
<1> HIDE DEF a, b, e, n, L
<1>4. KeptFrom(AdviceKept(c, kind, layout), L, a, b, n)
  BY <1>1, <1>2, <1>3, KeptOf
<1> QED
  BY <1>4 DEF a, b, e, n, L

\* The sizes of the main matrix and of an advice block in its corner.
BlockFits(T, K, C, R, M) ==
    /\ T \in Nat /\ K \in Nat /\ C \in Nat /\ R \in Nat /\ M \in Nat
    /\ K <= M /\ M <= T /\ C <= M /\ R + M <= K + T

\* The first C variables of w, and the first R after its first M.
Taken(v, w, C, M, R) ==
    /\ PlacesOf(v, C + R)
    /\ \A j \in 1 .. C : v[j] = w[j]
    /\ \A j \in 1 .. R : v[C + j] = w[M + j]

\* A list that begins another.
Begins(s, t, n) == PlacesOf(s, n) /\ \A j \in 1 .. n : s[j] = t[j]

\* Columns first: the rounds of the cycles end, and the rest are rows of the address.
LEMMA TakenCycle ==
    ASSUME NEW T, NEW K, NEW C, NEW R, NEW M, BlockFits(T, K, C, R, M),
           NEW L, NEW A, PlacesOf(L, T), PlacesOf(A, K),
           NEW e \in Nat, e = IF T <= M + R THEN T ELSE M + R,
           NEW m \in Nat, m = C + (e - M), NEW kept, KeptFrom(kept, L, C, M, m),
           NEW n \in Nat, n = (C + R) - m, NEW s, Begins(s, A, n)
    PROVE  Taken(kept \o s, L \o A, C, M, R)
<1> DEFINE v == kept \o s
           w == L \o A
<1>1. /\ T \in Nat /\ K \in Nat /\ C \in Nat /\ R \in Nat /\ M \in Nat
      /\ K <= M /\ M <= T /\ C <= M /\ R + M <= K + T
  BY DEF BlockFits
<1>2. PlacesOf(kept, m) /\ PlacesOf(s, n)
  BY DEF KeptFrom, Begins
<1>3. Joined(kept, m, s, n) /\ PlacesOf(v, m + n)
  BY <1>2, JoinPlaces, JoinedPlaces
<1>4. Joined(L, T, A, K)
  BY <1>1, JoinPlaces
<1>5. (\A i \in 1 .. m : v[i] = kept[i]) /\ \A i \in 1 .. n : v[m + i] = s[i]
  BY <1>3 DEF Joined
<1>6. (\A i \in 1 .. T : w[i] = L[i]) /\ \A i \in 1 .. K : w[T + i] = A[i]
  BY <1>4 DEF Joined
<1>7. \A i \in 1 .. m : kept[i] = IF i <= C THEN L[i] ELSE L[M + (i - C)]
  BY DEF KeptFrom
<1>8. \A i \in 1 .. n : s[i] = A[i]
  BY DEF Begins
<1>9. m + n = C + R /\ C <= m /\ (C + R > m => e = T) /\ e <= T /\ n <= K
  BY <1>1
<1>10. PlacesOf(v, C + R)
  BY <1>3, <1>9
<1> HIDE DEF v, w
<1>11. ASSUME NEW j \in 1 .. C PROVE v[j] = w[j]
  <2>1. j \in 1 .. m /\ j \in 1 .. T /\ j <= C
    BY <1>1, <1>9
  <2> QED
    BY <1>5, <1>6, <1>7, <2>1
<1>12. ASSUME NEW j \in 1 .. R PROVE v[C + j] = w[M + j]
  <2>1. CASE C + j <= m
    <3> DEFINE i == C + j
               h == M + j
    <3>1. i \in 1 .. m /\ ~(i <= C) /\ M + (i - C) = h /\ h \in 1 .. T
      BY <1>1, <1>9, <2>1
    <3> HIDE DEF i, h
    <3>2. v[i] = kept[i] /\ kept[i] = L[h] /\ w[h] = L[h]
      BY <1>5, <1>6, <1>7, <3>1
    <3> QED
      BY <3>2 DEF i, h
  <2>2. CASE C + j > m
    <3> DEFINE i == (C + j) - m
    <3>1. i \in 1 .. n /\ i \in 1 .. K /\ C + j = m + i /\ M + j = T + i
      BY <1>1, <1>9, <2>2
    <3> HIDE DEF i
    <3>2. v[m + i] = A[i] /\ w[T + i] = A[i]
      BY <1>5, <1>6, <1>8, <3>1
    <3> QED
      BY <3>1, <3>2
  <2> QED
    BY <1>1, <1>9, <2>1, <2>2
<1> QED
  BY <1>10, <1>11, <1>12 DEF Taken, v, w

\* Addresses first: they are the first columns, and all rows are cycles.
LEMMA TakenAddress ==
    ASSUME NEW T, NEW K, NEW C, NEW R, NEW M, BlockFits(T, K, C, R, M),
           NEW L, NEW A, PlacesOf(L, T), PlacesOf(A, K),
           NEW a \in Nat, a = IF C <= K THEN 0 ELSE C - K,
           NEW b \in Nat, b = M - K, NEW e \in Nat, e = b + R,
           NEW m \in Nat, m = a + (e - b), NEW kept, KeptFrom(kept, L, a, b, m),
           NEW n \in Nat, n = (C + R) - m, NEW s, Begins(s, A, n)
    PROVE  Taken(s \o kept, A \o L, C, M, R)
<1> DEFINE v == s \o kept
           w == A \o L
<1>1. /\ T \in Nat /\ K \in Nat /\ C \in Nat /\ R \in Nat /\ M \in Nat
      /\ K <= M /\ M <= T /\ C <= M /\ R + M <= K + T
  BY DEF BlockFits
<1>2. PlacesOf(kept, m) /\ PlacesOf(s, n)
  BY DEF KeptFrom, Begins
<1>3. Joined(s, n, kept, m) /\ PlacesOf(v, n + m)
  BY <1>2, JoinPlaces, JoinedPlaces
<1>4. Joined(A, K, L, T)
  BY <1>1, JoinPlaces
<1>5. (\A i \in 1 .. n : v[i] = s[i]) /\ \A i \in 1 .. m : v[n + i] = kept[i]
  BY <1>3 DEF Joined
<1>6. (\A i \in 1 .. K : w[i] = A[i]) /\ \A i \in 1 .. T : w[K + i] = L[i]
  BY <1>4 DEF Joined
<1>7. \A i \in 1 .. m : kept[i] = IF i <= a THEN L[i] ELSE L[b + (i - a)]
  BY DEF KeptFrom
<1>8. \A i \in 1 .. n : s[i] = A[i]
  BY DEF Begins
<1>9. n + m = C + R /\ m = a + R /\ n + a = C /\ n <= K /\ (n < C => n = K) /\ a <= T
  BY <1>1
<1>10. PlacesOf(v, C + R)
  BY <1>3, <1>9
<1> HIDE DEF v, w
<1>11. ASSUME NEW j \in 1 .. C PROVE v[j] = w[j]
  <2>1. CASE j <= n
    <3>1. j \in 1 .. n /\ j \in 1 .. K
      BY <1>1, <1>9, <2>1
    <3> QED
      BY <1>5, <1>6, <1>8, <3>1
  <2>2. CASE j > n
    <3> DEFINE i == j - n
    <3>1. i \in 1 .. m /\ i <= a /\ i \in 1 .. T /\ j = n + i /\ n = K
      BY <1>1, <1>9, <2>2
    <3> HIDE DEF i
    <3>2. v[n + i] = kept[i] /\ kept[i] = L[i] /\ w[K + i] = L[i]
      BY <1>5, <1>6, <1>7, <3>1
    <3> QED
      BY <3>1, <3>2
  <2> QED
    BY <1>1, <1>9, <2>1, <2>2
<1>12. ASSUME NEW j \in 1 .. R PROVE v[C + j] = w[M + j]
  <2> DEFINE i == a + j
             h == b + j
  <2>1. i \in 1 .. m /\ ~(i <= a) /\ b + (i - a) = h /\ h \in 1 .. T /\ C + j = n + i /\ M + j = K + h
    BY <1>1, <1>9
  <2> HIDE DEF i, h
  <2>2. v[n + i] = kept[i] /\ kept[i] = L[h] /\ w[K + h] = L[h]
    BY <1>5, <1>6, <1>7, <2>1
  <2> QED
    BY <2>1, <2>2
<1> QED
  BY <1>10, <1>11, <1>12 DEF Taken, v, w

\* What is taken is the list of the two parts.
LEMMA BlockIs ==
    ASSUME NEW w \in Points, NEW C \in Nat, NEW M \in Nat, NEW R \in Nat,
           C <= Len(w), M + R <= Len(w), NEW v, Taken(v, w, C, M, R)
    PROVE  v = First(w, C) \o SubSeq(w, M + 1, M + R)
<1> DEFINE x == First(w, C)
           y == SubSeq(w, M + 1, M + R)
           z == x \o y
           zero == 0
           E == M + R
<1>1. zero \in Nat /\ zero <= C /\ C = C - zero /\ x = SubSeq(w, zero + 1, C)
  BY FirstFromParts
<1>2. PartOf(x, w, zero, C)
  <2> HIDE DEF zero, x
  <2> QED
    BY <1>1, PartPlaces
<1>3. E \in Nat /\ M <= E /\ E <= Len(w) /\ R = E - M /\ y = SubSeq(w, M + 1, E)
  OBVIOUS
<1>4. PartOf(y, w, M, R)
  <2> HIDE DEF E, y
  <2> QED
    BY <1>3, PartPlaces
<1>5. PlacesOf(x, C) /\ PlacesOf(y, R)
  BY <1>2, <1>4 DEF PartOf
<1> HIDE DEF x, y
<1>6. Joined(x, C, y, R) /\ PlacesOf(z, C + R)
  BY <1>5, JoinPlaces, JoinedPlaces
<1>7. (\A i \in 1 .. C : z[i] = x[i]) /\ \A i \in 1 .. R : z[C + i] = y[i]
  BY <1>6 DEF Joined
<1>8. (\A i \in 1 .. C : x[i] = w[i]) /\ \A i \in 1 .. R : y[i] = w[M + i]
  BY <1>2, <1>4 DEF PartOf
<1> HIDE DEF z
<1>9. ASSUME NEW j \in 1 .. C + R PROVE v[j] = z[j]
  <2>1. CASE j <= C
    <3>1. j \in 1 .. C
      BY <2>1
    <3> QED
      BY <1>7, <1>8, <3>1 DEF Taken
  <2>2. CASE j > C
    <3> DEFINE i == j - C
    <3>1. i \in 1 .. R /\ j = C + i
      BY <2>2
    <3> HIDE DEF i
    <3>2. v[C + i] = w[M + i] /\ z[C + i] = y[i] /\ y[i] = w[M + i]
      BY <1>7, <1>8, <3>1 DEF Taken
    <3> QED
      BY <3>1, <3>2
  <2> QED
    BY <2>1, <2>2
<1>10. C + R \in Nat /\ PlacesOf(v, C + R)
  BY DEF Taken
<1>11. v = z
  <2> DEFINE n == C + R
  <2>1. n \in Nat /\ PlacesOf(v, n) /\ PlacesOf(z, n) /\ \A i \in 1 .. n : v[i] = z[i]
    BY <1>6, <1>9, <1>10
  <2> HIDE DEF n
  <2> QED
    BY <2>1, SamePlaces
<1> QED
  BY <1>11 DEF z, x, y

\* The order in which the variables of the advice and of the main matrix are bound:
\* stage 6 binds cycles and stage 7 addresses.
FinalVars(c, kind, layout) ==
    IF layout = "CycleMajor" THEN AdviceKept(c, kind, layout) \o AddressSlice(c, kind, layout)
    ELSE AddressSlice(c, kind, layout) \o AdviceKept(c, kind, layout)

\* The challenges of stage 7.
LastAddr == Part(9, LogKChunk, LogKChunk)

\* The last ones of stage 6.
LastCyc(c) == Part(8, M8(c), c.log_T)

\* The variables of the main matrix, the first bound first.
RoundVars(c, layout) ==
    IF layout = "CycleMajor" THEN LastCyc(c) \o LastAddr ELSE LastAddr \o LastCyc(c)

\* The challenges of the last address and of the last cycle.
LEMMA LastSizes ==
    ASSUME NEW c \in Configs, NEW K, K = LogKChunk, NEW T, T = c.log_T
    PROVE  /\ LastCyc(c) \in Points /\ Len(LastCyc(c)) = T /\ PlacesOf(LastCyc(c), T)
           /\ LastAddr \in Points /\ Len(LastAddr) = K /\ PlacesOf(LastAddr, K)
           /\ K \in Nat /\ T \in Nat /\ \A j \in 1 .. K : LastAddr[j] = Challenges(9, K)[j]
<1> DEFINE m == M8(c)
           b == 8
           d == 9
           L == LastCyc(c)
           A == LastAddr
           p == Challenges(d, K)
<1>1. m \in Nat /\ K \in Nat /\ T \in 0 .. m /\ T \in Nat /\ b \in Nat /\ d \in Nat
  BY Sizes8
<1>2. L = Part(b, m, T) /\ A = Part(d, K, K)
  BY DEF LastCyc, LastAddr
<1>3. p = [j \in 1 .. K |-> <<d, j>>]
  BY DEF Challenges
<1>4. p = Challenges(9, K)
  OBVIOUS
<1> HIDE DEF m, b, d, L, A, p
<1>5. L \in Points /\ Len(L) = T
  BY <1>1, <1>2, PartFacts
<1>6. A \in Points /\ Len(A) = K /\ \A j \in 1 .. K : A[j] = <<d, j>>
  BY <1>1, <1>2, WholePart
<1>7. PlacesOf(L, T)
  BY <1>5, PointPlaces
<1>8. PlacesOf(A, K)
  BY <1>6, PointPlaces
<1>9. \A j \in 1 .. K : A[j] = p[j]
  BY <1>3, <1>6
<1> QED
  BY <1>1, <1>4, <1>5, <1>6, <1>7, <1>8, <1>9 DEF L, A

\* Stage 7 binds the first address variables for the advice.
LEMMA SliceBegins ==
    ASSUME NEW c \in Configs, NEW kind \in AdviceKinds, NEW layout \in Layouts,
           NEW n, n = AddressPhaseRounds(c, kind, layout)
    PROVE  Begins(AddressSlice(c, kind, layout), LastAddr, n) /\ n \in Nat
<1> DEFINE K == LogKChunk
           s == AddressSlice(c, kind, layout)
           d == 9
           p == Challenges(d, K)
           A == LastAddr
           zero == 0
<1>1. K \in Nat /\ \A j \in 1 .. K : A[j] = p[j]
  BY LastSizes
<1>2. n \in 0 .. K
  BY CycleSizes
<1>3. d \in Nat /\ zero \in Nat /\ zero + 1 = 1
  OBVIOUS
<1>4. s = SubSeq(p, 1, n)
  BY DEF AddressSlice
<1>5. p \in Points /\ Len(p) = K
  <2> HIDE DEF d, K
  <2> QED
    BY <1>1, <1>3, ChallengesPoint
<1> HIDE DEF p, K, s, A, zero, d
<1>6. s = SubSeq(p, zero + 1, n)
  BY <1>3, <1>4
<1>7. n \in Nat /\ zero <= n /\ n <= Len(p) /\ n = n - zero
  BY <1>1, <1>2, <1>5 DEF zero
<1>8. PartOf(s, p, zero, n)
  BY <1>3, <1>5, <1>6, <1>7, PartPlaces
<1>9. \A j \in 1 .. n : s[j] = p[j]
  <2>1. \A j \in 1 .. n : zero + j = j
    BY <1>7 DEF zero
  <2> QED
    BY <1>8, <2>1 DEF PartOf
<1>10. \A j \in 1 .. n : j \in 1 .. K
  BY <1>1, <1>2
<1>11. PlacesOf(s, n)
  BY <1>8 DEF PartOf
<1> QED
  BY <1>1, <1>7, <1>9, <1>10, <1>11 DEF Begins, s, A

\* The sizes of the matrix and of the advice.
LEMMA BlockSizes ==
    ASSUME NEW c \in Configs, NEW kind \in AdviceKinds
    PROVE  BlockFits(c.log_T, LogKChunk, AdviceCols(c, kind), AdviceRows(c, kind), MainCols(c))
<1>1. /\ c.log_T \in Nat /\ LogKChunk \in Nat
      /\ AdviceCols(c, kind) \in Nat /\ AdviceRows(c, kind) \in Nat /\ MainCols(c) \in Nat
      /\ AdviceCols(c, kind) <= MainCols(c)
      /\ AdviceRows(c, kind) + MainCols(c) <= LogKChunk + c.log_T
  BY AdviceSizes
<1> QED
  BY <1>1, MainColsFit DEF BlockFits

\* The variables of the advice are those of its block.
LEMMA FinalTaken ==
    ASSUME NEW c \in Configs, NEW kind \in AdviceKinds, NEW layout \in Layouts
    PROVE  Taken(FinalVars(c, kind, layout), RoundVars(c, layout),
                 AdviceCols(c, kind), MainCols(c), AdviceRows(c, kind))
<1> DEFINE T == c.log_T
           K == LogKChunk
           C == AdviceCols(c, kind)
           R == AdviceRows(c, kind)
           M == MainCols(c)
           L == LastCyc(c)
           A == LastAddr
           a == LastColRound(c, kind, layout)
           b == BeforeRows(c, layout)
           e == LastRowRound(c, kind, layout)
           m == a + (e - b)
           n == AddressPhaseRounds(c, kind, layout)
           kept == AdviceKept(c, kind, layout)
           s == AddressSlice(c, kind, layout)
<1>1. BlockFits(T, K, C, R, M)
  BY BlockSizes
<1>2. PlacesOf(L, T) /\ PlacesOf(A, K)
  BY LastSizes
<1>3. KeptFrom(kept, L, a, b, m)
  BY KeptIs DEF LastCyc
<1>4. Begins(s, A, n) /\ n \in Nat
  BY SliceBegins
<1>5. a \in Nat /\ b \in Nat /\ e \in Nat /\ ScheduleOf(c, kind, layout, a, b, e)
  BY ScheduleIs
<1>6. n = AdviceVars(c, kind) - m
  <2> HIDE DEF a, b, e
  <2> QED
    BY <1>5, ScheduleCounts
<1>7. AdviceVars(c, kind) = C + R
  BY AdviceSizes
<1>8. n = (C + R) - m
  <2> HIDE DEF C, R, m, n
  <2> QED
    BY <1>6, <1>7
<1>9. m \in Nat
  <2>1. b <= e
    BY <1>5 DEF ScheduleOf
  <2> HIDE DEF a, b, e
  <2> QED
    BY <1>5, <2>1
<1>10. CASE layout = "CycleMajor"
  <2>1. a = C /\ b = M /\ e = IF T <= M + R THEN T ELSE M + R
    BY <1>10 DEF LastColRound, BeforeRows, LastRowRound
  <2>2. m = C + (e - M)
    BY <2>1
  <2>3. FinalVars(c, kind, layout) = kept \o s /\ RoundVars(c, layout) = L \o A
    BY <1>10 DEF FinalVars, RoundVars
  <2> HIDE DEF T, K, C, R, M, L, A, a, b, e, m, n, kept, s
  <2>4. KeptFrom(kept, L, C, M, m)
    BY <1>3, <2>1
  <2>5. Taken(kept \o s, L \o A, C, M, R)
    BY <1>1, <1>2, <1>4, <1>5, <1>8, <1>9, <2>1, <2>2, <2>4, TakenCycle
  <2> QED
    BY <2>3, <2>5 DEF C, M, R
<1>11. CASE layout = "AddressMajor"
  <2>1. a = (IF C <= K THEN 0 ELSE C - K) /\ b = M - K /\ e = b + R
    BY <1>11 DEF LastColRound, BeforeRows, LastRowRound
  <2>2. m = a + (e - b)
    OBVIOUS
  <2>3. FinalVars(c, kind, layout) = s \o kept /\ RoundVars(c, layout) = A \o L
    BY <1>11 DEF FinalVars, RoundVars
  <2> HIDE DEF T, K, C, R, M, L, A, a, b, e, m, n, kept, s
  <2>4. Taken(s \o kept, A \o L, C, M, R)
    BY <1>1, <1>2, <1>3, <1>4, <1>5, <1>8, <1>9, <2>1, <2>2, TakenAddress
  <2> QED
    BY <2>3, <2>4 DEF C, M, R
<1> QED
  BY <1>10, <1>11 DEF Layouts

\* A point turned round twice, and two points turned round.
LEMMA ReverseTwice ==
    ASSUME NEW s \in Points
    PROVE  Reverse(Reverse(s)) = s
<1> DEFINE n == Len(s)
           t == Reverse(s)
           w == Reverse(t)
<1>1. n \in Nat /\ PlacesOf(s, n)
  BY PointPlaces
<1>2. t \in Points /\ Len(t) = n
  BY ReversePoint
<1>3. \A j \in 1 .. n : t[j] = s[n + 1 - j]
  BY ReversePlaces
<1> HIDE DEF n, t
<1>4. PlacesOf(w, n) /\ \A j \in 1 .. n : w[j] = t[n + 1 - j]
  BY <1>2, ReversePlaces
<1> HIDE DEF w
<1>5. ASSUME NEW j \in 1 .. n PROVE w[j] = s[j]
  <2> DEFINE i == n + 1 - j
  <2>1. i \in 1 .. n /\ n + 1 - i = j
    BY <1>1
  <2>2. w[j] = t[i]
    BY <1>4
  <2> HIDE DEF i
  <2>3. t[i] = s[n + 1 - i]
    BY <1>3, <2>1
  <2> QED
    BY <2>1, <2>2, <2>3
<1> QED
  BY <1>1, <1>4, <1>5, SamePlaces DEF w, t

\* Two points in a row, in the other order.
LEMMA ReverseJoined ==
    ASSUME NEW s \in Points, NEW t \in Points
    PROVE  Reverse(s \o t) = Reverse(t) \o Reverse(s)
<1> DEFINE n == Len(s)
           m == Len(t)
           w == s \o t
           x == Reverse(s)
           y == Reverse(t)
           u == Reverse(w)
           v == y \o x
           k == n + m
<1>1. n \in Nat /\ PlacesOf(s, n) /\ m \in Nat /\ PlacesOf(t, m)
  BY PointPlaces
<1>2. w \in Points /\ Len(w) = k
  BY JoinPoints
<1>3. PlacesOf(x, n) /\ \A j \in 1 .. n : x[j] = s[n + 1 - j]
  BY ReversePlaces
<1>4. PlacesOf(y, m) /\ \A j \in 1 .. m : y[j] = t[m + 1 - j]
  BY ReversePlaces
<1>5. k \in Nat /\ k = n + m
  BY <1>1
<1> HIDE DEF n, m, x, y
<1>6. Joined(s, n, t, m)
  BY <1>1, JoinPlaces
<1>7. Joined(y, m, x, n) /\ PlacesOf(v, m + n)
  BY <1>1, <1>3, <1>4, JoinPlaces, JoinedPlaces
<1>8. (\A j \in 1 .. n : w[j] = s[j]) /\ \A j \in 1 .. m : w[n + j] = t[j]
  BY <1>6 DEF Joined
<1>9. (\A j \in 1 .. m : v[j] = y[j]) /\ \A j \in 1 .. n : v[m + j] = x[j]
  BY <1>7 DEF Joined
<1> HIDE DEF w, v, k
<1>10. PlacesOf(u, k) /\ \A j \in 1 .. k : u[j] = w[k + 1 - j]
  BY <1>2, ReversePlaces
<1>11. PlacesOf(v, k)
  BY <1>1, <1>5, <1>7
<1> HIDE DEF u
<1>12. ASSUME NEW j \in 1 .. k PROVE u[j] = v[j]
  <2>1. CASE j <= m
    <3> DEFINE i == m + 1 - j
    <3>1. i \in 1 .. m /\ k + 1 - j = n + i /\ j \in 1 .. m
      BY <1>1, <1>5, <2>1
    <3>2. y[j] = t[i]
      BY <1>4, <3>1
    <3> HIDE DEF i
    <3>3. u[j] = w[n + i] /\ w[n + i] = t[i] /\ v[j] = y[j]
      BY <1>8, <1>9, <1>10, <3>1
    <3> QED
      BY <3>2, <3>3
  <2>2. CASE j > m
    <3> DEFINE h == j - m
               i == n + 1 - h
    <3>1. h \in 1 .. n /\ i \in 1 .. n /\ k + 1 - j = i /\ j = m + h
      BY <1>1, <1>5, <2>2
    <3>2. x[h] = s[i]
      BY <1>3, <3>1
    <3> HIDE DEF h, i
    <3>3. u[j] = w[i] /\ w[i] = s[i] /\ v[m + h] = x[h]
      BY <1>8, <1>9, <1>10, <3>1
    <3> QED
      BY <3>1, <3>2, <3>3
  <2> QED
    BY <1>1, <1>5, <2>1, <2>2
<1> QED
  BY <1>5, <1>10, <1>11, <1>12, SamePlaces DEF u, v, w, x, y

\* The variables of the matrix, in the order of the rounds that bind them.
LEMMA VariablesAre ==
    ASSUME NEW c \in Configs, NEW layout \in Layouts, NEW t, t.layout = layout,
           NEW p, p = UnifiedPt(c)
    PROVE  /\ Reverse(MatrixOrder(t, First(p, LogKChunk), From(p, LogKChunk))) = RoundVars(c, layout)
           /\ RoundVars(c, layout) \in Points /\ Len(RoundVars(c, layout)) = LogKChunk + c.log_T
<1> DEFINE K == LogKChunk
           T == c.log_T
           L == LastCyc(c)
           A == LastAddr
           x == Reverse(A)
           y == Reverse(L)
<1>1. L \in Points /\ Len(L) = T /\ A \in Points /\ Len(A) = K /\ K \in Nat /\ T \in Nat
  BY LastSizes
<1>2. x \in Points /\ Len(x) = K /\ y \in Points
  BY <1>1, ReversePoint
<1>3. p = x \o y
  BY DEF UnifiedPt, Pt6, CyclePt, LastAddr, LastCyc
<1> HIDE DEF K, T, L, A
<1>4. First(p, K) = x /\ From(p, K) = y
  <2> HIDE DEF x, y
  <2>1. First(x \o y, K) = x /\ From(x \o y, K) = y
    BY <1>2, JoinSplit
  <2> QED
    BY <1>3, <2>1
<1>5. Reverse(x) = A /\ Reverse(y) = L
  BY <1>1, ReverseTwice
<1> HIDE DEF x, y
<1>6. Reverse(x \o y) = L \o A /\ Reverse(y \o x) = A \o L
  BY <1>2, <1>5, ReverseJoined
<1>7. /\ L \o A \in Points /\ Len(L \o A) = T + K
      /\ A \o L \in Points /\ Len(A \o L) = K + T
  BY <1>1, JoinPoints
<1>8. T + K = K + T
  BY <1>1
<1>9. CASE layout = "CycleMajor"
  <2>1. MatrixOrder(t, First(p, K), From(p, K)) = x \o y
    BY <1>4, <1>9 DEF MatrixOrder
  <2>2. RoundVars(c, layout) = L \o A
    BY <1>9 DEF RoundVars, L, A
  <2> QED
    BY <1>6, <1>7, <1>8, <2>1, <2>2 DEF K, T
<1>10. CASE layout = "AddressMajor"
  <2>1. MatrixOrder(t, First(p, K), From(p, K)) = y \o x
    BY <1>4, <1>10 DEF MatrixOrder
  <2>2. RoundVars(c, layout) = A \o L
    BY <1>10 DEF RoundVars, L, A
  <2> QED
    BY <1>6, <1>7, <2>1, <2>2 DEF K, T
<1> QED
  BY <1>9, <1>10 DEF Layouts

\* The advice's claim is left by the phase that binds its last variable.
LEMMA FinalKnown ==
    ASSUME NEW c \in Configs, NEW layout \in Layouts, NEW kind \in Range(KindsOf(c))
    PROVE  /\ Use(AdviceFinal(kind), Reverse(FinalVars(c, kind, layout))) \in K7(c, layout)
           /\ FinalVars(c, kind, layout) \in Points
<1> DEFINE n == AddressPhaseRounds(c, kind, layout)
           kept == AdviceKept(c, kind, layout)
           s == AddressSlice(c, kind, layout)
           u == Use(AdviceFinal(kind), Reverse(FinalVars(c, kind, layout)))
<1>1. kind \in AdviceKinds
  BY KindsAre
<1>2. kept \in Points /\ s \in Points /\ Len(s) = n /\ n \in Nat
  BY <1>1, AdviceSliceIs, AddressSliceIs, CycleSizes
<1>3. FinalVars(c, kind, layout) \in Points
  <2>1. kept \o s \in Points /\ s \o kept \in Points
    BY <1>2, JoinPoints
  <2> QED
    BY <2>1 DEF FinalVars
<1>4. CASE n = 0
  <2>1. FinalVars(c, kind, layout) = kept
    <3>1. s = <<>>
      BY <1>2, <1>4 DEF Points
    <3>2. kept \o <<>> = kept /\ <<>> \o kept = kept
      BY <1>2 DEF Points
    <3> QED
      BY <3>1, <3>2 DEF FinalVars
  <2>2. u \in CycleClaims(c, kind, layout)
    BY <1>4, <2>1 DEF CycleClaims, CycleFinal
  <2>3. PICK i \in 1 .. CycleCount(c) : AdviceOrder(c)[i] = kind
    BY OrderKinds
  <2>4. u \in All(CycleGroup(c, layout), CycleCount(c))
    <3>1. CycleGroup(c, layout)[i] = CycleClaims(c, kind, layout)
      BY <2>3, CycleGroupIs
    <3> HIDE DEF u
    <3> QED
      BY <2>2, <3>1 DEF All
  <2> QED
    BY <1>3, <2>4 DEF K7, K6, Stage6Claims
<1>5. CASE n > 0
  <2>1. HasAddress(c, kind, layout)
    BY <1>5 DEF HasAddress
  <2>2. u = AddressFinal(c, kind, layout)
    BY DEF AddressFinal, AddressPhasePoint, FinalVars
  <2>3. PICK i \in 1 .. AddressCount(c, layout) : AddressOrder(c, layout)[i] = kind
    BY <1>1, <2>1, AddressOrderIs
  <2>4. AddressGroup(c, layout)[i] = {u}
    BY <2>2, <2>3, AddressGroupIs
  <2>5. u \in All(AddressGroup(c, layout), AddressCount(c, layout))
    <3> HIDE DEF u
    <3> QED
      BY <2>4 DEF All
  <2> QED
    BY <1>3, <2>5 DEF K7, Stage7Claims
<1> QED
  BY <1>2, <1>4, <1>5

\* The advice is opened in its block of the matrix.
LEMMA AdviceOpened ==
    ASSUME NEW c \in Configs, NEW layout \in Layouts, NEW kind \in Range(KindsOf(c)),
           NEW acc, Knows(acc, K7(c, layout))
    PROVE  /\ Has(acc, AdviceFinal(kind))
           /\ Reverse(PointOf(acc, AdviceFinal(kind))) = Embedded(RoundVars(c, layout), c, kind)
<1> DEFINE v == FinalVars(c, kind, layout)
           w == RoundVars(c, layout)
           C == AdviceCols(c, kind)
           R == AdviceRows(c, kind)
           M == MainCols(c)
           k == AdviceFinal(kind)
           q == Reverse(v)
           T == K7(c, layout)
<1>1. kind \in AdviceKinds
  BY KindsAre
<1>2. Use(k, q) \in T /\ v \in Points
  BY FinalKnown
<1>3. Has(acc, k) /\ PointOf(acc, k) = q
  <2> HIDE DEF k, q, T
  <2>1. Knows(acc, T)
    BY DEF T
  <2> QED
    BY <1>2, <2>1, KnownUse
<1>4. Reverse(q) = v
  BY <1>2, ReverseTwice
<1>5. Taken(v, w, C, M, R)
  BY <1>1, FinalTaken
<1>6. w \in Points /\ Len(w) = LogKChunk + c.log_T
  <2> DEFINE t == [layout |-> layout]
  <2>1. t.layout = layout
    OBVIOUS
  <2> HIDE DEF t, w
  <2> QED
    BY <2>1, VariablesAre DEF w
<1>7. /\ C \in Nat /\ M \in Nat /\ R \in Nat /\ C <= M /\ M <= c.log_T
      /\ R + M <= LogKChunk + c.log_T /\ LogKChunk \in Nat /\ c.log_T \in Nat
  BY <1>1, AdviceSizes, MainColsFit
<1>8. v = First(w, C) \o SubSeq(w, M + 1, M + R)
  <2> HIDE DEF v, w, C, M, R
  <2>1. C <= Len(w) /\ M + R <= Len(w)
    BY <1>6, <1>7
  <2> QED
    BY <1>5, <1>6, <1>7, <2>1, BlockIs
<1> QED
  BY <1>3, <1>4, <1>8 DEF Embedded

\* One-hot polynomials are opened at the unified point, and increments at its cycle.
LEMMA OthersOpened ==
    ASSUME NEW c \in Configs, NEW layout \in Layouts, NEW acc, Knows(acc, K7(c, layout))
    PROVE  /\ \A p \in Range(RaPolynomials(c)) :
                 PointOf(acc, At(p, "HammingWeightClaimReduction")) = UnifiedPt(c)
           /\ PointOf(acc, UnifiedId) = UnifiedPt(c)
           /\ PointOf(acc, RamInc("IncClaimReduction")) = Pt6(c)
           /\ PointOf(acc, RdInc("IncClaimReduction")) = Pt6(c)
<1> DEFINE T == K7(c, layout)
           s == "HammingWeightClaimReduction"
           d == "IncClaimReduction"
           polys == RaPolynomials(c)
<1>1. UnifiedClaims(c) \subseteq T
  BY Group7Is DEF K7, Stage7Claims
<1>2. IncClaims(c) \subseteq T
  <2>1. Group6(c)[6] = IncClaims(c)
    BY Group6Is
  <2>2. Group6(c)[6] \subseteq All(Group6(c), 6)
    BY AllOfSix
  <2> QED
    BY <2>1, <2>2 DEF K7, K6, Stage6Claims
<1>3. EachOf(polys, s, UnifiedPt(c)) \subseteq T
  BY <1>1 DEF UnifiedClaims
<1>4. EachOf(IncPolys, d, Pt6(c)) \subseteq T
  BY <1>2 DEF IncClaims
<1> HIDE DEF T, s, d, polys
<1>5. Knows(acc, T)
  BY DEF T
<1>6. \A p \in Range(polys) : PointOf(acc, At(p, s)) = UnifiedPt(c)
  BY <1>3, <1>5, EachKnown
<1>7. CommAt("InstructionRa", 1) \in Range(polys)
  <2>1. 1 \in 1 .. InstructionD
    BY ChunkSizes
  <2> QED
    BY <2>1, RaIs DEF polys
<1>8. Comm("RamInc") \in Range(IncPolys) /\ Comm("RdInc") \in Range(IncPolys)
  BY ListRanges
<1>9. \A p \in Range(IncPolys) : PointOf(acc, At(p, d)) = Pt6(c)
  BY <1>4, <1>5, EachKnown
<1>10. PointOf(acc, UnifiedId) = UnifiedPt(c)
  BY <1>6, <1>7 DEF UnifiedId, s
<1>11. PointOf(acc, RamInc(d)) = Pt6(c) /\ PointOf(acc, RdInc(d)) = Pt6(c)
  BY <1>8, <1>9 DEF RamInc, RdInc
<1> QED
  BY <1>6, <1>10, <1>11 DEF polys, s, d

\* Once the claims for the opening have been taken, all commitments can be opened at
\* one point of the proof's main matrix: one-hot polynomials at the unified point of
\* stage 7, increments at its cycle, advice at the coordinates of its block.
THEOREM OpenedCorrect == Spec => []OpenedAtUnifiedPoint
<1>1. KnowsInv => OpenedAtUnifiedPoint
  <2> SUFFICES ASSUME KnowsInv, stage.prover \in {"open", "done"} PROVE OpenedAtUnifiedPoint
    BY DEF OpenedAtUnifiedPoint
  <2> DEFINE c == config
             layout == config.layout
             acc == prover.acc
             p == UnifiedPt(c)
             K == LogKChunk
             t == thread.prover
  <2>1. c \in Configs /\ t.layout = layout
    BY DEF KnowsInv, ThreadInv
  <2>2. layout \in Layouts
    BY <2>1, ConfigAssumption
  <2>3. Knows(acc, K7(c, layout))
    BY DEF KnowsInv, AtStage, After8, After7, SideKnows
  <2> HIDE DEF acc, t, layout, c
  <2>4. /\ \A q \in Range(RaPolynomials(c)) : PointOf(acc, At(q, "HammingWeightClaimReduction")) = p
        /\ PointOf(acc, UnifiedId) = p
        /\ PointOf(acc, RamInc("IncClaimReduction")) = Pt6(c)
        /\ PointOf(acc, RdInc("IncClaimReduction")) = Pt6(c)
    BY <2>1, <2>2, <2>3, OthersOpened
  <2>5. Len(p) = K + c.log_T /\ From(p, K) = Pt6(c)
    BY <2>1, UnifiedPtIs
  <2>6. Reverse(MatrixOrder(t, First(p, K), From(p, K))) = RoundVars(c, layout)
    BY <2>1, <2>2, VariablesAre
  <2>7. \A kind \in Range(KindsOf(c)) :
           /\ Has(acc, AdviceFinal(kind))
           /\ Reverse(PointOf(acc, AdviceFinal(kind))) = Embedded(RoundVars(c, layout), c, kind)
    BY <2>1, <2>2, <2>3, AdviceOpened
  <2> HIDE DEF p, K
  <2>8. /\ Len(PointOf(acc, UnifiedId)) = K + c.log_T
        /\ \A q \in Range(RaPolynomials(c)) :
              PointOf(acc, At(q, "HammingWeightClaimReduction")) = PointOf(acc, UnifiedId)
        /\ PointOf(acc, RamInc("IncClaimReduction")) = From(PointOf(acc, UnifiedId), K)
        /\ PointOf(acc, RdInc("IncClaimReduction")) = From(PointOf(acc, UnifiedId), K)
        /\ Reverse(MatrixOrder(t, First(PointOf(acc, UnifiedId), K), From(PointOf(acc, UnifiedId), K)))
             = RoundVars(c, layout)
    BY <2>4, <2>5, <2>6
  <2> QED
    BY <2>7, <2>8 DEF OpenedAtUnifiedPoint, c, acc, t, K
<1> QED
  BY <1>1, KnowsAlways, PTL

=============================================================================
