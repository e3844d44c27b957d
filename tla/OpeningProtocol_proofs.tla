----------------------- MODULE OpeningProtocol_proofs -----------------------
(***************************************************************************)
(* For every set of keys, points and claims, and scripts of every length:  *)
(* an honest proof never meets an assertion on duplicate claims, prover    *)
(* and verifier absorb the same claims, and what either reads for a key is *)
(* the opening of its polynomial.                                          *)
(***************************************************************************)
EXTENDS OpeningProtocol, SequenceFacts, FiniteSetTheorems

----------------------------------------------------------------------------
(* The least of a set of places. *)

\* The least place of an index is one of its places.
LEMMA MinIsIn ==
    ASSUME NEW T \in SUBSET Nat, T # {}
    PROVE  Min(T) \in T
BY LeastElement DEF Min

----------------------------------------------------------------------------
(* Resolving an alias. *)

\* Where one alias leads.
Target(acc, k) == IF k \in DOMAIN acc.aliases THEN acc.aliases[k] ELSE k

\* resolve_alias ends after one step when no alias leads to an aliased key.
LEMMA ResolveIsTarget ==
    ASSUME NEW acc, NEW k, IsFiniteSet(DOMAIN acc.aliases),
           \A j \in DOMAIN acc.aliases : acc.aliases[j] \notin DOMAIN acc.aliases
    PROVE  Resolve(acc, k) = Target(acc, k)
<1> DEFINE n == Cardinality(DOMAIN acc.aliases)
           step(x) == IF x \in DOMAIN acc.aliases THEN acc.aliases[x] ELSE x
           E(f) == [i \in 0 .. n |-> IF i = 0 THEN k ELSE step(f[i - 1])]
           follow == CHOOSE f : f = E(f)
           g == [i \in 0 .. n |-> IF i = 0 THEN k ELSE Target(acc, k)]
<1>1. n \in Nat /\ (k \in DOMAIN acc.aliases => n # 0)
  BY FS_CardinalityType, FS_EmptySet
<1>2. Resolve(acc, k) = follow[n]
  BY DEF Resolve
<1>3. g = E(g)
  BY <1>1 DEF Target
<1>4. follow = E(follow)
  BY <1>3
<1> HIDE DEF follow
<1> DEFINE S == {i \in Nat : i \in 0 .. n => follow[i] = g[i]}
<1>5. 0 \in S
  BY <1>1, <1>4
<1>6. ASSUME NEW i \in Nat, i \in S PROVE i + 1 \in S
  <2>1. CASE i + 1 \in 0 .. n
    <3>1. follow[i + 1] = step(follow[i])
      BY <1>1, <1>4, <2>1
    <3>2. follow[i] = g[i]
      BY <1>1, <1>6, <2>1
    <3>3. g[i + 1] = step(g[i])
      BY <1>1, <2>1 DEF Target
    <3> QED
      BY <3>1, <3>2, <3>3
  <2> QED
    BY <2>1
<1>7. n \in S
  <2> HIDE DEF S
  <2> QED BY <1>1, <1>5, <1>6, NatSetInduction
<1> QED
  BY <1>1, <1>2, <1>7 DEF Target

----------------------------------------------------------------------------
(* The inductive invariant.  It says what an accumulator holds in terms of  *)
(* the script alone, so that both sides, which know different things, can  *)
(* be compared step by step.                                               *)

\* The steps a prover takes.
ProverSteps ==
    [flush : {TRUE}]
    \cup [flush : {FALSE}, key : Key \ Intermediate, point : OpenPoints]
    \cup [flush : {FALSE}, key : Intermediate, point : {NoPoint}]

SamePlace(s, i, j) == PolyOf(s[i].key) = PolyOf(s[j].key) /\ s[i].point = s[j].point

\* Step i of s opens its polynomial at a point it was not opened at before ...
Fresh(s, i) ==
    /\ ~s[i].flush
    /\ \A j \in 1 .. i - 1 : ~s[j].flush => ~SamePlace(s, i, j)

\* ... or at one it was.
Stale(s, i) == ~s[i].flush /\ ~Fresh(s, i)

\* A sumcheck opens each of its polynomials once.
DistinctKeys(s) ==
    \A i, j \in 1 .. Len(s) : ~s[i].flush /\ ~s[j].flush /\ s[i].key = s[j].key => i = j

AccumulatorType(acc) ==
    /\ acc \in [openings : {acc.openings}, by_poly : [Poly -> Seq(Key)],
                aliases : {acc.aliases}, pending : Seq(Claim), pending_ids : Seq(Key)]
    /\ DOMAIN acc.openings \subseteq Key
    /\ acc.openings \in [DOMAIN acc.openings -> [point : Point, claim : Claim]]
    /\ acc.aliases = [k \in DOMAIN acc.aliases |-> acc.aliases[k]]
    /\ IsFiniteSet(DOMAIN acc.aliases)

\* Fresh steps have an opening at their point.
FreshOpen(acc, s, n) ==
    \A i \in 1 .. n : Fresh(s, i) =>
        s[i].key \in DOMAIN acc.openings /\ acc.openings[s[i].key].point = s[i].point

\* The index has keys of fresh steps only, each under its polynomial ...
IndexSound(acc, s, n) ==
    \A p \in Poly : \A x \in DOMAIN acc.by_poly[p] :
        \E i \in 1 .. n : Fresh(s, i) /\ PolyOf(s[i].key) = p /\ acc.by_poly[p][x] = s[i].key

\* ... and all whose point has coordinates.
IndexComplete(acc, s, n) ==
    \A i \in 1 .. n : Fresh(s, i) /\ s[i].point # NoPoint =>
        \E x \in DOMAIN acc.by_poly[PolyOf(s[i].key)] :
            acc.by_poly[PolyOf(s[i].key)][x] = s[i].key

StaleKeys(s, n) == {s[i].key : i \in {j \in 1 .. n : Stale(s, j)}}

\* Stale steps have an alias to the fresh one they repeat.
StaleAliased(acc, s, n) ==
    \A i \in 1 .. n : Stale(s, i) =>
        \E j \in 1 .. n : Fresh(s, j) /\ SamePlace(s, i, j) /\ acc.aliases[s[i].key] = s[j].key

\* The openings, index and aliases of an accumulator that has followed n steps
\* of s.
Follows(acc, s, n) ==
    /\ FreshOpen(acc, s, n)
    /\ IndexSound(acc, s, n)
    /\ IndexComplete(acc, s, n)
    /\ DOMAIN acc.aliases = StaleKeys(s, n)
    /\ StaleAliased(acc, s, n)

\* The openings are those of the fresh steps of the whole script, with the
\* values of the polynomials.
TrueOpenings(acc, s) ==
    /\ \A k \in DOMAIN acc.openings :
          \E i \in 1 .. Len(s) : Fresh(s, i) /\ k = s[i].key
    /\ \A i \in 1 .. Len(s) : Fresh(s, i) =>
          /\ s[i].key \in DOMAIN acc.openings
          /\ acc.openings[s[i].key].claim = TrueClaim(s[i].key, s[i].point)

\* What has been absorbed and what waits to be.
Queue(acc, transcript) ==
    [sent |-> transcript, pending |-> acc.pending, ids |-> acc.pending_ids]

EmptyQueue == [sent |-> <<>>, pending |-> <<>>, ids |-> <<>>]

\* The queue after step n of the script, from the queue before.
QueueStep(s, n, q) ==
    IF s[n].flush THEN [sent |-> q.sent \o q.pending, pending |-> <<>>, ids |-> <<>>]
    ELSE IF Fresh(s, n)
         THEN [sent |-> q.sent,
               pending |-> Append(q.pending, TrueClaim(s[n].key, s[n].point)),
               ids |-> Append(q.ids, s[n].key)]
         ELSE q

\* h is the history of the queue along the script, all of which the prover has
\* absorbed.
QueueHistory(h, s, transcript) ==
    /\ h \in [0 .. Len(s) -> [sent : Seq(Claim), pending : Seq(Claim), ids : Seq(Key)]]
    /\ h[0] = EmptyQueue
    /\ \A n \in 1 .. Len(s) : h[n] = QueueStep(s, n, h[n - 1])
    /\ \A n \in 0 .. Len(s) : IsPrefix(h[n].sent, transcript)

\* The prover is at the end of the history, an honest verifier where it is in
\* the script.
SameQueue ==
    \E h : /\ QueueHistory(h, script, p_transcript)
           /\ h[Len(script)] = Queue(prover, p_transcript)
           /\ honest => h[at] = Queue(verifier, v_transcript)

TypeInv ==
    /\ eval \in Evaluations
    /\ mid \in Claim
    /\ phase \in {"prove", "verify", "panic"}
    /\ honest \in BOOLEAN
    /\ at \in 0 .. Len(script)
    /\ AccumulatorType(prover)
    /\ AccumulatorType(verifier)
    /\ p_transcript \in Seq(Claim)
    /\ v_transcript \in Seq(Claim)

\* The claims of the fresh steps have been absorbed, or wait to be.
Absorbed(acc, transcript, s, n) ==
    \A i \in 1 .. n : Fresh(s, i) =>
        acc.openings[s[i].key].claim \in Range(transcript) \cup Range(acc.pending)

\* What holds of the verifier, whatever proof it has.
VerifierInv ==
    /\ Follows(verifier, script, at)
    /\ Absorbed(verifier, v_transcript, script, at)
    /\ honest /\ phase = "verify" => TrueOpenings(verifier, script)

ProtocolInv ==
    /\ TypeInv
    /\ script \in Seq(ProverSteps)
    /\ DistinctKeys(script)
    /\ phase = "prove" => honest /\ at = 0 /\ verifier = NewAccumulator /\ v_transcript = <<>>
    /\ honest => phase # "panic"
    /\ Follows(prover, script, Len(script))
    /\ TrueOpenings(prover, script)
    /\ VerifierInv
    /\ SameQueue

----------------------------------------------------------------------------
(* The script. *)

\* Keys and points of the script; the empty point is that of the intermediate
\* claims alone.
LEMMA StepFacts ==
    ASSUME NEW s \in Seq(ProverSteps), NEW i \in 1 .. Len(s), ~s[i].flush
    PROVE  /\ s[i].key \in Key
           /\ PolyOf(s[i].key) \in Poly
           /\ s[i].point \in Point
           /\ s[i].point = NoPoint <=> s[i].key \in Intermediate
<1>1. s[i] \in ProverSteps
  OBVIOUS
<1> QED
  BY <1>1, ProtocolAssumption, AccumulatorAssumption DEF ProverSteps, Poly

\* A step added to the script changes nothing about the steps before it.
LEMMA AppendKeeps ==
    ASSUME NEW s \in Seq(ProverSteps), NEW e \in ProverSteps
    PROVE  /\ Append(s, e) \in Seq(ProverSteps)
           /\ Len(Append(s, e)) = Len(s) + 1
           /\ Append(s, e)[Len(s) + 1] = e
           /\ \A i \in 1 .. Len(s) : Append(s, e)[i] = s[i]
           /\ \A i, j \in 1 .. Len(s) : SamePlace(Append(s, e), i, j) = SamePlace(s, i, j)
           /\ \A i \in 1 .. Len(s) : Fresh(Append(s, e), i) = Fresh(s, i)
           /\ \A i \in 1 .. Len(s) : Stale(Append(s, e), i) = Stale(s, i)
<1> DEFINE t == Append(s, e)
<1>1. /\ t \in Seq(ProverSteps) /\ Len(t) = Len(s) + 1 /\ t[Len(s) + 1] = e
      /\ \A i \in 1 .. Len(s) : t[i] = s[i]
  OBVIOUS
<1> HIDE DEF t
<1>2. \A i, j \in 1 .. Len(s) : SamePlace(t, i, j) = SamePlace(s, i, j)
  BY <1>1 DEF SamePlace
<1>3. ASSUME NEW i \in 1 .. Len(s) PROVE Fresh(t, i) = Fresh(s, i)
  <2>1. \A j \in 1 .. i - 1 : j \in 1 .. Len(s)
    OBVIOUS
  <2>2. (\A j \in 1 .. i - 1 : ~t[j].flush => ~SamePlace(t, i, j))
        = (\A j \in 1 .. i - 1 : ~s[j].flush => ~SamePlace(s, i, j))
    BY <1>1, <1>2, <2>1
  <2> QED
    BY <1>1, <2>2 DEF Fresh
<1>4. \A i \in 1 .. Len(s) : Stale(t, i) = Stale(s, i)
  BY <1>1, <1>3 DEF Stale
<1> QED
  BY <1>1, <1>2, <1>3, <1>4 DEF t

\* No key is both open and aliased by the script.
LEMMA FreshNotStale ==
    ASSUME NEW s, DistinctKeys(s), NEW i \in 1 .. Len(s), NEW j \in 1 .. Len(s),
           Fresh(s, i), Stale(s, j)
    PROVE  s[i].key # s[j].key
BY DEF DistinctKeys, Fresh, Stale

\* An accumulator that follows the script follows a longer one as far.
LEMMA FollowsLonger ==
    ASSUME NEW s \in Seq(ProverSteps), NEW e \in ProverSteps,
           NEW n \in 0 .. Len(s), NEW acc, Follows(acc, s, n)
    PROVE  Follows(acc, Append(s, e), n)
<1> DEFINE t == Append(s, e)
<1>1. \A i \in 1 .. n : /\ i \in 1 .. Len(s)
                        /\ t[i] = s[i]
                        /\ Fresh(t, i) = Fresh(s, i) /\ Stale(t, i) = Stale(s, i)
                        /\ \A j \in 1 .. n : SamePlace(t, i, j) = SamePlace(s, i, j)
  BY AppendKeeps
<1> HIDE DEF t
<1>2. FreshOpen(acc, t, n)
  BY <1>1 DEF Follows, FreshOpen
<1>3. IndexSound(acc, t, n)
  BY <1>1 DEF Follows, IndexSound
<1>4. IndexComplete(acc, t, n)
  BY <1>1 DEF Follows, IndexComplete
<1>5. StaleKeys(t, n) = StaleKeys(s, n)
  BY <1>1 DEF StaleKeys
<1>6. StaleAliased(acc, t, n)
  BY <1>1 DEF Follows, StaleAliased
<1> QED
  BY <1>2, <1>3, <1>4, <1>5, <1>6 DEF Follows, t

----------------------------------------------------------------------------
(* The operations of the accumulators. *)

\* A partial function with one more entry.
LEMMA WithFacts ==
    ASSUME NEW f, NEW k, NEW v
    PROVE  /\ DOMAIN With(f, k, v) = DOMAIN f \cup {k}
           /\ With(f, k, v)[k] = v
           /\ \A j \in DOMAIN f : j # k => With(f, k, v)[j] = f[j]
BY DEF With

\* The index with one more key.
Index(by_poly, k) == [by_poly EXCEPT ![PolyOf(k)] = Append(@, k)]

\* An accumulator with an opening inserted.
LEMMA InsertFacts ==
    ASSUME NEW acc, AccumulatorType(acc), NEW k \in Key, NEW point \in Point, NEW c \in Claim
    PROVE  /\ AccumulatorType(Insert(acc, k, point, c))
           /\ Insert(acc, k, point, c).openings
                = With(acc.openings, k, [point |-> point, claim |-> c])
           /\ Insert(acc, k, point, c).by_poly = Index(acc.by_poly, k)
           /\ Insert(acc, k, point, c).aliases = acc.aliases
           /\ Insert(acc, k, point, c).pending = Append(acc.pending, c)
           /\ Insert(acc, k, point, c).pending_ids = Append(acc.pending_ids, k)
<1> DEFINE new == Insert(acc, k, point, c)
<1>1. PolyOf(k) \in Poly
  BY DEF Poly
<1>2. /\ new.openings = With(acc.openings, k, [point |-> point, claim |-> c])
      /\ new.by_poly = Index(acc.by_poly, k)
      /\ new.aliases = acc.aliases
      /\ new.pending = Append(acc.pending, c)
      /\ new.pending_ids = Append(acc.pending_ids, k)
  BY DEF Insert, AccumulatorType, Index
<1>3. new \in [openings : {new.openings}, by_poly : {new.by_poly}, aliases : {new.aliases},
               pending : {new.pending}, pending_ids : {new.pending_ids}]
  BY DEF Insert, AccumulatorType
<1> HIDE DEF new
<1>4. new.by_poly \in [Poly -> Seq(Key)] /\ new.pending \in Seq(Claim) /\ new.pending_ids \in Seq(Key)
  BY <1>1, <1>2 DEF AccumulatorType, Index
<1>5. /\ DOMAIN new.openings \subseteq Key
      /\ new.openings \in [DOMAIN new.openings -> [point : Point, claim : Claim]]
  BY <1>2 DEF AccumulatorType, With
<1>6. AccumulatorType(new)
  BY <1>2, <1>3, <1>4, <1>5 DEF AccumulatorType
<1> QED
  BY <1>2, <1>6 DEF new

\* An accumulator with an alias entered.
LEMMA AliasFacts ==
    ASSUME NEW acc, AccumulatorType(acc), NEW k, NEW existing
    PROVE  /\ AccumulatorType(Alias(acc, k, existing))
           /\ Alias(acc, k, existing).openings = acc.openings
           /\ Alias(acc, k, existing).by_poly = acc.by_poly
           /\ Alias(acc, k, existing).aliases = With(acc.aliases, k, existing)
           /\ Alias(acc, k, existing).pending = acc.pending
           /\ Alias(acc, k, existing).pending_ids = acc.pending_ids
<1> DEFINE new == Alias(acc, k, existing)
<1>1. /\ new.openings = acc.openings
      /\ new.by_poly = acc.by_poly
      /\ new.aliases = With(acc.aliases, k, existing)
      /\ new.pending = acc.pending
      /\ new.pending_ids = acc.pending_ids
  BY DEF Alias, AccumulatorType
<1>2. new \in [openings : {new.openings}, by_poly : {new.by_poly}, aliases : {new.aliases},
               pending : {new.pending}, pending_ids : {new.pending_ids}]
  BY DEF Alias, AccumulatorType
<1> HIDE DEF new
<1>3. IsFiniteSet(DOMAIN new.aliases)
  <2>1. DOMAIN new.aliases = DOMAIN acc.aliases \cup {k}
    BY <1>1 DEF With
  <2>2. IsFiniteSet(DOMAIN acc.aliases)
    BY DEF AccumulatorType
  <2> QED
    BY <2>1, <2>2, FS_AddElement
<1>4. new.aliases = [j \in DOMAIN new.aliases |-> new.aliases[j]]
  BY <1>1 DEF With
<1>5. AccumulatorType(new)
  BY <1>1, <1>2, <1>3, <1>4 DEF AccumulatorType
<1> QED
  BY <1>1, <1>5 DEF new

\* What the verifier's accumulator is after a claim is populated.
LEMMA PopulateFacts ==
    ASSUME NEW acc, AccumulatorType(acc), NEW k \in Key, NEW point \in Point
    PROVE  /\ AccumulatorType(Populate(acc, k, point))
           /\ Populate(acc, k, point).openings
                = With(acc.openings, k, [point |-> point, claim |-> ClaimOf(acc, k)])
           /\ \/ Populate(acc, k, point).by_poly = Index(acc.by_poly, k)
              \/ point = NoPoint /\ Populate(acc, k, point).by_poly = acc.by_poly
           /\ Populate(acc, k, point).aliases = acc.aliases
           /\ Populate(acc, k, point).pending = Append(acc.pending, ClaimOf(acc, k))
           /\ Populate(acc, k, point).pending_ids = Append(acc.pending_ids, k)
           /\ ClaimOf(acc, k) \in Claim
<1> DEFINE c == ClaimOf(acc, k)
           ins == Insert(acc, k, point, c)
           new == Populate(acc, k, point)
<1>1. c \in Claim
  BY AccumulatorAssumption DEF ClaimOf, AccumulatorType
<1>2. /\ AccumulatorType(ins)
      /\ ins.openings = With(acc.openings, k, [point |-> point, claim |-> c])
      /\ ins.by_poly = Index(acc.by_poly, k)
      /\ ins.aliases = acc.aliases
      /\ ins.pending = Append(acc.pending, c)
      /\ ins.pending_ids = Append(acc.pending_ids, k)
  <2> HIDE DEF c
  <2> QED BY <1>1, InsertFacts
<1>4. new = IF point = NoPoint THEN [ins EXCEPT !.by_poly = acc.by_poly] ELSE ins
  BY DEF Populate
<1> HIDE DEF ins, new
<1>5. CASE point # NoPoint
  <2>1. new = ins
    BY <1>4, <1>5
  <2> QED
    BY <1>1, <1>2, <1>5, <2>1 DEF new
<1>6. CASE point = NoPoint
  <2>1. new = [ins EXCEPT !.by_poly = acc.by_poly]
    BY <1>4, <1>6
  <2>2. /\ new.openings = ins.openings /\ new.by_poly = acc.by_poly /\ new.aliases = ins.aliases
        /\ new.pending = ins.pending /\ new.pending_ids = ins.pending_ids
        /\ new \in [openings : {new.openings}, by_poly : {new.by_poly}, aliases : {new.aliases},
                    pending : {new.pending}, pending_ids : {new.pending_ids}]
    BY <1>2, <2>1 DEF AccumulatorType
  <2>3. AccumulatorType(new)
    BY <1>2, <2>2 DEF AccumulatorType
  <2> QED
    BY <1>1, <1>2, <1>6, <2>2, <2>3 DEF new
<1> QED
  BY <1>5, <1>6

\* flush_to_transcript empties the queue alone.
LEMMA FlushedFacts ==
    ASSUME NEW acc, AccumulatorType(acc)
    PROVE  /\ AccumulatorType(Flushed(acc))
           /\ Flushed(acc).openings = acc.openings
           /\ Flushed(acc).by_poly = acc.by_poly
           /\ Flushed(acc).aliases = acc.aliases
           /\ Flushed(acc).pending = <<>>
           /\ Flushed(acc).pending_ids = <<>>
<1> DEFINE new == Flushed(acc)
<1>1. /\ new.openings = acc.openings /\ new.by_poly = acc.by_poly /\ new.aliases = acc.aliases
      /\ new.pending = <<>> /\ new.pending_ids = <<>>
      /\ new \in [openings : {new.openings}, by_poly : {new.by_poly}, aliases : {new.aliases},
                  pending : {new.pending}, pending_ids : {new.pending_ids}]
  BY DEF Flushed, AccumulatorType
<1> HIDE DEF new
<1>2. <<>> \in Seq(Claim) /\ <<>> \in Seq(Key)
  OBVIOUS
<1>3. AccumulatorType(new)
  BY <1>1, <1>2 DEF AccumulatorType
<1> QED
  BY <1>1, <1>3 DEF new

----------------------------------------------------------------------------
(* An accumulator that has followed n steps takes the next one. *)

\* What an accumulator finds in its index at the point of a step is the key of
\* an earlier fresh step there.
LEMMA PlacesAreFresh ==
    ASSUME NEW s, NEW n \in Nat, NEW acc, AccumulatorType(acc), Follows(acc, s, n),
           NEW p \in Poly, NEW point, NEW x \in PlacesAt(acc, p, point)
    PROVE  \E j \in 1 .. n : /\ Fresh(s, j) /\ PolyOf(s[j].key) = p /\ s[j].point = point
                             /\ acc.by_poly[p][x] = s[j].key
<1>1. x \in DOMAIN acc.by_poly[p] /\ acc.openings[acc.by_poly[p][x]].point = point
  BY DEF PlacesAt
<1>2. PICK j \in 1 .. n : Fresh(s, j) /\ PolyOf(s[j].key) = p /\ acc.by_poly[p][x] = s[j].key
  BY <1>1 DEF Follows, IndexSound
<1>3. acc.openings[s[j].key].point = s[j].point
  BY <1>2 DEF Follows, FreshOpen
<1> QED
  BY <1>1, <1>2, <1>3

\* So it finds one if and only if the step is stale, and then the one the step
\* repeats; the empty point is not found.
LEMMA FindsEarlier ==
    ASSUME NEW s \in Seq(ProverSteps), DistinctKeys(s), NEW n \in 0 .. Len(s) - 1,
           ~s[n + 1].flush,
           NEW acc, AccumulatorType(acc), Follows(acc, s, n)
    PROVE  /\ IsOpen(acc, s[n + 1].key, s[n + 1].point) <=> Stale(s, n + 1)
           /\ s[n + 1].point = NoPoint => Fresh(s, n + 1)
           /\ Stale(s, n + 1) =>
                 \E j \in 1 .. n : /\ Fresh(s, j) /\ SamePlace(s, n + 1, j)
                                   /\ Existing(acc, PolyOf(s[n + 1].key), s[n + 1].point) = s[j].key
<1> DEFINE k == s[n + 1].key
           p == PolyOf(k)
           point == s[n + 1].point
           places == PlacesAt(acc, p, point)
<1>1. n \in Nat /\ n + 1 \in 1 .. Len(s) /\ (\A j \in 1 .. n : j \in 1 .. Len(s) /\ j # n + 1)
  OBVIOUS
<1>2. k \in Key /\ p \in Poly /\ point \in Point /\ (point = NoPoint <=> k \in Intermediate)
  BY <1>1, StepFacts
<1>3. ASSUME point = NoPoint, NEW j \in 1 .. n, ~s[j].flush, SamePlace(s, n + 1, j) PROVE FALSE
  <2>1. s[j].point = NoPoint /\ PolyOf(s[j].key) = p
    BY <1>3 DEF SamePlace
  <2>2. s[j].key \in Intermediate /\ k \in Intermediate
    BY <1>1, <1>2, <1>3, <2>1, StepFacts
  <2>3. s[j].key = k
    BY <2>1, <2>2, ProtocolAssumption
  <2> QED
    BY <1>1, <1>3, <2>3 DEF DistinctKeys
<1>4. point = NoPoint => Fresh(s, n + 1)
  BY <1>1, <1>3 DEF Fresh
<1>5. ASSUME NEW x \in places
      PROVE  /\ Stale(s, n + 1)
             /\ \E j \in 1 .. n : Fresh(s, j) /\ SamePlace(s, n + 1, j) /\ acc.by_poly[p][x] = s[j].key
  <2>1. PICK j \in 1 .. n : /\ Fresh(s, j) /\ PolyOf(s[j].key) = p /\ s[j].point = point
                            /\ acc.by_poly[p][x] = s[j].key
    BY <1>1, <1>2, PlacesAreFresh
  <2>2. SamePlace(s, n + 1, j) /\ ~s[j].flush
    BY <2>1 DEF SamePlace, Fresh
  <2>3. ~Fresh(s, n + 1)
    BY <1>1, <2>2, SMTT(30) DEF Fresh
  <2> QED
    BY <2>1, <2>2, <2>3 DEF Stale
<1>6. ASSUME Stale(s, n + 1) PROVE places # {}
  <2>1. PICK j \in 1 .. n : ~s[j].flush /\ SamePlace(s, n + 1, j)
    BY <1>1, <1>6 DEF Stale, Fresh
  <2>2. PICK i \in 1 .. n : Fresh(s, i) /\ SamePlace(s, n + 1, i)
    <3>1. CASE Fresh(s, j)
      BY <2>1, <3>1
    <3>2. CASE Stale(s, j)
      BY <2>1, <3>2 DEF Follows, StaleAliased, SamePlace
    <3> QED
      BY <2>1, <3>1, <3>2 DEF Stale
  <2>3. s[i].point = point /\ PolyOf(s[i].key) = p /\ point # NoPoint
    BY <1>3, <2>2 DEF SamePlace, Fresh
  <2>4. PICK x \in DOMAIN acc.by_poly[p] : acc.by_poly[p][x] = s[i].key
    BY <2>2, <2>3 DEF Follows, IndexComplete
  <2>5. acc.openings[acc.by_poly[p][x]].point = point
    BY <2>2, <2>3, <2>4 DEF Follows, FreshOpen
  <2> QED
    BY <2>4, <2>5 DEF PlacesAt
<1>7. ASSUME places # {} PROVE Min(places) \in places
  <2>1. acc.by_poly[p] \in Seq(Key)
    BY <1>2 DEF AccumulatorType
  <2>2. places \in SUBSET Nat
    BY <2>1 DEF PlacesAt
  <2> QED
    BY <1>7, <2>2, MinIsIn
<1> QED
  BY <1>4, <1>5, <1>6, <1>7 DEF IsOpen, Existing

\* A flush opens nothing.
LEMMA FollowsFlush ==
    ASSUME NEW s, NEW n \in Nat, s[n + 1].flush, NEW acc, Follows(acc, s, n),
           NEW new, new.openings = acc.openings, new.by_poly = acc.by_poly, new.aliases = acc.aliases
    PROVE  Follows(new, s, n + 1)
<1>1. ~Fresh(s, n + 1) /\ ~Stale(s, n + 1)
  BY DEF Fresh, Stale
<1>2. \A i \in 1 .. n + 1 : i \in 1 .. n \/ i = n + 1
  OBVIOUS
<1>3. FreshOpen(new, s, n + 1)
  BY <1>1, <1>2 DEF Follows, FreshOpen
<1>4. IndexSound(new, s, n + 1)
  BY <1>1, <1>2 DEF Follows, IndexSound
<1>5. IndexComplete(new, s, n + 1)
  BY <1>1, <1>2 DEF Follows, IndexComplete
<1>6. StaleKeys(s, n + 1) = StaleKeys(s, n)
  BY <1>1, <1>2 DEF StaleKeys
<1>7. StaleAliased(new, s, n + 1)
  BY <1>1, <1>2 DEF Follows, StaleAliased
<1> QED
  BY <1>3, <1>4, <1>5, <1>6, <1>7 DEF Follows

\* A fresh step is inserted; without coordinates it may stay out of the index.
LEMMA FollowsInsert ==
    ASSUME NEW s \in Seq(ProverSteps), DistinctKeys(s), NEW n \in 0 .. Len(s) - 1, Fresh(s, n + 1),
           NEW acc, AccumulatorType(acc), Follows(acc, s, n), NEW c,
           NEW new,
           new.openings = With(acc.openings, s[n + 1].key, [point |-> s[n + 1].point, claim |-> c]),
           \/ new.by_poly = Index(acc.by_poly, s[n + 1].key)
           \/ s[n + 1].point = NoPoint /\ new.by_poly = acc.by_poly,
           new.aliases = acc.aliases
    PROVE  Follows(new, s, n + 1)
<1> DEFINE k == s[n + 1].key
           p == PolyOf(k)
<1>1. /\ n \in Nat /\ n + 1 \in 1 .. Len(s) /\ ~s[n + 1].flush /\ ~Stale(s, n + 1)
      /\ \A i \in 1 .. n + 1 : i \in 1 .. n \/ i = n + 1
      /\ \A i \in 1 .. n : i \in 1 .. n + 1 /\ i \in 1 .. Len(s) /\ i # n + 1
  BY DEF Fresh, Stale
<1>2. k \in Key /\ p \in Poly
  BY <1>1, StepFacts
<1>3. \A i \in 1 .. n : Fresh(s, i) => s[i].key # k
  BY <1>1 DEF Fresh, DistinctKeys
<1>4. /\ DOMAIN new.openings = DOMAIN acc.openings \cup {k}
      /\ new.openings[k].point = s[n + 1].point
      /\ \A j \in DOMAIN acc.openings : j # k => new.openings[j] = acc.openings[j]
  BY DEF With
<1>5. FreshOpen(new, s, n + 1)
  <2>1. ASSUME NEW i \in 1 .. n, Fresh(s, i)
        PROVE  s[i].key \in DOMAIN new.openings /\ new.openings[s[i].key].point = s[i].point
    BY <1>3, <1>4, <2>1 DEF Follows, FreshOpen
  <2> QED
    BY <1>1, <1>4, <2>1 DEF FreshOpen
<1>6. /\ acc.by_poly \in [Poly -> Seq(Key)]
      /\ \A q \in Poly : q # p => new.by_poly[q] = acc.by_poly[q]
      /\ \/ new.by_poly[p] = Append(acc.by_poly[p], k)
         \/ s[n + 1].point = NoPoint /\ new.by_poly[p] = acc.by_poly[p]
  BY <1>2, SMTT(30) DEF AccumulatorType, Index
<1>7. ASSUME NEW q \in Poly, NEW x \in DOMAIN new.by_poly[q]
      PROVE  \/ x \in DOMAIN acc.by_poly[q] /\ new.by_poly[q][x] = acc.by_poly[q][x]
             \/ q = p /\ new.by_poly[q][x] = k
  <2>1. acc.by_poly[q] \in Seq(Key)
    BY <1>6
  <2>2. CASE new.by_poly[q] = acc.by_poly[q]
    BY <2>2, SMTT(30)
  <2>3. CASE q = p /\ new.by_poly[q] = Append(acc.by_poly[q], k)
    BY <1>2, <2>1, <2>3, SMTT(30)
  <2> QED
    BY <1>6, <2>2, <2>3, SMTT(30)
<1>8. \A q \in Poly : \A x \in DOMAIN acc.by_poly[q] :
          x \in DOMAIN new.by_poly[q] /\ new.by_poly[q][x] = acc.by_poly[q][x]
  <2>1. ASSUME NEW q \in Poly, NEW x \in DOMAIN acc.by_poly[q]
        PROVE  x \in DOMAIN new.by_poly[q] /\ new.by_poly[q][x] = acc.by_poly[q][x]
    <3>1. acc.by_poly[q] \in Seq(Key)
      BY <1>6
    <3>2. CASE new.by_poly[q] = acc.by_poly[q]
      BY <2>1, <3>2
    <3>3. CASE q = p /\ new.by_poly[q] = Append(acc.by_poly[q], k)
      BY <1>2, <2>1, <3>1, <3>3, SMTT(30)
    <3> QED
      BY <1>6, <3>2, <3>3
  <2> QED
    BY <2>1
<1>9. s[n + 1].point # NoPoint => \E x \in DOMAIN new.by_poly[p] : new.by_poly[p][x] = k
  <2>1. acc.by_poly[p] \in Seq(Key)
    BY <1>2, <1>6
  <2>2. Len(acc.by_poly[p]) + 1 \in DOMAIN Append(acc.by_poly[p], k)
        /\ Append(acc.by_poly[p], k)[Len(acc.by_poly[p]) + 1] = k
    BY <1>2, <2>1, SMTT(30)
  <2> QED
    BY <1>6, <2>2
<1>10. IndexSound(new, s, n + 1)
  <2>1. ASSUME NEW q \in Poly, NEW x \in DOMAIN new.by_poly[q]
        PROVE  \E i \in 1 .. n + 1 : /\ Fresh(s, i) /\ PolyOf(s[i].key) = q
                                     /\ new.by_poly[q][x] = s[i].key
    <3>1. CASE x \in DOMAIN acc.by_poly[q] /\ new.by_poly[q][x] = acc.by_poly[q][x]
      BY <1>1, <3>1 DEF Follows, IndexSound
    <3>2. CASE q = p /\ new.by_poly[q][x] = k
      BY <1>1, <3>2
    <3> QED
      BY <1>7, <3>1, <3>2
  <2> QED
    BY <2>1 DEF IndexSound
<1>11. IndexComplete(new, s, n + 1)
  <2>1. ASSUME NEW i \in 1 .. n + 1, Fresh(s, i), s[i].point # NoPoint
        PROVE  \E x \in DOMAIN new.by_poly[PolyOf(s[i].key)] : new.by_poly[PolyOf(s[i].key)][x] = s[i].key
    <3>1. CASE i = n + 1
      BY <1>9, <2>1, <3>1
    <3>2. CASE i \in 1 .. n
      <4>1. PolyOf(s[i].key) \in Poly
        BY <1>1, <2>1, <3>2, StepFacts DEF Fresh
      <4> QED
        BY <1>8, <2>1, <3>2, <4>1 DEF Follows, IndexComplete
    <3> QED
      BY <1>1, <3>1, <3>2
  <2> QED
    BY <2>1 DEF IndexComplete
<1>12. StaleKeys(s, n + 1) = StaleKeys(s, n)
  BY <1>1 DEF StaleKeys
<1>13. StaleAliased(new, s, n + 1)
  BY <1>1 DEF Follows, StaleAliased
<1> QED
  BY <1>5, <1>10, <1>11, <1>12, <1>13 DEF Follows

\* A stale step is aliased to the fresh one it repeats.
LEMMA FollowsAlias ==
    ASSUME NEW s \in Seq(ProverSteps), DistinctKeys(s), NEW n \in 0 .. Len(s) - 1, Stale(s, n + 1),
           NEW acc, AccumulatorType(acc), Follows(acc, s, n),
           NEW j \in 1 .. n, Fresh(s, j), SamePlace(s, n + 1, j),
           NEW new, new.openings = acc.openings, new.by_poly = acc.by_poly,
           new.aliases = With(acc.aliases, s[n + 1].key, s[j].key)
    PROVE  Follows(new, s, n + 1)
<1>1. /\ n \in Nat /\ ~Fresh(s, n + 1) /\ ~s[n + 1].flush
      /\ \A i \in 1 .. n + 1 : i \in 1 .. n \/ i = n + 1
      /\ \A i \in 1 .. n : i \in 1 .. n + 1 /\ i \in 1 .. Len(s) /\ i # n + 1
      /\ n + 1 \in 1 .. Len(s)
  BY DEF Stale
<1>2. FreshOpen(new, s, n + 1)
  BY <1>1 DEF Follows, FreshOpen
<1>3. IndexSound(new, s, n + 1)
  BY <1>1 DEF Follows, IndexSound
<1>4. IndexComplete(new, s, n + 1)
  BY <1>1 DEF Follows, IndexComplete
<1>5. DOMAIN new.aliases = StaleKeys(s, n + 1)
  <2>1. DOMAIN new.aliases = StaleKeys(s, n) \cup {s[n + 1].key}
    BY DEF With, Follows
  <2> QED
    BY <1>1, <2>1 DEF StaleKeys
<1>6. \A i \in 1 .. n : Stale(s, i) => /\ s[i].key # s[n + 1].key
                                       /\ new.aliases[s[i].key] = acc.aliases[s[i].key]
  <2>1. ASSUME NEW i \in 1 .. n, Stale(s, i) PROVE s[i].key # s[n + 1].key
    BY <1>1, <2>1 DEF Stale, DistinctKeys
  <2>2. \A i \in 1 .. n : Stale(s, i) => s[i].key \in DOMAIN acc.aliases
    BY DEF Follows, StaleKeys
  <2> QED
    BY <2>1, <2>2 DEF With
<1>7. StaleAliased(new, s, n + 1)
  <2>1. ASSUME NEW i \in 1 .. n + 1, Stale(s, i)
        PROVE  \E m \in 1 .. n + 1 : /\ Fresh(s, m) /\ SamePlace(s, i, m)
                                     /\ new.aliases[s[i].key] = s[m].key
    <3>1. CASE i = n + 1
      BY <1>1, <3>1 DEF With
    <3>2. CASE i \in 1 .. n
      BY <1>1, <1>6, <2>1, <3>2 DEF Follows, StaleAliased
    <3> QED
      BY <1>1, <3>1, <3>2
  <2> QED
    BY <2>1 DEF StaleAliased
<1> QED
  BY <1>2, <1>3, <1>4, <1>5, <1>7 DEF Follows

----------------------------------------------------------------------------
(* The transcript. *)

\* A value of a polynomial, or an intermediate claim, is a claim.
LEMMA TrueClaimType ==
    ASSUME TypeInv, NEW k \in Key, NEW point \in Point
    PROVE  TrueClaim(k, point) \in Claim
<1>1. eval \in [Poly \X Point -> Claim] /\ mid \in Claim
  BY ProtocolAssumption DEF TypeInv
<1>2. <<PolyOf(k), point>> \in Poly \X Point
  BY DEF Poly
<1> QED
  BY <1>1, <1>2 DEF TrueClaim

\* What a queue holds.
QueueType == [sent : Seq(Claim), pending : Seq(Claim), ids : Seq(Key)]

\* A queue of claims after a step is one if the step's claim is.
LEMMA QueueStepType ==
    ASSUME TypeInv, NEW s \in Seq(ProverSteps), NEW n \in 1 .. Len(s), NEW q \in QueueType
    PROVE  /\ QueueStep(s, n, q) \in QueueType
           /\ \/ QueueStep(s, n, q).sent = q.sent
              \/ QueueStep(s, n, q).sent = q.sent \o q.pending
<1>1. q.sent \in Seq(Claim) /\ q.pending \in Seq(Claim) /\ q.ids \in Seq(Key)
  BY DEF QueueType
<1>2. CASE s[n].flush
  <2>1. q.sent \o q.pending \in Seq(Claim) /\ <<>> \in Seq(Claim) /\ <<>> \in Seq(Key)
    BY <1>1
  <2> QED
    BY <1>2, <2>1 DEF QueueStep, QueueType
<1>3. CASE ~s[n].flush
  <2>1. s[n].key \in Key /\ TrueClaim(s[n].key, s[n].point) \in Claim
    BY <1>3, StepFacts, TrueClaimType
  <2>2. /\ Append(q.pending, TrueClaim(s[n].key, s[n].point)) \in Seq(Claim)
        /\ Append(q.ids, s[n].key) \in Seq(Key)
    BY <1>1, <2>1
  <2> QED
    BY <1>1, <1>3, <2>2 DEF QueueStep, QueueType
<1> QED
  BY <1>2, <1>3

\* A history of the queue along s that ends with q.
HistoryTo(s, q) == \E h : QueueHistory(h, s, q.sent) /\ h[Len(s)] = q

\* The history of the queue goes on with the script.
LEMMA HistoryGrows ==
    ASSUME TypeInv, NEW s \in Seq(ProverSteps), NEW e \in ProverSteps, NEW p, HistoryTo(s, p)
    PROVE  HistoryTo(Append(s, e), QueueStep(Append(s, e), Len(s) + 1, p))
<1> DEFINE t == Append(s, e)
           q == QueueStep(t, Len(s) + 1, p)
<1>h. PICK h : QueueHistory(h, s, p.sent) /\ h[Len(s)] = p
  BY DEF HistoryTo
<1> DEFINE g == [n \in 0 .. Len(s) + 1 |-> IF n = Len(s) + 1 THEN q ELSE h[n]]
<1>1. /\ Len(s) \in Nat /\ t \in Seq(ProverSteps) /\ Len(t) = Len(s) + 1 /\ Len(s) + 1 \in 1 .. Len(t)
      /\ \A n \in 1 .. Len(s) : t[n] = s[n] /\ Fresh(t, n) = Fresh(s, n)
  BY AppendKeeps
<1>2. /\ h \in [0 .. Len(s) -> QueueType]
      /\ h[0] = EmptyQueue
      /\ \A n \in 1 .. Len(s) : h[n] = QueueStep(s, n, h[n - 1])
      /\ \A n \in 0 .. Len(s) : IsPrefix(h[n].sent, p.sent)
  BY <1>h DEF QueueHistory, QueueType
<1>3. p \in QueueType /\ p.sent \in Seq(Claim) /\ p.pending \in Seq(Claim)
  BY <1>1, <1>2, <1>h DEF QueueType
<1> HIDE DEF t
<1>a. q \in QueueType /\ (q.sent = p.sent \/ q.sent = p.sent \o p.pending)
  BY <1>1, <1>3, QueueStepType
<1>b. q.sent \in Seq(Claim)
  BY <1>a DEF QueueType
<1>c. ASSUME NEW x \in Seq(Claim), IsPrefix(x, p.sent) PROVE IsPrefix(x, q.sent)
  BY <1>3, <1>a, <1>c, PrefixConcat
<1>d. IsPrefix(q.sent, q.sent)
  BY <1>b, PrefixFacts
<1> HIDE DEF q
<1>4. \A n \in 1 .. Len(s) : \A x : QueueStep(t, n, x) = QueueStep(s, n, x)
  BY <1>1 DEF QueueStep
<1>5. g \in [0 .. Len(t) -> QueueType] /\ g[0] = EmptyQueue
  BY <1>1, <1>2, <1>a
<1>6. ASSUME NEW n \in 1 .. Len(t) PROVE g[n] = QueueStep(t, n, g[n - 1])
  <2>1. CASE n = Len(s) + 1
    <3>1. g[n] = q /\ g[n - 1] = p
      BY <1>1, <1>h, <2>1
    <3> QED
      BY <2>1, <3>1 DEF q
  <2>2. CASE n \in 1 .. Len(s)
    <3>1. g[n] = h[n] /\ g[n - 1] = h[n - 1]
      BY <1>1, <2>2
    <3> QED
      BY <1>2, <1>4, <2>2, <3>1
  <2> QED
    BY <1>1, <2>1, <2>2
<1>7. ASSUME NEW n \in 0 .. Len(t) PROVE IsPrefix(g[n].sent, q.sent)
  <2>1. CASE n = Len(s) + 1
    BY <1>1, <1>d, <2>1
  <2>2. CASE n \in 0 .. Len(s)
    <3>1. g[n] = h[n]
      BY <1>1, <2>2
    <3>2. h[n] \in QueueType
      BY <1>2, <2>2
    <3>3. h[n].sent \in Seq(Claim)
      BY <3>2 DEF QueueType
    <3> QED
      BY <1>2, <1>c, <2>2, <3>1, <3>3
  <2> QED
    BY <1>1, <2>1, <2>2
<1>8. g[Len(t)] = q
  BY <1>1
<1>9. QueueHistory(g, t, q.sent)
  <2> HIDE DEF g
  <2> QED BY <1>5, <1>6, <1>7 DEF QueueHistory, QueueType
<1> QED
  <2> HIDE DEF g
  <2> QED BY <1>8, <1>9 DEF HistoryTo, t, q

----------------------------------------------------------------------------
(* The actions keep the invariant. *)

\* A new accumulator has followed no step of any script.
LEMMA NewFacts ==
    ASSUME NEW s
    PROVE  /\ AccumulatorType(NewAccumulator)
           /\ Follows(NewAccumulator, s, 0)
           /\ Queue(NewAccumulator, <<>>) = EmptyQueue
           /\ DOMAIN NewAccumulator.openings = {}
<1> DEFINE new == NewAccumulator
<1>1. /\ new.by_poly = [p \in Poly |-> <<>>] /\ DOMAIN new.openings = {} /\ DOMAIN new.aliases = {}
      /\ new.openings = [k \in {} |-> [point |-> NoPoint, claim |-> Zero]]
      /\ new.aliases = [k \in {} |-> k] /\ new.pending = <<>> /\ new.pending_ids = <<>>
      /\ new \in [openings : {new.openings}, by_poly : {new.by_poly}, aliases : {new.aliases},
                  pending : {<<>>}, pending_ids : {<<>>}]
  BY DEF NewAccumulator
<1> HIDE DEF new
<1>2. <<>> \in Seq(Claim) /\ <<>> \in Seq(Key)
  OBVIOUS
<1>3. AccumulatorType(new)
  <2>1. IsFiniteSet(DOMAIN new.aliases)
    BY <1>1, FS_EmptySet
  <2>2. new.by_poly \in [Poly -> Seq(Key)]
    BY <1>1, <1>2
  <2>3. new.openings \in [DOMAIN new.openings -> [point : Point, claim : Claim]]
    BY <1>1
  <2>4. new.aliases = [k \in DOMAIN new.aliases |-> new.aliases[k]]
    BY <1>1
  <2> QED
    BY <1>1, <1>2, <2>1, <2>2, <2>3, <2>4 DEF AccumulatorType
<1>4. \A p \in Poly : DOMAIN new.by_poly[p] = {}
  BY <1>1
<1>5. Follows(new, s, 0)
  BY <1>1, <1>4 DEF Follows, FreshOpen, IndexSound, IndexComplete, StaleKeys, StaleAliased
<1> QED
  BY <1>1, <1>3, <1>5 DEF Queue, EmptyQueue, new

\* A step of the prover: what is left to show of it is that the prover goes on
\* following the script, with true openings, and queues what the script says.
LEMMA ProverStep ==
    ASSUME ProtocolInv, phase = "prove", NEW e \in ProverSteps,
           script' = Append(script, e),
           UNCHANGED <<eval, mid, phase, honest, verifier, v_transcript, at>>,
           DistinctKeys(Append(script, e)),
           AccumulatorType(prover'),
           Follows(prover', Append(script, e), Len(script) + 1),
           TrueOpenings(prover', Append(script, e)),
           p_transcript' \in Seq(Claim),
           Queue(prover', p_transcript')
             = QueueStep(Append(script, e), Len(script) + 1, Queue(prover, p_transcript))
    PROVE  ProtocolInv'
<1> DEFINE t == Append(script, e)
           n == Len(script)
           q == Queue(prover', p_transcript')
<1>1. script \in Seq(ProverSteps) /\ n \in Nat /\ p_transcript \in Seq(Claim) /\ prover.pending \in Seq(Claim)
  BY DEF ProtocolInv, TypeInv, AccumulatorType
<1>2. t \in Seq(ProverSteps) /\ Len(t) = n + 1
  BY <1>1, AppendKeeps
<1>4. at = 0 /\ verifier = NewAccumulator /\ v_transcript = <<>> /\ honest
  BY DEF ProtocolInv
<1>5. SameQueue'
  <2>1. Queue(prover, p_transcript).sent = p_transcript /\ q.sent = p_transcript'
    BY DEF Queue
  <2>2. HistoryTo(script, Queue(prover, p_transcript))
    BY <2>1 DEF ProtocolInv, SameQueue, HistoryTo
  <2>3. HistoryTo(t, q)
    BY <1>1, <2>2, HistoryGrows DEF ProtocolInv
  <2>4. PICK g : QueueHistory(g, t, p_transcript') /\ g[n + 1] = q
    BY <1>2, <2>1, <2>3 DEF HistoryTo
  <2>5. QueueHistory(g, script, p_transcript)'
    BY <2>4 DEF QueueHistory, QueueStep, TrueClaim
  <2>6. g[0] = Queue(verifier, v_transcript)
    BY <1>4, <2>4, NewFacts DEF QueueHistory
  <2>7. at' = 0 /\ verifier' = verifier /\ v_transcript' = v_transcript /\ script' = t /\ Len(script') = n + 1
    BY <1>2, <1>4
  <2> QED
    BY <2>4, <2>5, <2>6, <2>7 DEF SameQueue
<1>6. script' = t /\ Len(script') = n + 1 /\ at' = 0 /\ phase' = "prove" /\ honest' /\ eval' = eval /\ mid' = mid
      /\ verifier' = NewAccumulator /\ v_transcript' = <<>>
  BY <1>2, <1>4
<1>7. TypeInv'
  <2>1. AccumulatorType(verifier')
    BY <1>6, NewFacts
  <2> QED
    BY <1>1, <1>6, <2>1 DEF TypeInv, ProtocolInv
<1>8. TrueOpenings(prover, script)'
  BY <1>6 DEF TrueOpenings, TrueClaim
<1>9. VerifierInv'
  <2>1. Follows(verifier', t, 0)
    BY <1>6, NewFacts
  <2> QED
    BY <1>6, <2>1 DEF VerifierInv, Absorbed
<1>10. Follows(prover, script, Len(script))'
  BY <1>6
<1>11. (script \in Seq(ProverSteps))' /\ DistinctKeys(script)'
  BY <1>2, <1>6
<1> QED
  BY <1>5, <1>6, <1>7, <1>8, <1>9, <1>10, <1>11 DEF ProtocolInv

\* The keys of an honest prover's openings are those it has appended.
LEMMA OpenKeysAppended ==
    ASSUME NEW acc, TrueOpenings(acc, script)
    PROVE  DOMAIN acc.openings \subseteq AppendedUpTo(Len(script))
BY DEF TrueOpenings, AppendedUpTo, Fresh

\* A polynomial open at the point is open with the same value: the prover's
\* assertion on duplicates holds.
LEMMA SamePlaceSameClaim ==
    ASSUME NEW s \in Seq(ProverSteps), NEW i \in 1 .. Len(s), NEW j \in 1 .. Len(s),
           ~s[i].flush, ~s[j].flush, SamePlace(s, i, j)
    PROVE  TrueClaim(s[i].key, s[i].point) = TrueClaim(s[j].key, s[j].point)
<1>1. s[i].key \in Intermediate <=> s[j].key \in Intermediate
  BY StepFacts DEF SamePlace
<1> QED
  BY <1>1 DEF TrueClaim, SamePlace

\* A step that is not fresh adds no opening.
LEMMA NotFreshKeepsOpenings ==
    ASSUME NEW s \in Seq(ProverSteps), NEW e, e \in ProverSteps,
           ~Fresh(Append(s, e), Len(s) + 1),
           NEW acc, TrueOpenings(acc, s), NEW new, new.openings = acc.openings
    PROVE  TrueOpenings(new, Append(s, e))
<1> DEFINE t == Append(s, e)
<1>1. /\ Len(s) \in Nat /\ Len(t) = Len(s) + 1 /\ ~Fresh(t, Len(s) + 1)
      /\ \A i \in 1 .. Len(s) : t[i] = s[i] /\ Fresh(t, i) = Fresh(s, i)
  BY AppendKeeps
<1> HIDE DEF t
<1>2. /\ \A i \in 1 .. Len(s) : i \in 1 .. Len(t)
      /\ \A i \in 1 .. Len(t) : Fresh(t, i) => i \in 1 .. Len(s)
  BY <1>1
<1>3. \A k \in DOMAIN new.openings : \E i \in 1 .. Len(t) : Fresh(t, i) /\ k = t[i].key
  BY <1>1, <1>2, SMTT(30) DEF TrueOpenings
<1>4. ASSUME NEW i \in 1 .. Len(t), Fresh(t, i)
      PROVE  /\ t[i].key \in DOMAIN new.openings
             /\ new.openings[t[i].key].claim = TrueClaim(t[i].key, t[i].point)
  BY <1>1, <1>2, <1>4 DEF TrueOpenings
<1> QED
  BY <1>3, <1>4 DEF TrueOpenings, t

\* The append_* functions of the prover.
LEMMA ProverAppendKeeps ==
    ASSUME ProtocolInv, NEW k, NEW point, AppendStep(k, point) \in ProverSteps,
           ProverAppend(k, point)
    PROVE  ProtocolInv'
<1> DEFINE e == AppendStep(k, point)
           t == Append(script, e)
           n == Len(script)
           c == TrueClaim(k, point)
<1>1. /\ script \in Seq(ProverSteps) /\ n \in Nat /\ DistinctKeys(script)
      /\ AccumulatorType(prover) /\ Follows(prover, script, n) /\ TrueOpenings(prover, script)
      /\ TypeInv
  BY DEF ProtocolInv, TypeInv
<1>2. /\ t \in Seq(ProverSteps) /\ Len(t) = n + 1 /\ t[n + 1] = e
      /\ \A i \in 1 .. n : t[i] = script[i] /\ Fresh(t, i) = Fresh(script, i)
  BY <1>1, AppendKeeps
<1>3. e.key = k /\ e.point = point /\ ~e.flush /\ n + 1 \in 1 .. Len(t) /\ n \in 0 .. Len(t) - 1
  BY <1>1, <1>2 DEF AppendStep
<1>4. phase = "prove" /\ k \notin AppendedUpTo(n)
  BY DEF ProverAppend
<1>5. \A i \in 1 .. n : ~script[i].flush => script[i].key # k
  BY <1>4 DEF AppendedUpTo
<1> HIDE DEF e, t
<1>6. DistinctKeys(t)
  <2>1. \A i \in 1 .. Len(t) : i \in 1 .. n \/ i = n + 1
    BY <1>1, <1>2
  <2> QED
    BY <1>1, <1>2, <1>3, <1>5, <2>1 DEF DistinctKeys
<1>7. Follows(prover, t, n)
  BY <1>1, FollowsLonger DEF t, e
<1>8. k \in Key /\ point \in Point /\ c \in Claim
  BY <1>1, <1>2, <1>3, StepFacts, TrueClaimType
<1>9. /\ IsOpen(prover, k, point) <=> Stale(t, n + 1)
      /\ point = NoPoint => Fresh(t, n + 1)
      /\ Stale(t, n + 1) =>
            \E j \in 1 .. n : /\ Fresh(t, j) /\ SamePlace(t, n + 1, j)
                              /\ Existing(prover, PolyOf(k), point) = t[j].key
  BY <1>1, <1>2, <1>3, <1>6, <1>7, FindsEarlier
<1>10. k \notin DOMAIN prover.openings
  BY <1>1, <1>4, OpenKeysAppended
<1>11. ASSUME Stale(t, n + 1)
       PROVE  prover.openings[Existing(prover, PolyOf(k), point)].claim = c
  <2>1. PICK j \in 1 .. n : /\ Fresh(t, j) /\ SamePlace(t, n + 1, j)
                            /\ Existing(prover, PolyOf(k), point) = t[j].key
    BY <1>9, <1>11
  <2>3. TrueClaim(t[j].key, t[j].point) = c
    <3>1. ~t[j].flush /\ j \in 1 .. Len(t)
      BY <1>1, <1>2, <2>1 DEF Fresh
    <3> QED
      BY <1>2, <1>3, <2>1, <3>1, SamePlaceSameClaim
  <2>4. prover.openings[t[j].key].claim = TrueClaim(t[j].key, t[j].point)
    BY <1>1, <1>2, <2>1 DEF TrueOpenings
  <2> QED
    BY <2>1, <2>3, <2>4
<1>12. MayInsert(prover, k, point, c)
  BY <1>9, <1>10, <1>11 DEF MayInsert
<1>13. /\ prover' = InsertOrAlias(prover, k, point, c)
       /\ script' = Append(script, e)
       /\ UNCHANGED <<eval, mid, phase, honest, verifier, v_transcript, at, p_transcript>>
  BY <1>12 DEF ProverAppend, e
<1>14. \A i \in 1 .. Len(t) : i \in 1 .. n \/ i = n + 1
  BY <1>1, <1>2
<1>15. CASE Fresh(t, n + 1)
  <2>1. prover' = Insert(prover, k, point, c)
    BY <1>9, <1>13, <1>15 DEF InsertOrAlias, Stale
  <2>2. /\ AccumulatorType(prover')
        /\ prover'.openings = With(prover.openings, k, [point |-> point, claim |-> c])
        /\ prover'.by_poly = Index(prover.by_poly, k)
        /\ prover'.aliases = prover.aliases
        /\ prover'.pending = Append(prover.pending, c)
        /\ prover'.pending_ids = Append(prover.pending_ids, k)
    BY <1>1, <1>8, <2>1, InsertFacts, SMTT(30)
  <2>3. Follows(prover', t, n + 1)
    BY <1>1, <1>2, <1>3, <1>6, <1>7, <1>15, <2>2, FollowsInsert
  <2>4. TrueOpenings(prover', t)
    <3>1. /\ DOMAIN prover'.openings = DOMAIN prover.openings \cup {k}
          /\ prover'.openings[k].claim = c
          /\ \A l \in DOMAIN prover.openings : prover'.openings[l] = prover.openings[l]
      BY <1>10, <2>2 DEF With
    <3>2. ASSUME NEW l \in DOMAIN prover'.openings
          PROVE  \E i \in 1 .. Len(t) : Fresh(t, i) /\ l = t[i].key
      <4>1. CASE l = k
        BY <1>2, <1>3, <1>15, <4>1
      <4>2. CASE l \in DOMAIN prover.openings
        BY <1>1, <1>2, <4>2, SMTT(30) DEF TrueOpenings
      <4> QED
        BY <3>1, <4>1, <4>2
    <3>3. ASSUME NEW i \in 1 .. Len(t), Fresh(t, i)
          PROVE  /\ t[i].key \in DOMAIN prover'.openings
                 /\ prover'.openings[t[i].key].claim = TrueClaim(t[i].key, t[i].point)
      <4>1. CASE i = n + 1
        BY <1>2, <1>3, <3>1, <4>1
      <4>2. CASE i \in 1 .. n
        BY <1>1, <1>2, <3>1, <3>3, <4>2, SMTT(30) DEF TrueOpenings
      <4> QED
        BY <1>14, <4>1, <4>2
    <3> QED
      BY <3>2, <3>3 DEF TrueOpenings
  <2>5. Queue(prover', p_transcript') = QueueStep(t, n + 1, Queue(prover, p_transcript))
    BY <1>2, <1>3, <1>13, <1>15, <2>2 DEF Queue, QueueStep
  <2> QED
    BY <1>1, <1>4, <1>6, <1>13, <2>2, <2>3, <2>4, <2>5, ProverStep DEF t, e, TypeInv
<1>16. CASE Stale(t, n + 1)
  <2>1. prover' = Alias(prover, k, Existing(prover, PolyOf(k), point))
    BY <1>9, <1>13, <1>16 DEF InsertOrAlias
  <2>2. PICK j \in 1 .. n : /\ Fresh(t, j) /\ SamePlace(t, n + 1, j)
                            /\ Existing(prover, PolyOf(k), point) = t[j].key
    BY <1>9, <1>16
  <2>3. /\ AccumulatorType(prover')
        /\ prover'.openings = prover.openings
        /\ prover'.by_poly = prover.by_poly
        /\ prover'.aliases = With(prover.aliases, k, t[j].key)
        /\ prover'.pending = prover.pending
        /\ prover'.pending_ids = prover.pending_ids
    BY <1>1, <2>1, <2>2, AliasFacts
  <2>4. Follows(prover', t, n + 1)
    BY <1>1, <1>2, <1>3, <1>6, <1>7, <1>16, <2>2, <2>3, FollowsAlias
  <2>5. ~Fresh(t, n + 1)
    BY <1>16 DEF Stale
  <2>6. TrueOpenings(prover', t)
    BY <1>1, <2>3, <2>5, NotFreshKeepsOpenings DEF t, e
  <2>7. Queue(prover', p_transcript') = QueueStep(t, n + 1, Queue(prover, p_transcript))
    BY <1>2, <1>3, <1>13, <2>3, <2>5 DEF Queue, QueueStep
  <2> QED
    BY <1>1, <1>4, <1>6, <1>13, <2>3, <2>4, <2>6, <2>7, ProverStep DEF t, e, TypeInv
<1> QED
  BY <1>2, <1>3, <1>15, <1>16 DEF Stale

\* The prover's flush at the end of a batch.
LEMMA ProverFlushKeeps ==
    ASSUME ProtocolInv, ProverFlush
    PROVE  ProtocolInv'
<1> DEFINE e == FlushStep
           t == Append(script, e)
           n == Len(script)
<1>1. /\ script \in Seq(ProverSteps) /\ n \in Nat /\ DistinctKeys(script)
      /\ AccumulatorType(prover) /\ Follows(prover, script, n) /\ TrueOpenings(prover, script)
      /\ p_transcript \in Seq(Claim) /\ prover.pending \in Seq(Claim)
  BY DEF ProtocolInv, TypeInv, AccumulatorType
<1>2. e \in ProverSteps /\ e.flush
  BY DEF FlushStep, ProverSteps
<1> HIDE DEF e
<1>3. /\ t \in Seq(ProverSteps) /\ Len(t) = n + 1 /\ t[n + 1] = e
      /\ \A i \in 1 .. n : t[i] = script[i]
  BY <1>1, <1>2, AppendKeeps
<1>4. /\ phase = "prove" /\ script' = t /\ prover' = Flushed(prover)
      /\ p_transcript' = p_transcript \o prover.pending
      /\ UNCHANGED <<eval, mid, phase, honest, verifier, v_transcript, at>>
  BY DEF ProverFlush, e
<1>5. /\ AccumulatorType(prover') /\ prover'.openings = prover.openings
      /\ prover'.by_poly = prover.by_poly /\ prover'.aliases = prover.aliases
      /\ prover'.pending = <<>> /\ prover'.pending_ids = <<>>
  BY <1>1, <1>4, FlushedFacts
<1>6. Follows(prover, t, n)
  BY <1>1, <1>2, FollowsLonger
<1> HIDE DEF t
<1>7. DistinctKeys(t)
  <2>1. \A i \in 1 .. Len(t) : ~t[i].flush => i \in 1 .. n
    BY <1>1, <1>2, <1>3
  <2> QED
    BY <1>1, <1>3, <2>1 DEF DistinctKeys
<1>8. Follows(prover', t, n + 1)
  BY <1>1, <1>2, <1>3, <1>5, <1>6, FollowsFlush
<1>9. TrueOpenings(prover', t)
  <2>1. ~Fresh(t, n + 1)
    BY <1>2, <1>3 DEF Fresh
  <2> QED
    BY <1>1, <1>2, <1>5, <2>1, NotFreshKeepsOpenings DEF t
<1>10. Queue(prover', p_transcript') = QueueStep(t, n + 1, Queue(prover, p_transcript))
  BY <1>2, <1>3, <1>4, <1>5 DEF Queue, QueueStep
<1>11. p_transcript' \in Seq(Claim)
  BY <1>1, <1>4
<1> QED
  BY <1>2, <1>4, <1>5, <1>7, <1>8, <1>9, <1>10, <1>11, ProverStep DEF t

\* The verifier loads claims of a proof: it has followed nothing yet.
LEMMA LoadKeeps ==
    ASSUME ProtocolInv, NEW claims, DOMAIN claims \subseteq Key,
           claims \in [DOMAIN claims -> Claim], Load(claims),
           honest' \in BOOLEAN,
           honest' => honest /\ claims = [k \in DOMAIN prover.openings |-> prover.openings[k].claim]
    PROVE  ProtocolInv'
<1> DEFINE opens == [k \in DOMAIN claims |-> [point |-> NoPoint, claim |-> claims[k]]]
           loaded == [NewAccumulator EXCEPT !.openings = opens]
<1>1. /\ phase = "prove" /\ phase' = "verify" /\ verifier' = loaded
      /\ UNCHANGED <<eval, mid, prover, p_transcript, v_transcript, script, at>>
  BY DEF Load
<1>2. /\ at = 0 /\ v_transcript = <<>> /\ verifier = NewAccumulator /\ honest
      /\ script \in Seq(ProverSteps) /\ Len(script) \in Nat
      /\ Follows(prover, script, Len(script)) /\ TrueOpenings(prover, script)
      /\ DistinctKeys(script)
  BY <1>1 DEF ProtocolInv
<1>3. /\ AccumulatorType(NewAccumulator) /\ Follows(NewAccumulator, script, 0)
      /\ Queue(NewAccumulator, <<>>) = EmptyQueue
  BY NewFacts
<1>4. /\ verifier'.openings = opens /\ verifier'.by_poly = NewAccumulator.by_poly
      /\ verifier'.aliases = NewAccumulator.aliases /\ verifier'.pending = NewAccumulator.pending
      /\ verifier'.pending_ids = NewAccumulator.pending_ids
      /\ verifier' \in [openings : {verifier'.openings}, by_poly : {verifier'.by_poly},
                        aliases : {verifier'.aliases}, pending : {verifier'.pending},
                        pending_ids : {verifier'.pending_ids}]
  BY <1>1, <1>3 DEF AccumulatorType
<1>5. opens \in [DOMAIN opens -> [point : Point, claim : Claim]] /\ DOMAIN opens \subseteq Key
  BY AccumulatorAssumption
<1> HIDE DEF opens, loaded
<1>6. AccumulatorType(verifier')
  BY <1>3, <1>4, <1>5 DEF AccumulatorType
<1>7. Follows(verifier', script, 0)
  BY <1>3, <1>4 DEF Follows, FreshOpen, IndexSound, IndexComplete, StaleKeys, StaleAliased
<1>8. Queue(verifier', <<>>) = EmptyQueue
  BY <1>3, <1>4 DEF Queue
<1>9. SameQueue'
  <2>1. PICK h : /\ QueueHistory(h, script, p_transcript)
                 /\ h[Len(script)] = Queue(prover, p_transcript)
    BY DEF ProtocolInv, SameQueue
  <2>2. QueueHistory(h, script, p_transcript)'
    BY <1>1, <2>1 DEF QueueHistory, QueueStep, TrueClaim
  <2>3. h[0] = EmptyQueue
    BY <2>1 DEF QueueHistory
  <2> QED
    BY <1>1, <1>2, <1>8, <2>1, <2>2, <2>3 DEF SameQueue
<1>10. TypeInv'
  BY <1>1, <1>6 DEF ProtocolInv, TypeInv
<1>11. TrueOpenings(prover, script)'
  BY <1>1, <1>2 DEF TrueOpenings, TrueClaim
<1>12. ASSUME honest' PROVE TrueOpenings(verifier, script)'
  <2>1. /\ DOMAIN verifier'.openings = DOMAIN prover.openings
        /\ \A k \in DOMAIN prover.openings : verifier'.openings[k].claim = prover.openings[k].claim
    BY <1>4, <1>12 DEF opens
  <2>2. TrueOpenings(verifier', script)
    BY <1>2, <2>1 DEF TrueOpenings
  <2> QED
    BY <1>1, <2>2 DEF TrueOpenings, TrueClaim
<1>13. VerifierInv'
  BY <1>1, <1>2, <1>7, <1>12 DEF VerifierInv, Absorbed
<1>14. Follows(prover, script, Len(script))'
  BY <1>1, <1>2
<1> QED
  BY <1>1, <1>2, <1>9, <1>10, <1>11, <1>13, <1>14 DEF ProtocolInv

\* The prover's own proof, and any other.
LEMMA DeliverKeeps ==
    ASSUME ProtocolInv, Deliver \/ DeliverAny
    PROVE  ProtocolInv'
<1>1. CASE Deliver
  <2> DEFINE claims == [k \in DOMAIN prover.openings |-> prover.openings[k].claim]
  <2>1. Load(claims) /\ honest' = honest
    BY <1>1 DEF Deliver
  <2>2. DOMAIN claims = DOMAIN prover.openings /\ DOMAIN prover.openings \subseteq Key
        /\ claims \in [DOMAIN claims -> Claim] /\ honest \in BOOLEAN
    BY DEF ProtocolInv, TypeInv, AccumulatorType
  <2>3. PICK c : c = claims
    OBVIOUS
  <2>4. Load(c) /\ DOMAIN c \subseteq Key /\ c \in [DOMAIN c -> Claim]
    BY <2>1, <2>2, <2>3
  <2> QED
    BY <2>1, <2>2, <2>3, <2>4, LoadKeeps
<1>2. CASE DeliverAny
  <2>1. PICK S \in SUBSET Key : \E claims \in [S -> Claim] : Load(claims)
    BY <1>2 DEF DeliverAny
  <2>2. PICK claims \in [S -> Claim] : Load(claims)
    BY <2>1
  <2>3. honest' = FALSE /\ DOMAIN claims = S
    BY <1>2 DEF DeliverAny
  <2> QED
    BY <2>1, <2>2, <2>3, LoadKeeps
<1> QED
  BY <1>1, <1>2

\* A step of the verifier: what is left to show of it is that the verifier goes
\* on following the script and, with an honest proof, queues what it says.
LEMMA VerifierStep ==
    ASSUME ProtocolInv, phase = "verify", at < Len(script), at' = at + 1,
           UNCHANGED <<eval, mid, phase, honest, prover, p_transcript, script>>,
           AccumulatorType(verifier'), v_transcript' \in Seq(Claim),
           Follows(verifier', script, at + 1),
           Absorbed(verifier', v_transcript', script, at + 1),
           honest => TrueOpenings(verifier', script),
           honest => Queue(verifier', v_transcript')
                       = QueueStep(script, at + 1, Queue(verifier, v_transcript))
    PROVE  ProtocolInv'
<1>1. script \in Seq(ProverSteps) /\ Len(script) \in Nat /\ at \in Nat /\ at' \in 0 .. Len(script)
      /\ at' \in 1 .. Len(script) /\ at' - 1 = at
  BY DEF ProtocolInv, TypeInv
<1>2. TypeInv'
  BY <1>1 DEF ProtocolInv, TypeInv
<1>3. VerifierInv'
  <2>1. honest => TrueOpenings(verifier, script)'
    BY DEF TrueOpenings, TrueClaim
  <2> QED
    BY <2>1 DEF VerifierInv
<1>4. SameQueue'
  <2>1. PICK h : /\ QueueHistory(h, script, p_transcript)
                 /\ h[Len(script)] = Queue(prover, p_transcript)
                 /\ honest => h[at] = Queue(verifier, v_transcript)
    BY DEF ProtocolInv, SameQueue
  <2>2. QueueHistory(h, script, p_transcript)'
    BY <2>1 DEF QueueHistory, QueueStep, TrueClaim
  <2>3. h[at'] = QueueStep(script, at', h[at])
    BY <1>1, <2>1 DEF QueueHistory
  <2>4. honest => h[at'] = Queue(verifier', v_transcript')
    BY <2>1, <2>3
  <2> QED
    BY <2>1, <2>2, <2>4 DEF SameQueue
<1>5. TrueOpenings(prover, script)'
  BY DEF ProtocolInv, TrueOpenings, TrueClaim
<1> QED
  BY <1>1, <1>2, <1>3, <1>4, <1>5 DEF ProtocolInv

\* The verifier's flush.
LEMMA VerifierFlushKeeps ==
    ASSUME ProtocolInv, VerifierFlush
    PROVE  ProtocolInv'
<1>1. /\ phase = "verify" /\ at < Len(script) /\ at' = at + 1 /\ script[at + 1].flush
      /\ v_transcript' = v_transcript \o verifier.pending /\ verifier' = Flushed(verifier)
      /\ UNCHANGED <<eval, mid, phase, honest, prover, p_transcript, script>>
  BY DEF VerifierFlush
<1>2. /\ AccumulatorType(verifier) /\ Follows(verifier, script, at) /\ at \in Nat
      /\ v_transcript \in Seq(Claim) /\ verifier.pending \in Seq(Claim)
      /\ Absorbed(verifier, v_transcript, script, at)
      /\ honest => TrueOpenings(verifier, script)
  BY <1>1 DEF ProtocolInv, TypeInv, VerifierInv, AccumulatorType
<1>3. /\ AccumulatorType(verifier') /\ verifier'.openings = verifier.openings
      /\ verifier'.by_poly = verifier.by_poly /\ verifier'.aliases = verifier.aliases
      /\ verifier'.pending = <<>> /\ verifier'.pending_ids = <<>>
  BY <1>1, <1>2, FlushedFacts
<1>4. Follows(verifier', script, at + 1)
  BY <1>1, <1>2, <1>3, FollowsFlush
<1>5. Absorbed(verifier', v_transcript', script, at + 1)
  <2>1. Range(v_transcript') = Range(v_transcript) \cup Range(verifier.pending)
    BY <1>1, <1>2, AccumulatorAssumption, RangeFacts
  <2>2. \A i \in 1 .. at + 1 : Fresh(script, i) => i \in 1 .. at
    BY <1>1, <1>2 DEF Fresh
  <2> QED
    BY <1>2, <1>3, <2>1, <2>2 DEF Absorbed
<1>6. honest => TrueOpenings(verifier', script)
  BY <1>2, <1>3 DEF TrueOpenings
<1>7. v_transcript' \in Seq(Claim)
  BY <1>1, <1>2
<1>8. Queue(verifier', v_transcript') = QueueStep(script, at + 1, Queue(verifier, v_transcript))
  BY <1>1, <1>3 DEF Queue, QueueStep
<1> QED
  BY <1>1, <1>3, <1>4, <1>5, <1>6, <1>7, <1>8, VerifierStep

\* The append_* functions of the verifier.
LEMMA VerifierAppendKeeps ==
    ASSUME ProtocolInv, VerifierAppend
    PROVE  ProtocolInv'
<1> DEFINE n == at + 1
           k == script[n].key
           point == script[n].point
           c == ClaimOf(verifier, k)
<1>1. /\ phase = "verify" /\ at < Len(script) /\ ~script[n].flush
      /\ UNCHANGED <<eval, mid, honest, prover, p_transcript, v_transcript, script>>
  BY DEF VerifierAppend
<1>2. /\ AccumulatorType(verifier) /\ Follows(verifier, script, at) /\ at \in Nat
      /\ v_transcript \in Seq(Claim) /\ verifier.pending \in Seq(Claim)
      /\ script \in Seq(ProverSteps) /\ DistinctKeys(script)
      /\ Absorbed(verifier, v_transcript, script, at)
      /\ honest => TrueOpenings(verifier, script)
  BY <1>1 DEF ProtocolInv, TypeInv, VerifierInv, AccumulatorType
<1>3. /\ n \in 1 .. Len(script) /\ at \in 0 .. Len(script) - 1
      /\ \A i \in 1 .. n : i \in 1 .. at \/ i = n
      /\ \A i \in 1 .. at : i \in 1 .. Len(script) /\ i # n
  BY <1>1, <1>2
<1>4. k \in Key /\ point \in Point
  BY <1>1, <1>2, <1>3, StepFacts
<1>5. /\ IsOpen(verifier, k, point) <=> Stale(script, n)
      /\ point = NoPoint => Fresh(script, n)
      /\ Stale(script, n) =>
            \E j \in 1 .. at : /\ Fresh(script, j) /\ SamePlace(script, n, j)
                               /\ Existing(verifier, PolyOf(k), point) = script[j].key
  BY <1>1, <1>2, <1>3, FindsEarlier
<1>6. OpenToVerifier(verifier, k, point) <=> Stale(script, n)
  BY <1>5 DEF OpenToVerifier, Stale
<1>7. ASSUME honest, Stale(script, n) PROVE k \notin DOMAIN verifier.openings
  BY <1>2, <1>3, <1>7, FreshNotStale DEF TrueOpenings
<1>8. honest => MayPopulate(verifier, k, point)
  BY <1>6, <1>7 DEF MayPopulate
<1>9. CASE ~MayPopulate(verifier, k, point)
  <2>1. phase' = "panic" /\ verifier' = verifier /\ at' = at
    BY <1>9 DEF VerifierAppend
  <2>2. ~honest'
    BY <1>1, <1>8, <1>9
  <2>3. TypeInv'
    BY <1>1, <2>1 DEF ProtocolInv, TypeInv
  <2>4. VerifierInv'
    BY <1>1, <1>2, <2>1, <2>2 DEF VerifierInv
  <2>5. SameQueue'
    <3>1. PICK h : /\ QueueHistory(h, script, p_transcript)
                   /\ h[Len(script)] = Queue(prover, p_transcript)
      BY DEF ProtocolInv, SameQueue
    <3>2. QueueHistory(h, script, p_transcript)'
      BY <1>1, <3>1 DEF QueueHistory, QueueStep, TrueClaim
    <3> QED
      BY <1>1, <2>2, <3>1, <3>2 DEF SameQueue
  <2>6. TrueOpenings(prover, script)'
    BY <1>1 DEF ProtocolInv, TrueOpenings, TrueClaim
  <2> QED
    BY <1>1, <2>1, <2>2, <2>3, <2>4, <2>5, <2>6 DEF ProtocolInv
<1>10. CASE MayPopulate(verifier, k, point) /\ Fresh(script, n)
  <2>1. verifier' = Populate(verifier, k, point) /\ at' = n /\ phase' = phase
    BY <1>6, <1>10 DEF VerifierAppend, PopulateOrAlias, Stale
  <2>2. c \in Claim
    BY <1>2, AccumulatorAssumption DEF ClaimOf, AccumulatorType
  <2>3. /\ AccumulatorType(verifier')
        /\ verifier'.openings = With(verifier.openings, k, [point |-> point, claim |-> c])
        /\ \/ verifier'.by_poly = Index(verifier.by_poly, k)
           \/ point = NoPoint /\ verifier'.by_poly = verifier.by_poly
        /\ verifier'.aliases = verifier.aliases
        /\ verifier'.pending = Append(verifier.pending, c)
        /\ verifier'.pending_ids = Append(verifier.pending_ids, k)
    <3>1. AccumulatorType(verifier) /\ k \in Key /\ point \in Point
      BY <1>2, <1>4
    <3> DEFINE new == Populate(verifier, k, point)
    <3>2. /\ AccumulatorType(new)
          /\ new.openings = With(verifier.openings, k, [point |-> point, claim |-> c])
          /\ \/ new.by_poly = Index(verifier.by_poly, k)
             \/ point = NoPoint /\ new.by_poly = verifier.by_poly
          /\ new.aliases = verifier.aliases
          /\ new.pending = Append(verifier.pending, c)
          /\ new.pending_ids = Append(verifier.pending_ids, k)
      BY <3>1, PopulateFacts, Zenon
    <3>3. verifier' = new
      BY <2>1
    <3> HIDE DEF new, c
    <3> QED
      BY <3>2, <3>3, Zenon
  <2>4. Follows(verifier', script, n)
    BY <1>2, <1>3, <1>10, <2>3, FollowsInsert
  <2>5. /\ DOMAIN verifier'.openings = DOMAIN verifier.openings \cup {k}
        /\ verifier'.openings[k].claim = c
        /\ \A l \in DOMAIN verifier.openings : l # k => verifier'.openings[l] = verifier.openings[l]
    BY <2>3 DEF With
  <2>6. Absorbed(verifier', v_transcript', script, n)
    <3>1. Range(verifier'.pending) = Range(verifier.pending) \cup {c}
      BY <1>2, <2>2, <2>3, RangeFacts
    <3>2. ASSUME NEW i \in 1 .. at, Fresh(script, i)
          PROVE  verifier'.openings[script[i].key] = verifier.openings[script[i].key]
      <4>1. script[i].key \in DOMAIN verifier.openings
        BY <1>2, <3>2 DEF Follows, FreshOpen
      <4>2. script[i].key # k
        BY <1>1, <1>2, <1>3, <3>2 DEF DistinctKeys, Fresh
      <4> QED
        BY <2>5, <4>1, <4>2
    <3> QED
      BY <1>1, <1>2, <1>3, <2>5, <3>1, <3>2 DEF Absorbed
  <2>7. ASSUME honest PROVE c = TrueClaim(k, point) /\ TrueOpenings(verifier', script)
    <3>1. k \in DOMAIN verifier.openings /\ c = TrueClaim(k, point)
      BY <1>2, <1>3, <1>10, <2>7 DEF TrueOpenings, ClaimOf
    <3>2. DOMAIN verifier'.openings = DOMAIN verifier.openings
      BY <2>5, <3>1
    <3>3. \A l \in DOMAIN verifier.openings : verifier'.openings[l].claim = verifier.openings[l].claim
      BY <2>5, <3>1 DEF ClaimOf
    <3> QED
      BY <1>2, <2>7, <3>1, <3>2, <3>3 DEF TrueOpenings
  <2>8. honest => Queue(verifier', v_transcript') = QueueStep(script, n, Queue(verifier, v_transcript))
    BY <1>1, <1>10, <2>3, <2>7 DEF Queue, QueueStep
  <2> QED
    BY <1>1, <1>2, <2>1, <2>3, <2>4, <2>6, <2>7, <2>8, VerifierStep
<1>11. CASE MayPopulate(verifier, k, point) /\ Stale(script, n)
  <2>1. verifier' = Alias(verifier, k, Existing(verifier, PolyOf(k), point)) /\ at' = n /\ phase' = phase
    BY <1>6, <1>11 DEF VerifierAppend, PopulateOrAlias
  <2>2. PICK j \in 1 .. at : /\ Fresh(script, j) /\ SamePlace(script, n, j)
                             /\ Existing(verifier, PolyOf(k), point) = script[j].key
    BY <1>5, <1>11
  <2>3. /\ AccumulatorType(verifier')
        /\ verifier'.openings = verifier.openings
        /\ verifier'.by_poly = verifier.by_poly
        /\ verifier'.aliases = With(verifier.aliases, k, script[j].key)
        /\ verifier'.pending = verifier.pending
        /\ verifier'.pending_ids = verifier.pending_ids
    BY <1>2, <2>1, <2>2, AliasFacts
  <2>4. Follows(verifier', script, n)
    BY <1>2, <1>3, <1>11, <2>2, <2>3, FollowsAlias
  <2>5. ~Fresh(script, n)
    BY <1>11 DEF Stale
  <2>6. Absorbed(verifier', v_transcript', script, n)
    BY <1>1, <1>2, <1>3, <2>3, <2>5 DEF Absorbed
  <2>7. honest => TrueOpenings(verifier', script)
    BY <1>2, <2>3 DEF TrueOpenings
  <2>8. Queue(verifier', v_transcript') = QueueStep(script, n, Queue(verifier, v_transcript))
    BY <1>1, <2>3, <2>5 DEF Queue, QueueStep
  <2> QED
    BY <1>1, <1>2, <2>1, <2>3, <2>4, <2>6, <2>7, <2>8, VerifierStep
<1> QED
  BY <1>1, <1>9, <1>10, <1>11 DEF Stale

\* The invariant of the protocol: at every point of a proof, honest or not.
THEOREM Invariant == Spec => []ProtocolInv
<1>1. Init => ProtocolInv
  <2> SUFFICES ASSUME Init PROVE ProtocolInv
    OBVIOUS
  <2>1. /\ eval \in Evaluations /\ mid \in Claim /\ phase = "prove" /\ honest = TRUE
        /\ prover = NewAccumulator /\ verifier = NewAccumulator
        /\ p_transcript = <<>> /\ v_transcript = <<>> /\ script = <<>> /\ at = 0
    BY DEF Init
  <2>2. AccumulatorType(prover) /\ Follows(prover, script, 0) /\ Queue(prover, <<>>) = EmptyQueue
        /\ DOMAIN prover.openings = {}
    BY <2>1, NewFacts
  <2>3. Len(script) = 0 /\ script \in Seq(ProverSteps) /\ DistinctKeys(script) /\ <<>> \in Seq(Claim)
    BY <2>1 DEF DistinctKeys
  <2>4. TypeInv
    BY <2>1, <2>2, <2>3 DEF TypeInv
  <2>5. TrueOpenings(prover, script)
    BY <2>2, <2>3 DEF TrueOpenings
  <2>6. VerifierInv
    BY <2>1, <2>2 DEF VerifierInv, Absorbed
  <2>7. SameQueue
    <3> DEFINE h == [n \in 0 .. 0 |-> EmptyQueue]
    <3>1. EmptyQueue \in [sent : Seq(Claim), pending : Seq(Claim), ids : Seq(Key)]
          /\ EmptyQueue.sent = <<>>
      BY DEF EmptyQueue
    <3>2. h \in [0 .. 0 -> [sent : Seq(Claim), pending : Seq(Claim), ids : Seq(Key)]] /\ h[0] = EmptyQueue
      BY <3>1
    <3>3. IsPrefix(<<>>, <<>>)
      BY <2>3, PrefixFacts
    <3> HIDE DEF h
    <3>4. QueueHistory(h, script, p_transcript)
      BY <2>1, <2>3, <3>1, <3>2, <3>3 DEF QueueHistory
    <3> QED
      BY <2>1, <2>2, <2>3, <3>2, <3>4 DEF SameQueue
  <2> QED
    BY <2>1, <2>2, <2>3, <2>4, <2>5, <2>6, <2>7 DEF ProtocolInv
<1>2. ProtocolInv /\ [Prove \/ Deliver \/ DeliverAny \/ Verify]_vars => ProtocolInv'
  <2> SUFFICES ASSUME ProtocolInv, [Prove \/ Deliver \/ DeliverAny \/ Verify]_vars
               PROVE  ProtocolInv'
    OBVIOUS
  <2>1. CASE Prove
    <3>1. ASSUME NEW k \in Key \ Intermediate, NEW point \in OpenPoints, ProverAppend(k, point)
          PROVE  ProtocolInv'
      BY <3>1, ProverAppendKeeps DEF AppendStep, ProverSteps
    <3>2. ASSUME NEW k \in Intermediate, ProverAppend(k, NoPoint)
          PROVE  ProtocolInv'
      BY <3>2, ProverAppendKeeps DEF AppendStep, ProverSteps
    <3> QED
      BY <2>1, <3>1, <3>2, ProverFlushKeeps DEF Prove
  <2>2. CASE Deliver \/ DeliverAny
    BY <2>2, DeliverKeeps
  <2>3. CASE Verify
    BY <2>3, VerifierAppendKeeps, VerifierFlushKeeps DEF Verify
  <2>4. CASE UNCHANGED vars
    BY <2>4, ZenonT(40) DEF vars, ProtocolInv, TypeInv, VerifierInv, SameQueue, TrueOpenings, QueueHistory,
                QueueStep, TrueClaim
  <2> QED
    BY <2>1, <2>2, <2>3, <2>4
<1> QED
  BY <1>1, <1>2, PTL DEF Spec

----------------------------------------------------------------------------
(* What follows from it. *)

\* What an accumulator that follows the script reads for a key it has appended:
\* the opening of the fresh step at the same place.
LEMMA ReadsFresh ==
    ASSUME NEW s \in Seq(ProverSteps), DistinctKeys(s), NEW n \in 0 .. Len(s),
           NEW acc, AccumulatorType(acc), Follows(acc, s, n),
           NEW i \in 1 .. n, ~s[i].flush
    PROVE  \E j \in 1 .. n : /\ Fresh(s, j) /\ SamePlace(s, i, j)
                              /\ Resolve(acc, s[i].key) = s[j].key
<1>1. \A j \in 1 .. n : j \in 1 .. Len(s)
  OBVIOUS
<1>2. ASSUME NEW k \in DOMAIN acc.aliases
      PROVE  /\ acc.aliases[k] \notin DOMAIN acc.aliases
             /\ \E j \in 1 .. n : Fresh(s, j) /\ acc.aliases[k] = s[j].key
  <2>1. PICK j \in 1 .. n : Stale(s, j) /\ k = s[j].key
    BY DEF Follows, StaleKeys
  <2>2. PICK m \in 1 .. n : Fresh(s, m) /\ acc.aliases[k] = s[m].key
    BY <2>1 DEF Follows, StaleAliased
  <2>3. \A x \in 1 .. n : Stale(s, x) => s[x].key # s[m].key
    BY <1>1, <2>2, FreshNotStale
  <2> QED
    BY <2>2, <2>3 DEF Follows, StaleKeys
<1>3. Resolve(acc, s[i].key) = Target(acc, s[i].key)
  BY <1>2, ResolveIsTarget DEF AccumulatorType
<1>4. CASE Fresh(s, i)
  <2>1. s[i].key \notin DOMAIN acc.aliases
    BY <1>1, <1>4, FreshNotStale DEF Follows, StaleKeys
  <2> QED
    BY <1>3, <1>4, <2>1 DEF Target, SamePlace
<1>5. CASE Stale(s, i)
  <2>1. s[i].key \in DOMAIN acc.aliases
    BY <1>5 DEF Follows, StaleKeys
  <2> QED
    BY <1>3, <1>5, <2>1 DEF Target, Follows, StaleAliased
<1> QED
  BY <1>4, <1>5 DEF Stale

\* An honest prover and the verifier of its proof never meet the assertions of
\* insert_or_alias_opening and populate_or_alias_opening.
THEOREM NeverPanics == Spec => []HonestNeverPanics
<1>1. ProtocolInv => HonestNeverPanics
  BY DEF ProtocolInv, HonestNeverPanics
<1> QED
  BY <1>1, Invariant, PTL

\* Both sides absorb the same claims in the same order (flush_to_transcript).
THEOREM SameTranscripts == Spec => []TranscriptsAgree
<1>1. ProtocolInv => TranscriptsAgree
  <2> SUFFICES ASSUME ProtocolInv, honest
               PROVE  /\ IsPrefix(v_transcript, p_transcript)
                      /\ at = Len(script) => /\ v_transcript = p_transcript
                                             /\ verifier.pending_ids = prover.pending_ids
                                             /\ verifier.pending = prover.pending
    BY DEF TranscriptsAgree
  <2>1. PICK h : /\ QueueHistory(h, script, p_transcript)
                 /\ h[Len(script)] = Queue(prover, p_transcript)
                 /\ h[at] = Queue(verifier, v_transcript)
    BY DEF ProtocolInv, SameQueue
  <2>2. at \in 0 .. Len(script)
    BY DEF ProtocolInv, TypeInv
  <2>3. IsPrefix(h[at].sent, p_transcript) /\ h[at].sent = v_transcript
    BY <2>1, <2>2 DEF QueueHistory, Queue
  <2>4. at = Len(script) => Queue(prover, p_transcript) = Queue(verifier, v_transcript)
    BY <2>1
  <2> QED
    BY <2>3, <2>4 DEF Queue
<1> QED
  BY <1>1, Invariant, PTL

\* Both sides read the value of the polynomial at the point the key was opened
\* at (get_opening through resolve_alias).
THEOREM ReadsAreTrue == Spec => []ReadsTrueOpening
<1>1. ASSUME NEW s \in Seq(ProverSteps), DistinctKeys(s), NEW n \in 0 .. Len(s),
             NEW acc, AccumulatorType(acc), Follows(acc, s, n), TrueOpenings(acc, s),
             NEW i \in 1 .. n, ~s[i].flush
      PROVE  /\ Resolve(acc, s[i].key) \in DOMAIN acc.openings
             /\ Opening(acc, s[i].key)
                   = [point |-> s[i].point, claim |-> TrueClaim(s[i].key, s[i].point)]
  <2>1. PICK j \in 1 .. n : /\ Fresh(s, j) /\ SamePlace(s, i, j)
                            /\ Resolve(acc, s[i].key) = s[j].key
    BY <1>1, ReadsFresh
  <2>2. j \in 1 .. Len(s) /\ i \in 1 .. Len(s) /\ ~s[j].flush
    BY <2>1 DEF Fresh
  <2>3. s[j].key \in DOMAIN acc.openings /\ acc.openings[s[j].key].point = s[i].point
    BY <1>1, <2>1 DEF Follows, FreshOpen, SamePlace
  <2>4. acc.openings[s[j].key].claim = TrueClaim(s[i].key, s[i].point)
    BY <1>1, <2>1, <2>2, SamePlaceSameClaim DEF TrueOpenings
  <2>5. acc.openings[s[j].key] \in [point : Point, claim : Claim]
    BY <1>1, <2>3 DEF AccumulatorType
  <2> QED
    BY <2>1, <2>3, <2>4, <2>5 DEF Opening
<1>2. ProtocolInv => ReadsTrueOpening
  <2> SUFFICES ASSUME ProtocolInv PROVE ReadsTrueOpening
    OBVIOUS
  <2>1. /\ script \in Seq(ProverSteps) /\ DistinctKeys(script) /\ Len(script) \in 0 .. Len(script)
        /\ at \in 0 .. Len(script) /\ AccumulatorType(prover) /\ AccumulatorType(verifier)
        /\ Follows(prover, script, Len(script)) /\ TrueOpenings(prover, script)
        /\ Follows(verifier, script, at)
        /\ honest /\ phase = "verify" => TrueOpenings(verifier, script)
    BY DEF ProtocolInv, TypeInv, VerifierInv
  <2> QED
    BY <1>1, <2>1 DEF ReadsTrueOpening
<1> QED
  BY <1>2, Invariant, PTL

\* Whatever proof the verifier has, it reads one claim for a polynomial at a
\* point, and only claims it has absorbed or will at the next flush.
THEOREM OneAbsorbedClaim == Spec => []OneAbsorbedClaimPerPoint
<1>1. ProtocolInv => OneAbsorbedClaimPerPoint
  <2> SUFFICES ASSUME ProtocolInv, NEW i \in 1 .. at, ~script[i].flush
               PROVE  /\ Opening(verifier, script[i].key).point = script[i].point
                      /\ Opening(verifier, script[i].key).claim
                           \in Range(v_transcript \o verifier.pending)
                      /\ \A j \in 1 .. at :
                            (/\ ~script[j].flush
                             /\ script[j].point = script[i].point
                             /\ script[i].point # NoPoint
                             /\ PolyOf(script[j].key) = PolyOf(script[i].key))
                            => Opening(verifier, script[j].key) = Opening(verifier, script[i].key)
    BY DEF OneAbsorbedClaimPerPoint
  <2>1. /\ script \in Seq(ProverSteps) /\ DistinctKeys(script)
        /\ at \in 0 .. Len(script) /\ AccumulatorType(verifier)
        /\ Follows(verifier, script, at) /\ Absorbed(verifier, v_transcript, script, at)
        /\ v_transcript \in Seq(Claim) /\ verifier.pending \in Seq(Claim)
    BY DEF ProtocolInv, TypeInv, VerifierInv, AccumulatorType
  <2>2. \A m \in 1 .. at : ~script[m].flush =>
            \E x \in 1 .. at : /\ Fresh(script, x) /\ SamePlace(script, m, x)
                               /\ Resolve(verifier, script[m].key) = script[x].key
    BY <2>1, ReadsFresh
  <2>3. PICK x \in 1 .. at : /\ Fresh(script, x) /\ SamePlace(script, i, x)
                             /\ Resolve(verifier, script[i].key) = script[x].key
    BY <2>2
  <2>4. Opening(verifier, script[i].key).point = script[i].point
    BY <2>1, <2>3 DEF Opening, Follows, FreshOpen, SamePlace
  <2>5. Range(v_transcript \o verifier.pending) = Range(v_transcript) \cup Range(verifier.pending)
    BY <2>1, AccumulatorAssumption, RangeFacts
  <2>6. Opening(verifier, script[i].key).claim \in Range(v_transcript \o verifier.pending)
    BY <2>1, <2>3, <2>5 DEF Opening, Absorbed
  <2>7. ASSUME NEW j \in 1 .. at, ~script[j].flush, script[j].point = script[i].point,
               PolyOf(script[j].key) = PolyOf(script[i].key)
        PROVE  Opening(verifier, script[j].key) = Opening(verifier, script[i].key)
    <3>1. PICK y \in 1 .. at : /\ Fresh(script, y) /\ SamePlace(script, j, y)
                               /\ Resolve(verifier, script[j].key) = script[y].key
      BY <2>2, <2>7
    <3>2. SamePlace(script, x, y) /\ SamePlace(script, y, x)
      BY <2>3, <2>7, <3>1 DEF SamePlace
    <3>3. x = y
      BY <2>1, <2>3, <3>1, <3>2 DEF Fresh
    <3> QED
      BY <2>3, <3>1, <3>3 DEF Opening
  <2> QED
    BY <2>4, <2>6, <2>7
<1> QED
  BY <1>1, Invariant, PTL

\* The loop of resolve_alias ends on both sides, after one step.
THEOREM ResolveEnds == Spec => []AliasesEnd
<1>1. ASSUME NEW s \in Seq(ProverSteps), DistinctKeys(s), NEW n \in 0 .. Len(s),
             NEW acc, Follows(acc, s, n), NEW k \in DOMAIN acc.aliases
      PROVE  /\ acc.aliases[k] \in DOMAIN acc.openings
             /\ acc.aliases[k] \notin DOMAIN acc.aliases
             /\ PolyOf(acc.aliases[k]) = PolyOf(k)
  <2>1. PICK i \in 1 .. n : Stale(s, i) /\ k = s[i].key
    BY <1>1 DEF Follows, StaleKeys
  <2>2. PICK j \in 1 .. n : Fresh(s, j) /\ SamePlace(s, i, j) /\ acc.aliases[k] = s[j].key
    BY <1>1, <2>1 DEF Follows, StaleAliased
  <2>3. \A x \in 1 .. n : Stale(s, x) => s[x].key # s[j].key
    BY <1>1, <2>2, FreshNotStale
  <2> QED
    BY <1>1, <2>1, <2>2, <2>3 DEF Follows, StaleKeys, FreshOpen, SamePlace
<1>2. ProtocolInv => AliasesEnd
  <2> SUFFICES ASSUME ProtocolInv PROVE AliasesEnd
    OBVIOUS
  <2>1. /\ script \in Seq(ProverSteps) /\ DistinctKeys(script) /\ Len(script) \in 0 .. Len(script)
        /\ at \in 0 .. Len(script)
        /\ Follows(prover, script, Len(script)) /\ Follows(verifier, script, at)
    BY DEF ProtocolInv, TypeInv, VerifierInv
  <2> QED
    BY <1>1, <2>1 DEF AliasesEnd
<1> QED
  BY <1>2, Invariant, PTL

=============================================================================
