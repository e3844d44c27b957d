--------------------------- MODULE OpeningProtocol ---------------------------
(***************************************************************************)
(* A proof's opening claims, from the prover's accumulator to the          *)
(* verifier's: the prover's sumchecks append openings (cache_openings) and *)
(* flush the new claims to the transcript at the end of each batch; the    *)
(* canonical claims go into the proof (prover.rs, Claims); the verifier    *)
(* loads them and appends the same openings in the same order.             *)
(*                                                                         *)
(* A sumcheck opens each of its polynomials once, so no OpeningId is       *)
(* appended twice.  The keys of Intermediate are claims that belong to no  *)
(* point (the advice reduction's c_mid, one for each advice polynomial),   *)
(* appended with the empty point; every other point has coordinates.       *)
(***************************************************************************)
EXTENDS OpeningAccumulator

CONSTANTS
    Intermediate,   \* the keys appended without a point
    OpenPoints,     \* the points other keys are opened at
    Evaluations,    \* possible values of the polynomials, by polynomial and point
    MaxSteps,       \* bound: appends and flushes of a proof
    MaxForgedSteps  \* bound: the same, of a proof that may be from anywhere

ASSUME ProtocolAssumption ==
    /\ Intermediate \subseteq Key
    /\ \A k, l \in Intermediate : PolyOf(k) = PolyOf(l) => k = l
    /\ OpenPoints \subseteq Point \ {NoPoint}
    /\ Evaluations \subseteq [Poly \X Point -> Claim]
    /\ MaxSteps \in Nat
    /\ MaxForgedSteps \in Nat

VARIABLES
    eval,           \* what the polynomials evaluate to
    mid,            \* the values of the intermediate claims
    phase,          \* "prove", "verify" or "panic"
    honest,         \* the verifier has the prover's proof, or none yet
    prover, verifier,               \* the accumulators
    p_transcript, v_transcript,     \* claims absorbed
    script,         \* what the prover appended: keys and points, and the flushes
    at              \* how much of the script the verifier has followed

vars == <<eval, mid, phase, honest, prover, verifier, p_transcript, v_transcript, script, at>>

FlushStep == [flush |-> TRUE]
AppendStep(k, point) == [flush |-> FALSE, key |-> k, point |-> point]

AppendedUpTo(n) == {script[i].key : i \in {j \in 1 .. n : ~script[j].flush}}

TrueClaim(k, point) == IF k \in Intermediate THEN mid ELSE eval[<<PolyOf(k), point>>]

----------------------------------------------------------------------------

\* The append_* functions, with the claim an honest prover has.
ProverAppend(k, point) ==
    /\ phase = "prove"
    /\ Len(script) < MaxSteps
    /\ k \notin AppendedUpTo(Len(script))
    /\ LET c == TrueClaim(k, point)
       IN  IF MayInsert(prover, k, point, c)
           THEN /\ prover' = InsertOrAlias(prover, k, point, c)
                /\ script' = Append(script, AppendStep(k, point))
                /\ UNCHANGED phase
           ELSE phase' = "panic" /\ UNCHANGED <<prover, script>>
    /\ UNCHANGED <<eval, mid, honest, verifier, p_transcript, v_transcript, at>>

ProverFlush ==
    /\ phase = "prove"
    /\ Len(script) < MaxSteps
    /\ prover.pending # <<>>
    /\ p_transcript' = p_transcript \o prover.pending
    /\ prover' = Flushed(prover)
    /\ script' = Append(script, FlushStep)
    /\ UNCHANGED <<eval, mid, phase, honest, verifier, v_transcript, at>>

\* The verifier starts from a map of the claims of the proof.
Load(claims) ==
    /\ phase = "prove"
    /\ phase' = "verify"
    /\ verifier' = [NewAccumulator EXCEPT
                      !.openings = [k \in DOMAIN claims |->
                                      [point |-> NoPoint, claim |-> claims[k]]]]
    /\ UNCHANGED <<eval, mid, prover, p_transcript, v_transcript, script, at>>

\* The proof the prover made: its canonical openings, without their points.
Deliver ==
    /\ Load([k \in DOMAIN prover.openings |-> prover.openings[k].claim])
    /\ UNCHANGED honest

\* A proof from anywhere.
DeliverAny ==
    /\ Len(script) <= MaxForgedSteps
    /\ \E S \in SUBSET Key : \E claims \in [S -> Claim] : Load(claims)
    /\ honest' = FALSE

VerifierAppend ==
    /\ phase = "verify"
    /\ at < Len(script)
    /\ LET s == script[at + 1]
       IN  /\ ~s.flush
           /\ IF MayPopulate(verifier, s.key, s.point)
              THEN /\ verifier' = PopulateOrAlias(verifier, s.key, s.point)
                   /\ at' = at + 1
                   /\ UNCHANGED phase
              ELSE phase' = "panic" /\ UNCHANGED <<verifier, at>>
    /\ UNCHANGED <<eval, mid, honest, prover, p_transcript, v_transcript, script>>

VerifierFlush ==
    /\ phase = "verify"
    /\ at < Len(script)
    /\ script[at + 1].flush
    /\ v_transcript' = v_transcript \o verifier.pending
    /\ verifier' = Flushed(verifier)
    /\ at' = at + 1
    /\ UNCHANGED <<eval, mid, phase, honest, prover, p_transcript, script>>

Init ==
    /\ eval \in Evaluations
    /\ mid \in Claim
    /\ phase = "prove"
    /\ honest = TRUE
    /\ prover = NewAccumulator
    /\ verifier = NewAccumulator
    /\ p_transcript = <<>>
    /\ v_transcript = <<>>
    /\ script = <<>>
    /\ at = 0

Prove ==
    \/ \E k \in Key \ Intermediate, point \in OpenPoints : ProverAppend(k, point)
    \/ \E k \in Intermediate : ProverAppend(k, NoPoint)
    \/ ProverFlush
Verify == VerifierAppend \/ VerifierFlush

Spec == Init /\ [][Prove \/ Deliver \/ DeliverAny \/ Verify]_vars

----------------------------------------------------------------------------

\* An honest prover and the verifier of its proof never run into the
\* assertions on duplicate claims.
HonestNeverPanics == honest => phase # "panic"

\* The verifier absorbs the claims the prover absorbed, in the same order, at
\* the same flushes: else every later challenge differs and an honest proof is
\* rejected.  It finds out which claims the prover dropped on its own.
TranscriptsAgree ==
    honest =>
        /\ IsPrefix(v_transcript, p_transcript)
        /\ phase = "verify" /\ at = Len(script) =>
              /\ v_transcript = p_transcript
              /\ verifier.pending_ids = prover.pending_ids
              /\ verifier.pending = prover.pending

\* What a later stage reads for a key, on either side, is the value of its
\* polynomial at the point the key was opened at, aliased or not.
ReadsTrueOpening ==
    LET reads(acc, n) == \A i \in 1 .. n :
            ~script[i].flush =>
                LET s == script[i] IN
                /\ Resolve(acc, s.key) \in DOMAIN acc.openings
                /\ Opening(acc, s.key) =
                      [point |-> s.point, claim |-> TrueClaim(s.key, s.point)]
    IN  reads(prover, Len(script)) /\ (honest /\ phase = "verify" => reads(verifier, at))

\* Whatever claims a proof holds, two keys of one polynomial opened at one point
\* read the same claim in the verifier, and no claim is read that has not been
\* absorbed in the transcript or waits to be at the next flush.
OneAbsorbedClaimPerPoint ==
    phase = "verify" =>
        \A i \in 1 .. at : ~script[i].flush =>
            LET s == script[i]
                o == Opening(verifier, s.key)
            IN  /\ o.point = s.point
                /\ o.claim \in Range(v_transcript \o verifier.pending)
                /\ \A j \in 1 .. at :
                      (/\ ~script[j].flush
                       /\ script[j].point = s.point
                       /\ s.point # NoPoint
                       /\ PolyOf(script[j].key) = PolyOf(s.key))
                      => Opening(verifier, script[j].key) = o

\* The aliases of both sides lead in one step to an opening that is not itself
\* aliased, so the loop of resolve_alias ends.
AliasesEnd ==
    \A acc \in {prover, verifier} : \A k \in DOMAIN acc.aliases :
        /\ acc.aliases[k] \in DOMAIN acc.openings
        /\ acc.aliases[k] \notin DOMAIN acc.aliases
        /\ PolyOf(acc.aliases[k]) = PolyOf(k)

=============================================================================
