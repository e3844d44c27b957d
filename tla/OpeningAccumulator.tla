------------------------- MODULE OpeningAccumulator -------------------------
(***************************************************************************)
(* The opening accumulators of jolt-core/src/poly/opening_proof.rs, as     *)
(* operators on their state.  Both sides collect claims "polynomial p has  *)
(* value c at point r", one per OpeningId (a polynomial and the sumcheck   *)
(* that reduced to it), and both drop a claim whose polynomial is already  *)
(* open at the same point, keeping an alias instead.  The prover is given  *)
(* each claim; the verifier finds it in the proof, where the dropped ones  *)
(* are missing, and learns the points only as it goes.                     *)
(***************************************************************************)
EXTENDS Naturals, Sequences, SequencesExt, FiniteSetsExt

CONSTANTS
    Key,            \* OpeningIds
    PolyOf(_),      \* underlying_polynomial_id
    Point,          \* opening points
    NoPoint,        \* the point of no coordinates
    Claim,          \* field elements
    Zero            \* F::zero()

Poly == {PolyOf(k) : k \in Key}

ASSUME AccumulatorAssumption == NoPoint \in Point /\ Zero \in Claim

\* ProverOpeningAccumulator::new, VerifierOpeningAccumulator::new.
NewAccumulator ==
    [openings |-> [k \in {} |-> [point |-> NoPoint, claim |-> Zero]],
     by_poly |-> [p \in Poly |-> <<>>],
     aliases |-> [k \in {} |-> k],
     pending |-> <<>>,
     pending_ids |-> <<>>]

\* A partial function with one more entry, or another value for it.
With(f, k, v) == [j \in DOMAIN f \cup {k} |-> IF j = k THEN v ELSE f[j]]

\* A mutant: a getter looks the key up as it is.
ResolveNot(acc, k) == k

\* resolve_alias: follow the aliases to their end.  No chain is longer than the
\* number of aliases, unless it is a cycle and the code's loop never ends.
Resolve(acc, k) ==
    LET n == Cardinality(DOMAIN acc.aliases)
        follow[i \in 0 .. n] ==
            IF i = 0 THEN k
            ELSE IF follow[i - 1] \in DOMAIN acc.aliases THEN acc.aliases[follow[i - 1]]
                 ELSE follow[i - 1]
    IN  follow[n]

\* get_opening and the three get_*_opening functions.
Opening(acc, k) == acc.openings[Resolve(acc, k)]

\* A mutant: any opening of the polynomial will do.
PlacesAnywhere(acc, p, point) == DOMAIN acc.by_poly[p]

\* Places of the index where polynomial p is open at the point.
PlacesAt(acc, p, point) ==
    {i \in DOMAIN acc.by_poly[p] : acc.openings[acc.by_poly[p][i]].point = point}

\* find_existing_opening_at_point, when there is one.
Existing(acc, p, point) == acc.by_poly[p][Min(PlacesAt(acc, p, point))]

\* A claim that is new: transcript, map and index.
Insert(acc, k, point, claim) ==
    [acc EXCEPT !.pending = Append(@, claim),
                !.pending_ids = Append(@, k),
                !.openings = With(@, k, [point |-> point, claim |-> claim]),
                !.by_poly[PolyOf(k)] = Append(@, k)]

\* A mutant: the alias is entered the wrong way round.
AliasSwapped(acc, k, existing) == [acc EXCEPT !.aliases = With(@, existing, k)]

\* The key reads what the existing one reads.
Alias(acc, k, existing) == [acc EXCEPT !.aliases = With(@, k, existing)]

----------------------------------------------------------------------------
(* The prover: insert_or_alias_opening. *)

IsOpen(acc, k, point) == PlacesAt(acc, PolyOf(k), point) # {}

\* Its two assertions.
MayInsert(acc, k, point, claim) ==
    /\ k \notin DOMAIN acc.openings
    /\ IsOpen(acc, k, point) =>
          acc.openings[Existing(acc, PolyOf(k), point)].claim = claim

\* Dropped if the polynomial is open at the point, added otherwise.
InsertOrAlias(acc, k, point, claim) ==
    IF IsOpen(acc, k, point) THEN Alias(acc, k, Existing(acc, PolyOf(k), point))
                             ELSE Insert(acc, k, point, claim)

----------------------------------------------------------------------------
(* The verifier: populate_or_alias_opening.  Its map holds the proof's       *)
(* claims from the start, without a point, and indexes an entry only once it *)
(* has a point with coordinates.                                             *)

OpenToVerifier(acc, k, point) == point # NoPoint /\ IsOpen(acc, k, point)

\* Its assertion, on a claim of the proof for a point that is already open.
MayPopulate(acc, k, point) ==
    (k \in DOMAIN acc.openings /\ OpenToVerifier(acc, k, point)) =>
        acc.openings[Existing(acc, PolyOf(k), point)].claim = acc.openings[k].claim

\* A claim missing from the proof is a zero placeholder.
ClaimOf(acc, k) == IF k \in DOMAIN acc.openings THEN acc.openings[k].claim ELSE Zero

\* A mutant: only claims missing from the proof go to the transcript.
PopulateUnabsorbed(acc, k, point) ==
    LET new == Insert(acc, k, point, ClaimOf(acc, k))
    IN  [new EXCEPT !.by_poly = IF point = NoPoint THEN acc.by_poly ELSE @,
                    !.pending = IF k \in DOMAIN acc.openings THEN acc.pending ELSE @]

\* index_opening_id leaves out entries whose point has no coordinates.
Populate(acc, k, point) ==
    LET new == Insert(acc, k, point, ClaimOf(acc, k))
    IN  IF point = NoPoint THEN [new EXCEPT !.by_poly = acc.by_poly] ELSE new

\* A mutant: every claim is absorbed, the missing ones as zero.
PopulateAlways(acc, k, point) == Populate(acc, k, point)

\* Alias a polynomial that is open at the point, whether or not the proof has
\* a claim for the key.
PopulateOrAlias(acc, k, point) ==
    IF OpenToVerifier(acc, k, point) THEN Alias(acc, k, Existing(acc, PolyOf(k), point))
                                     ELSE Populate(acc, k, point)

\* flush_to_transcript.
Flushed(acc) == [acc EXCEPT !.pending = <<>>, !.pending_ids = <<>>]

=============================================================================
