------------------------- MODULE MCOpeningProtocol -------------------------
(* Three sumchecks open the polynomial p (an advice polynomial), one opens q *)
(* and one reduction of p leaves an intermediate claim.                      *)
EXTENDS OpeningProtocol

CONSTANTS p1, p2, p3, q1, pmid, r1, r2, none

MCKey == {p1, p2, p3, q1, pmid}
MCPolyOf(k) == IF k = q1 THEN "q" ELSE "p"
MCPoint == {none, r1, r2}

\* Every pair of values of p at the two points; q is constant.
MCEvaluations ==
    {[pt \in {"p", "q"} \X MCPoint |->
        IF pt[1] = "q" THEN 1 ELSE IF pt[2] = r1 THEN v1 ELSE v2] : v1, v2 \in 0 .. 1}

\* The sumchecks of p are alike, and so are the points.
MCSymmetry == Permutations({p1, p2, p3}) \cup Permutations({r1, r2})

=============================================================================
