------------------------ MODULE MCLoadReservedTrace ------------------------
(* Words of one bit, registers of two, so that a word and a doubleword at   *)
(* the same address and every cut and extension are told apart.             *)
EXTENDS LoadReservedTrace

MCWord == 0 .. 1
MCLowWord(v) == v % 2
MCHighWord(v) == v \div 2
MCSignExtend(w) == IF w >= 1 THEN w + 2 ELSE w
MCJoin(lo, hi) == lo + 2 * hi

=============================================================================
