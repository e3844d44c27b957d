------------------------- MODULE MCInstructionProof -------------------------
(* Registers of 16 bits, words of 8 and bytes of 2.  The values are the ones *)
(* around the limits of a word and of a register: 255 is the largest word,   *)
(* 128 and 65408 = -128 the most negative one, 32768 the most negative       *)
(* register.  In the proofs the words of an index are limits too, and        *)
(* bitmasks that shift by 0, 1, 7 and 15.                                    *)
EXTENDS InstructionProof

MCValues == {0, 1, 3, 127, 128, 255, 32767, 32768, 65408, 65535}

MCCornerValues == {0, 3, 128, 32768, 65535}

MCPatterns ==
    {<<3, 1, 2>>, <<1, 1, 2>>, <<2, 1, 2>>, <<3, 1, 1>>, <<1, 1, 1>>, <<0, 1, 2>>, <<3, 0, 2>>, <<3, 1, 0>>}

MCOffsets == {0, 1, 2, 3, 4, 5, 7}

MCDeltas == {0, -1} \union {2^k : k \in {0, 1, 7, 8, 15}}

MCSample == {0, 1, 128, 32768, 65408, 65535}

MCChallenges == [i \in 1..LOG_K |-> (7919 * i * i + 104 * i + 31) % FieldSize]
=============================================================================
