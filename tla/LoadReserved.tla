---------------------------- MODULE LoadReserved ----------------------------
(***************************************************************************)
(* What LR.W, LR.D, SC.W and SC.D do: their exec functions in              *)
(* tracer/src/instruction/{lrw,lrd,scw,scd}.rs over the reservation of     *)
(* tracer/src/emulator/cpu.rs.  This is the meaning an execution has; the  *)
(* virtual sequences that are traced and proved are in LoadReservedTrace.  *)
(*                                                                         *)
(* Memory is addressed by words; a doubleword is a word and the next one.  *)
(* Misaligned addresses are left out: they stop the emulator.              *)
(***************************************************************************)
EXTENDS Integers

CONSTANTS
    Word,               \* 32-bit values
    LongMod,            \* registers hold 0 .. LongMod - 1 (the code's 2^64)
    LowWord(_),         \* Long -> Word
    HighWord(_),        \* Long -> Word
    SignExtend(_),      \* Word -> Long
    Join(_, _),         \* low word, high word -> Long
    WordAddr,           \* guest addresses of words, never 0
    DoubleAddr,         \* the aligned ones of doublewords
    Rd                  \* destination registers of the guest's LR and SC

Long == 0 .. LongMod - 1

ASSUME ArithmeticAssumption ==
    /\ LongMod \in Nat \ {0, 1}
    /\ \A v \in Long : LowWord(v) \in Word /\ HighWord(v) \in Word
    /\ \A w \in Word : SignExtend(w) \in Long /\ LowWord(SignExtend(w)) = w
    /\ \A lo \in Word, hi \in Word :
          /\ Join(lo, hi) \in Long
          /\ LowWord(Join(lo, hi)) = lo
          /\ HighWord(Join(lo, hi)) = hi

ASSUME AddressAssumption ==
    /\ WordAddr \subseteq Long \ {0}
    /\ DoubleAddr \subseteq {a \in WordAddr : a + 1 \in WordAddr}
    /\ Rd \subseteq Nat

VARIABLES
    mem,    \* guest memory, by words
    x,      \* the registers of Rd
    res     \* reservation, is_reservation_set and reservation_width

execVars == <<mem, x, res>>

Width == {"W", "D"}
Addr(w) == IF w = "W" THEN WordAddr ELSE DoubleAddr

\* load_word, sign-extended, and load_doubleword.
Load(m, w, a) == IF w = "W" THEN SignExtend(m[a]) ELSE Join(m[a], m[a + 1])

\* store_word keeps the low half of the register.
Store(m, w, a, v) ==
    IF w = "W" THEN [m EXCEPT ![a] = LowWord(v)]
               ELSE [m EXCEPT ![a] = LowWord(v), ![a + 1] = HighWord(v)]

\* Register 0 is hardwired.
WriteRegister(rd, v) == IF rd = 0 THEN x ELSE [x EXCEPT ![rd] = v]

SetReservation(w, a) == [set |-> TRUE, addr |-> a, width |-> w]
ClearReservation == [res EXCEPT !.set = FALSE]
HasReservation(w, a) == res.set /\ res.addr = a /\ res.width = w

----------------------------------------------------------------------------

LoadReserve(w, a, rd) ==
    /\ res' = SetReservation(w, a)
    /\ x' = WriteRegister(rd, Load(mem, w, a))
    /\ UNCHANGED mem

StoreConditional(w, a, v, rd) ==
    /\ IF HasReservation(w, a)
       THEN mem' = Store(mem, w, a, v) /\ x' = WriteRegister(rd, 0)
       ELSE UNCHANGED mem /\ x' = WriteRegister(rd, 1)
    /\ res' = ClearReservation

\* Any other store of the guest: the reservation is left alone.
PlainStore(w, a, v) == mem' = Store(mem, w, a, v) /\ UNCHANGED <<x, res>>

Init ==
    /\ mem \in [WordAddr -> Word]
    /\ x = [r \in Rd |-> 0]
    /\ res = [set |-> FALSE, addr |-> 0, width |-> "W"]

Next ==
    \E w \in Width : \E a \in Addr(w) :
        \/ \E rd \in Rd : LoadReserve(w, a, rd)
        \/ \E v \in Long, rd \in Rd : StoreConditional(w, a, v, rd)
        \/ \E v \in Long : PlainStore(w, a, v)

Spec == Init /\ [][Next]_execVars

=============================================================================
