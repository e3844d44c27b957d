-------------------------- MODULE LoadReservedTrace --------------------------
(***************************************************************************)
(* LR and SC as they are traced: Instruction::trace of                     *)
(* tracer/src/instruction/mod.rs dispatches an instruction either to its   *)
(* own trace function, which keeps the emulator's reservation and supplies *)
(* the advice of SC, or, when rd is x0, straight to its virtual sequence.  *)
(* The sequences keep a reservation of their own in the virtual registers  *)
(* 32 (word) and 33 (doubleword): the one the constraint system sees.      *)
(***************************************************************************)
EXTENDS LoadReserved

VARIABLES
    virt,       \* the reservation registers, by width; 0 for none
    panicked,   \* a VirtualAssertEQ failed while tracing
    last        \* history: the last instruction traced

vars == <<mem, x, res, virt, panicked, last>>

\* What the sequence of LR leaves in the reservation registers.
Reserve(w, a) == [u \in Width |-> IF u = w THEN a ELSE 0]

\* A mutant: SC leaves the reservation register of the other width.
ReleaseOneWidth(w) == [virt EXCEPT ![w] = 0]

\* SC clears both reservation registers, whether it succeeds or not.
Release(w) == [u \in Width |-> 0]

\* A mutant: the store does not depend on success.
BlendAlways(old, v, success) == v

\* mem + (rs2 - mem) * v_success: SC always stores, on failure what was there.
Blend(old, v, success) == (old + (v - old) * success) % LongMod

\* Instruction::trace for rd = x0: the sequence alone, its destination
\* remapped to a virtual register, its advice left at 0.
RunsTraceFunction(rd) == rd # 0

\* LRW::trace, LRD::trace.
TraceLoadReserve(w, a, rd) ==
    /\ ~panicked
    /\ res' = IF RunsTraceFunction(rd) THEN SetReservation(w, a) ELSE res
    /\ virt' = Reserve(w, a)
    /\ x' = WriteRegister(rd, Load(mem, w, a))
    /\ last' = "LR"
    /\ UNCHANGED <<mem, panicked>>

\* SCW::trace, SCD::trace: the advice is the emulator's own verdict.
Advice(w, a, rd) == IF RunsTraceFunction(rd) /\ HasReservation(w, a) THEN 1 ELSE 0

\* A mutant: the emulator keeps its reservation.
AfterStoreConditionalKept(rd) == res

AfterStoreConditional(rd) == IF RunsTraceFunction(rd) THEN ClearReservation ELSE res

TraceStoreConditional(w, a, v, rd) ==
    /\ ~panicked
    /\ LET success == Advice(w, a, rd)
       IN  IF success * (virt[w] - a) = 0
           THEN /\ mem' = Store(mem, w, a, Blend(Load(mem, w, a), v, success))
                /\ virt' = Release(w)
                /\ x' = WriteRegister(rd, 1 - success)
                /\ res' = AfterStoreConditional(rd)
                /\ last' = "SC"
                /\ UNCHANGED panicked
           ELSE panicked' = TRUE /\ UNCHANGED <<mem, x, res, virt, last>>

TracePlainStore(w, a, v) ==
    /\ ~panicked
    /\ PlainStore(w, a, v)
    /\ last' = "store"
    /\ UNCHANGED <<virt, panicked>>

TraceInit ==
    /\ Init
    /\ virt = [w \in Width |-> 0]
    /\ panicked = FALSE
    /\ last = "none"

TraceNext ==
    \E w \in Width : \E a \in Addr(w) :
        \/ \E rd \in Rd : TraceLoadReserve(w, a, rd)
        \/ \E v \in Long, rd \in Rd : TraceStoreConditional(w, a, v, rd)
        \/ \E v \in Long : TracePlainStore(w, a, v)

TraceSpec == TraceInit /\ [][TraceNext]_vars

----------------------------------------------------------------------------

\* Memory, registers and both reservations are well formed.
TypeOK ==
    /\ mem \in [WordAddr -> Word]
    /\ x \in [Rd -> Long]
    /\ res \in [set : BOOLEAN, addr : WordAddr \cup {0}, width : Width]
    /\ virt \in [Width -> WordAddr \cup {0}]
    /\ panicked \in BOOLEAN
    /\ last \in {"none", "LR", "SC", "store"}

\* An SC the emulator takes for a success passes the assertion of its virtual
\* sequence: an honest trace of LR and SC can always be proved.
AssertionHolds == ~panicked

\* The constraint system allows SC to succeed wherever a reservation register
\* holds its address.  It holds one only while the emulator has that very
\* reservation: no sequence of LR and SC of both widths leaves a stale one.
NoStaleReservation ==
    \A w \in Width : virt[w] # 0 => HasReservation(w, virt[w])

\* The other direction, which makes AssertionHolds inductive.
ReservationMirrored == res.set => virt[res.width] = res.addr

\* Tracing an instruction has the effect executing it has, on memory and on
\* registers, although on failure SC writes memory and on success it takes the
\* prover's word for the reservation.
TraceImplementsExec == Spec

\* The comment on the last line of SCW::exec: "SC always invalidates the
\* reservation regardless of success/failure".
ScInvalidates == last = "SC" => ~res.set

=============================================================================
