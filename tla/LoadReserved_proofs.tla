------------------------ MODULE LoadReserved_proofs ------------------------
(***************************************************************************)
(* For every guest whose LR and SC have a destination other than x0: the   *)
(* two reservations mirror each other, the assertion of SC never fails,    *)
(* and tracing implements executing.                                       *)
(***************************************************************************)
EXTENDS LoadReservedTrace, TLAPS

\* The inductive invariant.
Mirror ==
    /\ TypeOK
    /\ AssertionHolds
    /\ NoStaleReservation
    /\ ReservationMirrored

\* What Load returns is a register value.
LEMMA LoadType ==
    ASSUME NEW m \in [WordAddr -> Word], NEW w \in Width, NEW a \in Addr(w)
    PROVE  Load(m, w, a) \in Long
BY ArithmeticAssumption, AddressAssumption DEF Load, Addr, Width, Long

\* Storing a register leaves a memory.
LEMMA StoreType ==
    ASSUME NEW m \in [WordAddr -> Word], NEW w \in Width, NEW a \in Addr(w), NEW v \in Long
    PROVE  Store(m, w, a, v) \in [WordAddr -> Word]
BY ArithmeticAssumption, AddressAssumption DEF Store, Addr, Width

\* Storing back what was loaded changes nothing: why a failing SC may write.
LEMMA StoreBack ==
    ASSUME NEW m \in [WordAddr -> Word], NEW w \in Width, NEW a \in Addr(w)
    PROVE  Store(m, w, a, Load(m, w, a)) = m
<1>1. a \in WordAddr /\ m[a] \in Word
  BY AddressAssumption DEF Addr, Width
<1>2. CASE w = "W"
  BY <1>1, <1>2, ArithmeticAssumption DEF Store, Load
<1>3. CASE w = "D"
  <2>1. a + 1 \in WordAddr /\ m[a + 1] \in Word
    BY <1>3, AddressAssumption DEF Addr
  <2> QED
    BY <1>1, <1>3, <2>1, ArithmeticAssumption DEF Store, Load
<1> QED
  BY <1>2, <1>3 DEF Width

\* The arithmetic of the conditional store selects one of its two operands.
LEMMA BlendSelects ==
    ASSUME NEW old \in Long, NEW v \in Long
    PROVE  Blend(old, v, 0) = old /\ Blend(old, v, 1) = v
<1>1. LongMod \in Nat \ {0, 1} /\ old \in Int /\ v \in Int
  BY ArithmeticAssumption DEF Long
<1>2. old + (v - old) * 0 = old /\ old + (v - old) * 1 = v
  BY <1>1
<1>3. old % LongMod = old /\ v % LongMod = v
  BY <1>1, ArithmeticAssumption DEF Long
<1> QED
  BY <1>2, <1>3 DEF Blend

\* A guest address is a positive register value.
LEMMA AddrFacts ==
    ASSUME NEW w \in Width, NEW a \in Addr(w)
    PROVE  a \in WordAddr /\ a \in Int /\ a # 0
BY AddressAssumption, ArithmeticAssumption DEF Addr, Width, Long

\* With a destination other than x0, an SC whose advice is 1 finds its address
\* in its reservation register.
LEMMA AdviceIsHonest ==
    ASSUME Mirror, NEW w \in Width, NEW a \in Addr(w), NEW rd \in Rd
    PROVE  /\ Advice(w, a, rd) \in {0, 1}
           /\ Advice(w, a, rd) * (virt[w] - a) = 0
<1>1. a \in Int /\ virt[w] \in Int
  <2>1. virt[w] \in WordAddr \cup {0}
    BY DEF Mirror, TypeOK
  <2>2. WordAddr \cup {0} \subseteq Int
    BY AddressAssumption, ArithmeticAssumption DEF Long
  <2> QED
    BY <2>1, <2>2, AddrFacts
<1>2. CASE Advice(w, a, rd) = 1
  <2>1. virt[w] = a
    BY <1>2 DEF Advice, HasReservation, Mirror, ReservationMirrored
  <2> QED
    BY <1>1, <1>2, <2>1
<1>3. CASE Advice(w, a, rd) = 0
  BY <1>1, <1>3
<1> QED
  BY <1>2, <1>3 DEF Advice

\* At first there is no reservation anywhere.
LEMMA InitMirror ==
    TraceInit => Mirror
<1> SUFFICES ASSUME TraceInit PROVE Mirror
  OBVIOUS
<1>1. 0 \in Long
  BY ArithmeticAssumption DEF Long
<1>2. res = [set |-> FALSE, addr |-> 0, width |-> "W"] /\ virt = [w \in Width |-> 0]
  BY DEF TraceInit, Init
<1>3. TypeOK
  <2>1. mem \in [WordAddr -> Word] /\ x \in [Rd -> Long]
    BY <1>1 DEF TraceInit, Init
  <2>2. res \in [set : BOOLEAN, addr : WordAddr \cup {0}, width : Width]
    BY <1>2 DEF Width
  <2>3. virt \in [Width -> WordAddr \cup {0}]
    BY <1>2
  <2> QED
    BY <2>1, <2>2, <2>3 DEF TraceInit, TypeOK
<1>4. NoStaleReservation /\ ReservationMirrored
  BY <1>2 DEF NoStaleReservation, ReservationMirrored
<1> QED
  BY <1>3, <1>4 DEF TraceInit, Mirror, AssertionHolds

\* The effect of a traced LR on both reservations.
LEMMA LoadReserveMirror ==
    ASSUME 0 \notin Rd, Mirror, NEW w \in Width, NEW a \in Addr(w), NEW rd \in Rd,
           TraceLoadReserve(w, a, rd)
    PROVE  Mirror'
<1>1. a \in WordAddr /\ a # 0
  BY AddrFacts
<1>2. Load(mem, w, a) \in Long
  BY LoadType DEF Mirror, TypeOK
<1>3. res' = [set |-> TRUE, addr |-> a, width |-> w]
  BY DEF TraceLoadReserve, RunsTraceFunction, SetReservation
<1>4. virt' = [u \in Width |-> IF u = w THEN a ELSE 0]
  BY DEF TraceLoadReserve, Reserve
<1>5. TypeOK'
  <2>1. x' \in [Rd -> Long]
    BY <1>2 DEF TraceLoadReserve, WriteRegister, Mirror, TypeOK
  <2>2. res' \in [set : BOOLEAN, addr : WordAddr \cup {0}, width : Width]
    BY <1>1, <1>3
  <2>3. virt' \in [Width -> WordAddr \cup {0}]
    BY <1>1, <1>4
  <2> QED
    BY <2>1, <2>2, <2>3 DEF TraceLoadReserve, Mirror, TypeOK
<1>6. AssertionHolds'
  BY DEF TraceLoadReserve, Mirror, AssertionHolds
<1>7. NoStaleReservation' /\ ReservationMirrored'
  BY <1>3, <1>4 DEF NoStaleReservation, ReservationMirrored, HasReservation
<1> QED
  BY <1>5, <1>6, <1>7 DEF Mirror

\* The effect of a traced SC.
LEMMA StoreConditionalMirror ==
    ASSUME 0 \notin Rd, Mirror, NEW w \in Width, NEW a \in Addr(w), NEW v \in Long,
           NEW rd \in Rd, TraceStoreConditional(w, a, v, rd)
    PROVE  /\ Mirror'
           /\ StoreConditional(w, a, v, rd)
<1> DEFINE success == Advice(w, a, rd)
           old == Load(mem, w, a)
<1>1. success \in {0, 1} /\ success * (virt[w] - a) = 0
  BY AdviceIsHonest
<1>2. /\ mem' = Store(mem, w, a, Blend(old, v, success))
      /\ virt' = Release(w)
      /\ x' = WriteRegister(rd, 1 - success)
      /\ res' = AfterStoreConditional(rd)
      /\ last' = "SC"
      /\ panicked' = panicked
  BY <1>1 DEF TraceStoreConditional
<1>3. rd # 0
  OBVIOUS
<1>4. res' = ClearReservation
  BY <1>2, <1>3 DEF AfterStoreConditional, RunsTraceFunction
<1>5. virt' = [u \in Width |-> 0]
  BY <1>2 DEF Release
<1>6. mem \in [WordAddr -> Word] /\ old \in Long
  BY LoadType DEF Mirror, TypeOK
<1>7. success = (IF HasReservation(w, a) THEN 1 ELSE 0)
  BY <1>3 DEF Advice, RunsTraceFunction
<1>8. mem' = IF HasReservation(w, a) THEN Store(mem, w, a, v) ELSE mem
  <2>1. CASE HasReservation(w, a)
    <3>1. Blend(old, v, success) = v
      BY <1>6, <1>7, <2>1, BlendSelects
    <3> QED
      BY <1>2, <2>1, <3>1
  <2>2. CASE ~HasReservation(w, a)
    <3>1. Blend(old, v, success) = old
      BY <1>6, <1>7, <2>2, BlendSelects
    <3>2. Store(mem, w, a, old) = mem
      BY <1>6, StoreBack
    <3> QED
      BY <1>2, <2>2, <3>1, <3>2
  <2> QED
    BY <2>1, <2>2
<1>9. StoreConditional(w, a, v, rd)
  <2>1. x' = WriteRegister(rd, IF HasReservation(w, a) THEN 0 ELSE 1)
    BY <1>2, <1>7
  <2> QED
    BY <1>4, <1>8, <2>1 DEF StoreConditional
<1>10. TypeOK'
  <2>1. mem' \in [WordAddr -> Word]
    BY <1>6, <1>8, StoreType
  <2>2. x' \in [Rd -> Long]
    <3>1. 1 - success \in Long
      BY <1>1, ArithmeticAssumption DEF Long
    <3> QED
      BY <1>2, <3>1 DEF WriteRegister, Mirror, TypeOK
  <2>3. res' \in [set : BOOLEAN, addr : WordAddr \cup {0}, width : Width]
    BY <1>4 DEF ClearReservation, Mirror, TypeOK
  <2> QED
    BY <1>2, <1>5, <2>1, <2>2, <2>3 DEF Mirror, TypeOK
<1>11. AssertionHolds'
  BY <1>2 DEF Mirror, AssertionHolds
<1>12. NoStaleReservation' /\ ReservationMirrored'
  <2>1. res'.set = FALSE
    BY <1>4 DEF ClearReservation, Mirror, TypeOK
  <2> QED
    BY <1>5, <2>1 DEF NoStaleReservation, ReservationMirrored
<1> QED
  BY <1>9, <1>10, <1>11, <1>12 DEF Mirror

\* An ordinary store touches neither reservation.
LEMMA PlainStoreMirror ==
    ASSUME Mirror, NEW w \in Width, NEW a \in Addr(w), NEW v \in Long,
           TracePlainStore(w, a, v)
    PROVE  Mirror'
<1>1. mem' \in [WordAddr -> Word]
  BY StoreType DEF TracePlainStore, PlainStore, Mirror, TypeOK
<1> QED
  BY <1>1 DEF TracePlainStore, PlainStore, Mirror, TypeOK, AssertionHolds,
     NoStaleReservation, ReservationMirrored, HasReservation

\* Every traced step keeps the invariant and is a step of the execution.
LEMMA StepMirror ==
    ASSUME 0 \notin Rd, Mirror, [TraceNext]_vars
    PROVE  Mirror' /\ [Next]_execVars
<1>1. CASE UNCHANGED vars
  BY <1>1 DEF vars, execVars, Mirror, TypeOK, AssertionHolds, NoStaleReservation,
     ReservationMirrored, HasReservation
<1>2. CASE TraceNext
  <2>1. PICK w \in Width : \E a \in Addr(w) :
            \/ \E rd \in Rd : TraceLoadReserve(w, a, rd)
            \/ \E v \in Long, rd \in Rd : TraceStoreConditional(w, a, v, rd)
            \/ \E v \in Long : TracePlainStore(w, a, v)
    BY <1>2 DEF TraceNext
  <2>2. PICK a \in Addr(w) :
            \/ \E rd \in Rd : TraceLoadReserve(w, a, rd)
            \/ \E v \in Long, rd \in Rd : TraceStoreConditional(w, a, v, rd)
            \/ \E v \in Long : TracePlainStore(w, a, v)
    BY <2>1
  <2>3. ASSUME NEW rd \in Rd, TraceLoadReserve(w, a, rd) PROVE Mirror' /\ Next
    <3>1. LoadReserve(w, a, rd)
      BY <2>3 DEF TraceLoadReserve, LoadReserve, RunsTraceFunction
    <3>2. Mirror'
      BY <2>3, LoadReserveMirror
    <3> QED
      BY <3>1, <3>2 DEF Next
  <2>4. ASSUME NEW v \in Long, NEW rd \in Rd, TraceStoreConditional(w, a, v, rd)
        PROVE  Mirror' /\ Next
    <3>1. Mirror' /\ StoreConditional(w, a, v, rd)
      BY <2>4, StoreConditionalMirror
    <3> QED
      BY <3>1 DEF Next
  <2>5. ASSUME NEW v \in Long, TracePlainStore(w, a, v) PROVE Mirror' /\ Next
    <3>1. Mirror'
      BY <2>5, PlainStoreMirror
    <3> QED
      BY <2>5, <3>1 DEF Next, TracePlainStore
  <2> QED
    BY <2>2, <2>3, <2>4, <2>5
<1> QED
  BY <1>1, <1>2

\* The assertion in the virtual sequences of SC never fails on an honest trace
\* (AssertionHolds), and the reservation registers never outlive the
\* emulator's reservation (NoStaleReservation): scw.rs, scd.rs, lrw.rs, lrd.rs.
THEOREM ReservationSafe ==
    ASSUME 0 \notin Rd
    PROVE  TraceSpec => [](TypeOK /\ AssertionHolds /\ NoStaleReservation
                              /\ ReservationMirrored)
<1>1. Mirror /\ [TraceNext]_vars => Mirror'
  BY StepMirror
<1>2. Mirror => TypeOK /\ AssertionHolds /\ NoStaleReservation /\ ReservationMirrored
  BY DEF Mirror
<1> QED
  BY <1>1, <1>2, InitMirror, PTL DEF TraceSpec

\* The assertion that closes the virtual sequence of SC (scw.rs, scd.rs) holds
\* whatever the program does between LR and SC, unless a destination is x0: the
\* run on that destination shows the assertion fail.
THEOREM AssertionNeverFails ==
    ASSUME 0 \notin Rd
    PROVE  TraceSpec => []AssertionHolds
<1>1. (TypeOK /\ AssertionHolds /\ NoStaleReservation /\ ReservationMirrored) => AssertionHolds
  OBVIOUS
<1> QED
  BY <1>1, ReservationSafe, PTL

\* Every behaviour of the traced instructions is a behaviour of the executed
\* ones: same memory, same registers, same reservation after every instruction
\* (Instruction::trace against Instruction::execute).
THEOREM TraceRefinesExec ==
    ASSUME 0 \notin Rd
    PROVE  TraceSpec => TraceImplementsExec
<1>1. TraceInit => Init
  BY DEF TraceInit
<1>2. Mirror /\ [TraceNext]_vars => Mirror' /\ [Next]_execVars
  BY StepMirror
<1> QED
  BY <1>1, <1>2, InitMirror, PTL DEF TraceSpec, Spec, TraceImplementsExec

=============================================================================
