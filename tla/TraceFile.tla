------------------------------ MODULE TraceFile ------------------------------
(***************************************************************************)
(* What trace_to_file promises, without threads, channel or buffer: a file *)
(* that only grows, always the beginning of the encoded trace, and a       *)
(* result that is Ok only over the whole of it.  What is in the file is    *)
(* settled: cycles that follow never change how it had to be written.      *)
(***************************************************************************)
EXTENDS Naturals, Sequences, SequencesExt

CONSTANTS
    Item,           \* cycles
    BatchSize       \* cycles of a batch

VARIABLES
    trace,          \* the cycles handed over
    log,            \* the file
    outcome         \* "none" until a result is returned

\* A batch is its length followed by its items (postcard's encoding of a Vec).
Encode(batch) == <<Len(batch)>> \o batch

\* A trace is cut into batches, of which only the last may be short.
Encoding(s) ==
    LET pieces == (Len(s) + BatchSize - 1) \div BatchSize
        end(i) == IF i * BatchSize < Len(s) THEN i * BatchSize ELSE Len(s)
    IN  FlattenSeq([i \in 1 .. pieces |-> Encode(SubSeq(s, (i - 1) * BatchSize + 1, end(i)))])

Init == trace = <<>> /\ log = <<>> /\ outcome = "none"

\* The trace goes on, if the file leaves room for it.
Push(x) ==
    /\ outcome = "none"
    /\ trace' = Append(trace, x)
    /\ IsPrefix(log, Encoding(trace'))
    /\ UNCHANGED <<log, outcome>>

\* More of the trace reaches the file.
Write ==
    /\ outcome = "none"
    /\ \E n \in Len(log) .. Len(Encoding(trace)) : log' = SubSeq(Encoding(trace), 1, n)
    /\ UNCHANGED <<trace, outcome>>

Return ==
    /\ outcome = "none"
    /\ \/ outcome' = "ok" /\ log = Encoding(trace)
       \/ outcome' = "err"
    /\ UNCHANGED <<trace, log>>

Next == Write \/ Return \/ \E x \in Item : Push(x)

Spec == Init /\ [][Next]_<<trace, log, outcome>>

==============================================================================
