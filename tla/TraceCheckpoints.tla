-------------------------- MODULE TraceCheckpoints --------------------------
(***************************************************************************)
(* trace_checkpoints of tracer/src/lib.rs: drives a CheckpointingTracer to *)
(* the end of the program, saving a checkpoint every Interval cycles, and  *)
(* returns the vector of checkpoints, whose owners then replay them        *)
(* concurrently.  Or the caller is another client of the tracer, which     *)
(* saves and replays when it likes.                                        *)
(***************************************************************************)
EXTENDS CheckpointingTracer

CONSTANT Interval       \* checkpoint_interval

ASSUME IntervalAssumption == Interval \in Nat \ {0}

VARIABLES
    caller,     \* who drives the tracer: the loop of trace_checkpoints or another client
    left,       \* calls of next() left in the current dropping(checkpoint_interval)
    returned    \* the vector has been returned

driverVars == <<caller, left, returned>>
callers == {"trace_checkpoints", "other"}
allVars == <<vars, driverVars>>

DriverInit ==
    /\ Init
    /\ caller \in callers
    /\ left = Interval
    /\ returned = FALSE

\* One call of next() inside dropping.
DropCycle == left > 0 /\ NextCycle /\ left' = left - 1 /\ UNCHANGED returned

\* next() returned None: dropping gives up.
DropFinish == left > 0 /\ Finish /\ left' = 0 /\ UNCHANGED returned

\* A mutant: the loop leaves without saving the last chunk.
BreakBeforeSave ==
    /\ left = 0
    /\ ~returned
    /\ returned' = finished
    /\ left' = IF finished THEN 0 ELSE Interval
    /\ IF finished THEN UNCHANGED vars ELSE SaveCheckpoint

\* A mutant: the next dropping is one cycle short.
SaveAndDropOneLess ==
    /\ left = 0
    /\ ~returned
    /\ SaveCheckpoint
    /\ returned' = finished
    /\ left' = IF finished THEN 0 ELSE Interval - 1

\* A mutant: the loop has no exit.
SaveAndLoop ==
    /\ left = 0
    /\ ~returned
    /\ SaveCheckpoint
    /\ left' = IF finished THEN 0 ELSE Interval
    /\ UNCHANGED returned

\* The end of the loop body: save, push, and leave if the program is over.
SaveChunk ==
    /\ left = 0
    /\ ~returned
    /\ SaveCheckpoint
    /\ returned' = finished
    /\ left' = IF finished THEN 0 ELSE Interval

Drive ==
    /\ caller = "trace_checkpoints"
    /\ DropCycle \/ DropFinish \/ SaveChunk
    /\ UNCHANGED caller

\* A caller replays checkpoint k of the returned vector.
ReplayReturned(k) == returned /\ Replay(k) /\ UNCHANGED driverVars

\* Any other client uses the operations of the tracer in any order.
OtherCaller == caller = "other" /\ Next /\ UNCHANGED driverVars

DriverNext == Drive \/ OtherCaller \/ \E k \in DOMAIN checkpoints : ReplayReturned(k)

\* The loop is straight-line host code, so it keeps running; each owner of a
\* checkpoint collects its iterator.
Fairness ==
    /\ WF_allVars(Drive)
    /\ \A k \in 1 .. MaxCheckpoints : WF_allVars(k \in DOMAIN checkpoints /\ ReplayReturned(k))

DriverSpec == DriverInit /\ [][DriverNext]_allVars /\ Fairness

----------------------------------------------------------------------------

\* Checkpoint k + 1 begins at cycle k * Interval of the trace, as the example
\* in the documentation of trace relies on, and only the last one is shorter.
\* It is empty when the interval divides the length of the trace: the vector
\* then has one checkpoint more than the quotient.
ChunksAreIntervals ==
    caller = "trace_checkpoints" =>
        /\ \A k \in DOMAIN h_chunks :
              /\ h_chunks[k].from = (k - 1) * Interval
              /\ k < Len(h_chunks) => h_chunks[k].to = k * Interval
        /\ returned => Len(checkpoints) = Len(h_out) \div Interval + 1

\* When every owner is done, the replays laid end to end are the trace: what
\* is replayed in parallel is exactly what was executed once.
ReplaysRebuildTrace ==
    (returned /\ h_stopped = DOMAIN checkpoints) => FlattenSeq(h_replayed) = h_out

\* On a program that terminates, trace_checkpoints returns and every replay
\* comes to its end.
EveryReplayEnds ==
    caller = "trace_checkpoints" => <>(returned /\ h_stopped = DOMAIN checkpoints)

=============================================================================
