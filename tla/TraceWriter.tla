----------------------------- MODULE TraceWriter -----------------------------
(***************************************************************************)
(* trace_to_file and tracer/src/utils/trace_writer.rs: the tracing thread  *)
(* collects cycles into batches and sends each full batch over a bounded   *)
(* channel to a writer thread, which serialises them into a buffered file. *)
(*                                                                         *)
(* A batch is serialised as its length followed by its items (postcard's   *)
(* encoding of a Vec); the file is a sequence of such tokens, and both the *)
(* buffer and a failing write may split it anywhere.                       *)
(***************************************************************************)
EXTENDS Naturals, Sequences, SequencesExt

CONSTANTS
    Item,           \* cycles
    BatchSize,      \* config.batch_size
    ChannelDepth,   \* config.channel_depth
    MaxItems        \* bound: cycles of the trace

ASSUME WriterAssumption ==
    /\ BatchSize \in Nat \ {0}
    /\ ChannelDepth \in Nat \ {0}
    /\ MaxItems \in Nat

VARIABLES
    phase,          \* where the tracing thread is
    current_batch,
    total_items,
    sending,        \* the batch the tracing thread is trying to send
    sender,         \* TRUE until the sending half of the channel is dropped
    channel,        \* batches in the channel
    writer,         \* where the writer thread is
    buf,            \* tokens in the BufWriter
    file,           \* tokens in the file
    result,         \* what finalize returned
    pushed          \* history: the cycles of the trace

collector == <<current_batch, total_items, pushed>>
disk == <<buf, file>>
vars == <<phase, collector, sending, sender, channel, writer, disk, result>>

None == [tag |-> "none", items |-> 0]
Err == [tag |-> "err", items |-> 0]
Ok(n) == [tag |-> "ok", items |-> n]

\* What the two threads together are to amount to.
File == INSTANCE TraceFile WITH trace <- pushed, log <- file, outcome <- result.tag

\* The receiving half lives as long as the writer thread's closure.
ReceiverAlive == writer \in {"create", "recv"}

----------------------------------------------------------------------------
(* The tracing thread: TraceBatchCollector. *)

\* push: when the batch is full, flush_batch takes it.
Push(x) ==
    /\ phase = "trace"
    /\ Len(pushed) < MaxItems
    /\ pushed' = Append(pushed, x)
    /\ total_items' = total_items + 1
    /\ LET batch == Append(current_batch, x)
       IN  IF Len(batch) >= BatchSize
           THEN phase' = "send" /\ sending' = batch /\ current_batch' = <<>>
           ELSE phase' = phase /\ UNCHANGED sending /\ current_batch' = batch
    /\ UNCHANGED <<sender, channel, writer, disk, result>>

\* What follows send_batch, whatever it returned: the next cycle, or, inside
\* finalize, the sender is dropped and the writer thread joined.
AfterSend ==
    /\ sending' = <<>>
    /\ phase' = (IF phase = "send" THEN "trace" ELSE "join")
    /\ sender' = (phase = "send")

\* A mutant: the channel has no bound.
SendBatchUnbounded ==
    /\ phase \in {"send", "last"}
    /\ ReceiverAlive
    /\ channel' = Append(channel, sending)
    /\ AfterSend
    /\ UNCHANGED <<collector, writer, disk, result>>

\* sender.send blocks while the channel is full.
SendBatch ==
    /\ phase \in {"send", "last"}
    /\ ReceiverAlive
    /\ Len(channel) < ChannelDepth
    /\ channel' = Append(channel, sending)
    /\ AfterSend
    /\ UNCHANGED <<collector, writer, disk, result>>

\* The writer thread is gone: send fails, the batch is dropped with a message
\* on stderr and tracing goes on.
SendBatchFails ==
    /\ phase \in {"send", "last"}
    /\ ~ReceiverAlive
    /\ AfterSend
    /\ UNCHANGED <<collector, channel, writer, disk, result>>

\* A mutant: the writer thread is joined with the sender still open.
FinalizeKeepingSender ==
    /\ phase = "trace"
    /\ IF current_batch # <<>>
       THEN phase' = "last" /\ sending' = current_batch
       ELSE phase' = "join" /\ UNCHANGED sending
    /\ UNCHANGED <<sender, current_batch, total_items, pushed, channel, writer, disk, result>>

\* The trace has ended: flush the partial batch; with none, drop the sender.
Finalize ==
    /\ phase = "trace"
    /\ IF current_batch # <<>>
       THEN phase' = "last" /\ sending' = current_batch /\ UNCHANGED sender
       ELSE phase' = "join" /\ UNCHANGED sending /\ sender' = FALSE
    /\ current_batch' = <<>>
    /\ UNCHANGED <<total_items, pushed, channel, writer, disk, result>>

\* A mutant: the result does not wait for the writer.
JoinLater ==
    /\ phase = "join"
    /\ phase' = "done"
    /\ result' = IF writer = "err" THEN Err ELSE Ok(total_items)
    /\ UNCHANGED <<collector, sending, sender, channel, writer, disk>>

\* handle.join(): the writer's own result decides.
Join ==
    /\ phase = "join"
    /\ writer \in {"ok", "err"}
    /\ phase' = "done"
    /\ result' = IF writer = "ok" THEN Ok(total_items) ELSE Err
    /\ UNCHANGED <<collector, sending, sender, channel, writer, disk>>

\* The emulator panics on the next cycle: unwinding drops the collector, its
\* partial batch and the sender, and detaches the writer thread.
Abandon ==
    /\ phase = "trace"
    /\ phase' = "unwound"
    /\ sender' = FALSE
    /\ current_batch' = <<>>
    /\ UNCHANGED <<total_items, pushed, sending, channel, writer, disk, result>>

\* The process ends while the detached writer is still at work.
Exit ==
    /\ phase = "unwound"
    /\ ReceiverAlive
    /\ writer' = "killed"
    /\ channel' = <<>>
    /\ buf' = <<>>
    /\ UNCHANGED <<phase, collector, sending, sender, file, result>>

----------------------------------------------------------------------------
(* The writer thread: the closure of spawn_writer_thread. *)

\* File::create, which may fail and end the thread.
Create ==
    /\ writer = "create"
    /\ \/ writer' = "recv" /\ UNCHANGED channel
       \/ writer' = "err" /\ channel' = <<>>
    /\ UNCHANGED <<phase, collector, sending, sender, disk, result>>

\* The BufWriter hands some prefix of what it holds to the file.
Spill(tokens, n) ==
    /\ file' = file \o SubSeq(tokens, 1, n)
    /\ buf' = SubSeq(tokens, n + 1, Len(tokens))

\* receiver.recv() returned a batch and all of it went into the BufWriter.
WriteBatch ==
    /\ writer = "recv"
    /\ channel # <<>>
    /\ LET tokens == buf \o File!Encode(Head(channel))
       IN  \E n \in 0 .. Len(tokens) : Spill(tokens, n)
    /\ channel' = Tail(channel)
    /\ UNCHANGED <<phase, collector, sending, sender, writer, result>>

\* A mutant: a failed batch is skipped and the thread goes on.
SkipFailedBatch ==
    /\ writer = "recv"
    /\ channel # <<>>
    /\ channel' = Tail(channel)
    /\ UNCHANGED <<phase, collector, sending, sender, writer, disk, result>>

\* A write failed part way: the thread returns the error, which drops the
\* receiver with every batch still in the channel; dropping the BufWriter
\* tries once more to write what it holds.
WriteBatchFails ==
    /\ writer = "recv"
    /\ channel # <<>>
    /\ LET tokens == buf \o File!Encode(Head(channel))
       IN  \E n \in 0 .. Len(tokens) : file' = file \o SubSeq(tokens, 1, n)
    /\ buf' = <<>>
    /\ channel' = <<>>
    /\ writer' = "err"
    /\ UNCHANGED <<phase, collector, sending, sender, result>>

\* A mutant: the thread ends without flushing its buffer.
FinishWithoutFlush ==
    /\ writer = "recv"
    /\ channel = <<>>
    /\ ~sender
    /\ writer' = "ok"
    /\ buf' = <<>>
    /\ UNCHANGED <<phase, collector, sending, sender, channel, file, result>>

\* recv() fails once the channel is empty and the sender dropped: flush.
FlushAndFinish ==
    /\ writer = "recv"
    /\ channel = <<>>
    /\ ~sender
    /\ \/ writer' = "ok" /\ file' = file \o buf
       \/ /\ writer' = "err"
          /\ \E n \in 0 .. Len(buf) : file' = file \o SubSeq(buf, 1, n)
    /\ buf' = <<>>
    /\ UNCHANGED <<phase, collector, sending, sender, channel, result>>

----------------------------------------------------------------------------

Init ==
    /\ phase = "trace"
    /\ current_batch = <<>>
    /\ total_items = 0
    /\ sending = <<>>
    /\ sender = TRUE
    /\ channel = <<>>
    /\ writer = "create"
    /\ buf = <<>>
    /\ file = <<>>
    /\ result = None
    /\ pushed = <<>>

Collector ==
    \/ \E x \in Item : Push(x)
    \/ SendBatch \/ SendBatchFails \/ Finalize \/ Join
Writer == Create \/ WriteBatch \/ WriteBatchFails \/ FlushAndFinish
Next == Collector \/ Writer \/ Abandon \/ Exit

\* Both threads keep running; a trace is finite, so pushing ends (MaxItems).
Fairness == WF_vars(Collector) /\ WF_vars(Writer)

Spec == Init /\ [][Next]_vars /\ Fairness

----------------------------------------------------------------------------

Token == Item \cup Nat

\* The state of both threads, the channel and the file is well formed.
TypeOK ==
    /\ phase \in {"trace", "send", "last", "join", "done", "unwound"}
    /\ current_batch \in Seq(Item)
    /\ total_items = Len(pushed)
    /\ sending \in Seq(Item)
    /\ sender \in BOOLEAN
    /\ channel \in Seq(Seq(Item))
    /\ writer \in {"create", "recv", "ok", "err", "killed"}
    /\ buf \in Seq(Token)
    /\ file \in Seq(Token)
    /\ result \in {None, Err} \cup {Ok(n) : n \in 0 .. Len(pushed)}
    /\ pushed \in Seq(Item)

\* What a reader of the file expects.
Encoded == File!Encoding(pushed)

\* finalize returns Ok only if every cycle pushed is in the file, although a
\* batch that cannot be sent is only reported on stderr (flush_batch) and the
\* writer may have died at any moment before.
OkMeansComplete ==
    result.tag = "ok" => (result.items = Len(pushed) /\ file = Encoded)

\* Whatever fails, and even if the process dies with the writer at work, the
\* file has no gap: it is the beginning of the encoded trace.
FileHasNoGap == IsPrefix(file, Encoded)

\* The two threads implement the file: every step of theirs is a step of it or
\* none, and what they have written is never what a longer trace would belie.
WritesTraceFile == File!Spec

\* Cycles that the writer thread has not taken over.
Backlog == FlattenSeq(channel) \o sending \o current_batch

\* While the writer is alive, nothing of the trace is missing between the file, its
\* buffer and the backlog, and however slow the writer is, the backlog is at most
\* a full channel and the batch that waits to get in (channel_depth).
BoundedBacklog ==
    (ReceiverAlive /\ phase # "unwound") =>
        /\ Len(Backlog) <= (ChannelDepth + 1) * BatchSize
        /\ file \o buf \o File!Encoding(Backlog) = Encoded

\* The tracing thread never waits for a writer that waits for it: once the
\* trace has ended, finalize returns.
FinalizeReturns == (phase \in {"last", "join"}) ~> (phase = "done")

=============================================================================
