-------------------------- MODULE TraceWriter_proofs --------------------------
(***************************************************************************)
(* For every batch size, channel depth and trace: the two threads write    *)
(* the beginning of the encoded trace and nothing else, whatever fails and *)
(* whenever, Ok means all of it, and no more waits than fits the channel.  *)
(***************************************************************************)
EXTENDS TraceWriter, SequenceFacts

----------------------------------------------------------------------------
(* Arithmetic of batches. *)

\* A whole number of batches before n cycles adds as many to their batches.
LEMMA DivUnique ==
    ASSUME NEW b \in Nat \ {0}, NEW n \in Nat, NEW d \in Nat, b * d <= n, n < b * d + b
    PROVE  n \div b = d
OBVIOUS

\* The quotient and what it leaves.
LEMMA DivFacts ==
    ASSUME NEW b \in Nat \ {0}, NEW n \in Nat
    PROVE  n \div b \in Nat /\ b * (n \div b) <= n /\ n < b * (n \div b) + b
OBVIOUS

\* Multiples are ordered as their factors are.
LEMMA MultipleMonotonic ==
    ASSUME NEW b \in Nat, NEW i \in Nat, NEW j \in Nat, i <= j
    PROVE  b * i <= b * j /\ b * i \in Nat /\ b * j \in Nat
OBVIOUS

----------------------------------------------------------------------------
(* The encoding of a trace. *)

\* How many batches a trace is cut into, where a batch ends, and the batch.
Count(s) == (Len(s) + BatchSize - 1) \div BatchSize
End(s, i) == IF i * BatchSize < Len(s) THEN i * BatchSize ELSE Len(s)
Piece(s, i) == SubSeq(s, (i - 1) * BatchSize + 1, End(s, i))
Pieces(s) == [i \in 1 .. Count(s) |-> File!Encode(Piece(s, i))]

\* The encoding is that of the batches, one after the other.
LEMMA EncodingIsPieces == \A s : File!Encoding(s) = FlattenSeq(Pieces(s))
<1>1. \A ss : File!FlattenSeq(ss) = FlattenSeq(ss)
  BY DEF File!FlattenSeq, FlattenSeq
<1>2. \A s : File!Encoding(s) = File!FlattenSeq(Pieces(s))
  BY DEF File!Encoding, Pieces, Piece, End, Count
<1> QED
  BY <1>1, <1>2

\* A batch starts within the trace and ends there.
LEMMA PieceBounds ==
    ASSUME NEW s \in Seq(Item), NEW i \in 1 .. Count(s)
    PROVE  /\ (i - 1) * BatchSize + 1 \in 1 .. Len(s)
           /\ End(s, i) \in 1 .. Len(s)
           /\ Piece(s, i) \in Seq(Item)
<1> DEFINE b == BatchSize
           c == Count(s)
<1>1. b \in Nat \ {0} /\ Len(s) \in Nat /\ Len(s) + b - 1 \in Nat
  BY WriterAssumption
<1>2. c \in Nat /\ b * c <= Len(s) + b - 1
  BY <1>1, DivFacts DEF Count
<1> HIDE DEF b, c
<1>3. i \in 1 .. c /\ i \in Nat /\ i - 1 \in Nat
  BY <1>2 DEF c
<1>4. b * i <= b * c /\ b * i \in Nat
  BY <1>1, <1>2, <1>3, MultipleMonotonic
<1>5. (i - 1) * b = b * i - b /\ i * b = b * i /\ b * i >= b
  BY <1>1, <1>3
<1>6. (i - 1) * b + 1 \in 1 .. Len(s)
  BY <1>1, <1>2, <1>3, <1>4, <1>5
<1>7. End(s, i) \in 1 .. Len(s)
  BY <1>1, <1>3, <1>4, <1>5, <1>6 DEF End, b
<1>8. Piece(s, i) \in Seq(Item)
  BY <1>6, <1>7 DEF Piece, b
<1> QED
  BY <1>6, <1>7, <1>8 DEF b

\* A batch is encoded as a sequence of tokens.
LEMMA EncodeType ==
    ASSUME NEW x \in Seq(Item)
    PROVE  File!Encode(x) \in Seq(Token)
<1>1. Len(x) \in Token /\ x \in Seq(Token)
  BY SeqMonotonic DEF Token
<1>2. <<Len(x)>> \in Seq(Token)
  BY <1>1
<1> QED
  BY <1>1, <1>2, ConcatProperties DEF File!Encode

\* So is every batch of a trace.
LEMMA PiecesType ==
    ASSUME NEW s \in Seq(Item)
    PROVE  /\ Count(s) \in Nat
           /\ Pieces(s) \in Seq(Seq(Token))
           /\ Len(Pieces(s)) = Count(s)
<1>1. Count(s) \in Nat
  <2>1. BatchSize \in Nat \ {0} /\ Len(s) + BatchSize - 1 \in Nat
    BY WriterAssumption
  <2> QED
    BY <2>1, DivFacts DEF Count
<1>2. \A i \in 1 .. Count(s) : File!Encode(Piece(s, i)) \in Seq(Token)
  BY PieceBounds, EncodeType
<1>3. Pieces(s) \in [1 .. Count(s) -> Seq(Token)]
  BY <1>2 DEF Pieces
<1> QED
  BY <1>1, <1>3

\* And so is the trace.
LEMMA EncodingType ==
    ASSUME NEW s \in Seq(Item)
    PROVE  File!Encoding(s) \in Seq(Token)
BY PiecesType, FlattenType, EncodingIsPieces

\* The batches of a trace that goes on after a whole number of them.
LEMMA PiecesConcat ==
    ASSUME NEW p \in Seq(Item), NEW q \in Seq(Item), NEW m \in Nat, Len(p) = BatchSize * m
    PROVE  Pieces(p \o q) = Pieces(p) \o Pieces(q)
<1> DEFINE b == BatchSize
           s == p \o q
<1>1. b \in Nat \ {0} /\ Len(p) \in Nat /\ Len(q) \in Nat /\ s \in Seq(Item) /\ Len(s) = Len(p) + Len(q)
  <2>1. s \in Seq(Item) /\ Len(s) = Len(p) + Len(q)
    BY ConcatProperties
  <2> QED
    BY <2>1, WriterAssumption
<1>2. Count(p) = m
  <2>1. Len(p) + b - 1 \in Nat /\ b * m <= Len(p) + b - 1 /\ Len(p) + b - 1 < b * m + b
    BY <1>1
  <2> QED
    BY <1>1, <2>1, DivUnique DEF Count
<1>3. Count(s) = m + Count(q)
  <2> DEFINE c == Count(q)
             n == Len(q) + b - 1
             k == Len(s) + b - 1
  <2>1. n \in Nat /\ k \in Nat /\ k = b * m + n /\ b * m \in Nat
    BY <1>1
  <2>2. c \in Nat /\ b * c <= n /\ n < b * c + b
    BY <1>1, <2>1, DivFacts DEF Count
  <2> HIDE DEF c
  <2>3. b * (m + c) = b * m + b * c /\ b * c \in Nat
    BY <1>1, <2>2
  <2>4. b * (m + c) <= k /\ k < b * (m + c) + b /\ m + c \in Nat
    BY <1>1, <2>1, <2>2, <2>3
  <2>5. k \div b = m + c
    <3> HIDE DEF k
    <3> QED BY <1>1, <2>1, <2>4, DivUnique
  <2> QED
    BY <2>5 DEF Count, c
<1>4. /\ Count(q) \in Nat /\ Pieces(p) \in Seq(Seq(Token)) /\ Len(Pieces(p)) = m
      /\ Pieces(q) \in Seq(Seq(Token)) /\ Len(Pieces(q)) = Count(q)
      /\ Pieces(s) \in Seq(Seq(Token)) /\ Len(Pieces(s)) = m + Count(q)
  BY <1>1, <1>2, <1>3, PiecesType
<1>5. ASSUME NEW i \in 1 .. m PROVE Piece(s, i) = Piece(p, i)
  <2>1. i \in 1 .. Count(p) /\ i \in 1 .. Count(s)
    BY <1>2, <1>3, <1>4
  <2>2. (i - 1) * b + 1 \in 1 .. Len(p) /\ End(p, i) \in 1 .. Len(p)
    BY <2>1, PieceBounds
  <2>3. b * i <= b * m /\ b * i = i * b
    BY <1>1, MultipleMonotonic
  <2>4. End(p, i) = i * b /\ End(s, i) = i * b
    BY <1>1, <2>3 DEF End
  <2>5. SubSeq(s, (i - 1) * b + 1, i * b) = SubSeq(p, (i - 1) * b + 1, i * b)
    <3> DEFINE from == (i - 1) * b + 1
               to == i * b
    <3>1. from \in 1 .. Len(p) /\ to \in 1 .. Len(p)
      BY <2>2, <2>4
    <3> HIDE DEF from, to
    <3>2. SubSeq(p \o q, from, to) = SubSeq(p, from, to)
      BY <3>1, SubSeqOfConcat1, Zenon
    <3> QED
      BY <3>2 DEF from, to
  <2> QED
    BY <2>4, <2>5 DEF Piece
<1>6. ASSUME NEW i \in 1 .. Count(q) PROVE Piece(s, m + i) = Piece(q, i)
  <2> DEFINE from == (i - 1) * b + 1
             to == End(q, i)
  <2>1. from \in 1 .. Len(q) /\ to \in 1 .. Len(q)
    BY PieceBounds
  <2>2. ((m + i) - 1) * b + 1 = Len(p) + from
    BY <1>1
  <2>3. End(s, m + i) = Len(p) + to
    <3>1. (m + i) * b = Len(p) + i * b /\ i * b \in Nat
      BY <1>1
    <3>2. CASE i * b < Len(q)
      BY <1>1, <3>1, <3>2 DEF End
    <3>3. CASE ~(i * b < Len(q))
      BY <1>1, <3>1, <3>3 DEF End
    <3> QED
      BY <3>2, <3>3
  <2> HIDE DEF from, to
  <2>4. /\ Len(p) + from \in Len(p) + 1 .. Len(p) + Len(q)
        /\ Len(p) + to \in Len(p) + 1 .. Len(p) + Len(q)
        /\ (Len(p) + from) - Len(p) = from /\ (Len(p) + to) - Len(p) = to
    BY <1>1, <2>1
  <2>5. SubSeq(p \o q, Len(p) + from, Len(p) + to) = SubSeq(q, from, to)
    <3> DEFINE x == Len(p) + from
               y == Len(p) + to
    <3>1. x \in Len(p) + 1 .. Len(p) + Len(q) /\ y \in Len(p) + 1 .. Len(p) + Len(q)
          /\ x - Len(p) = from /\ y - Len(p) = to
      BY <2>4
    <3> HIDE DEF x, y
    <3>2. SubSeq(p \o q, x, y) = SubSeq(q, x - Len(p), y - Len(p))
      BY <3>1, SubSeqOfConcat2, Zenon
    <3> QED
      BY <3>1, <3>2 DEF x, y
  <2> QED
    BY <2>2, <2>3, <2>5 DEF Piece, from, to
<1> HIDE DEF s
<1>7. ASSUME NEW i \in 1 .. m + Count(q) PROVE Pieces(s)[i] = (Pieces(p) \o Pieces(q))[i]
  <2>1. CASE i \in 1 .. m
    <3>1. Pieces(s)[i] = Pieces(p)[i]
      BY <1>2, <1>3, <1>4, <1>5, <2>1 DEF Pieces
    <3> QED
      BY <1>4, <2>1, <3>1
  <2>2. CASE i \in m + 1 .. m + Count(q)
    <3> DEFINE j == i - m
    <3>1. j \in 1 .. Count(q) /\ i = m + j
      BY <1>4, <2>2
    <3>2. Pieces(s)[i] = Pieces(q)[j]
      BY <1>3, <1>6, <3>1 DEF Pieces
    <3> HIDE DEF j
    <3>3. (Pieces(p) \o Pieces(q))[Len(Pieces(p)) + j] = Pieces(q)[j]
      <4>1. j \in 1 .. Len(Pieces(q))
        BY <1>4, <3>1
      <4> QED
        BY <1>4, <4>1, ConcatAt, ZenonT(40)
    <3> QED
      BY <1>4, <3>1, <3>2, <3>3
  <2> QED
    BY <1>4, <2>1, <2>2
<1>8. Pieces(p) \o Pieces(q) \in Seq(Seq(Token)) /\ Len(Pieces(p) \o Pieces(q)) = m + Count(q)
  BY <1>4, ConcatProperties
<1> QED
  BY <1>4, <1>7, <1>8, SeqEqual DEF s

\* After a whole number of batches the encoding starts afresh.
LEMMA EncodingConcat ==
    ASSUME NEW p \in Seq(Item), NEW q \in Seq(Item), NEW m \in Nat, Len(p) = BatchSize * m
    PROVE  File!Encoding(p \o q) = File!Encoding(p) \o File!Encoding(q)
<1>1. Pieces(p \o q) = Pieces(p) \o Pieces(q)
  BY PiecesConcat
<1>2. Pieces(p) \in Seq(Seq(Token)) /\ Pieces(q) \in Seq(Seq(Token))
  BY PiecesType
<1> QED
  BY <1>1, <1>2, FlattenConcat, EncodingIsPieces

\* The encoding of nothing, and of one batch.
LEMMA EncodingOne ==
    /\ File!Encoding(<<>>) = <<>>
    /\ \A x \in Seq(Item) : Len(x) \in 1 .. BatchSize => File!Encoding(x) = File!Encode(x)
<1>1. File!Encoding(<<>>) = <<>>
  <2>1. BatchSize \in Nat \ {0} /\ BatchSize - 1 \in Nat
    BY WriterAssumption
  <2>2. (BatchSize - 1) \div BatchSize = 0
    BY <2>1, DivUnique
  <2>3. Count(<<>>) = 0
    BY <2>1, <2>2 DEF Count
  <2>4. <<>> \in Seq(Item)
    OBVIOUS
  <2>5. Pieces(<<>>) = <<>>
    <3>1. Pieces(<<>>) \in Seq(Seq(Token)) /\ Len(Pieces(<<>>)) = 0
      BY <2>3, <2>4, PiecesType
    <3> QED
      BY <3>1, EmptySeq
  <2>6. FlattenSeq(<<>>) = <<>>
    BY FlattenEmpty
  <2> QED
    BY <2>5, <2>6, EncodingIsPieces
<1>2. ASSUME NEW x \in Seq(Item), Len(x) \in 1 .. BatchSize
      PROVE  File!Encoding(x) = File!Encode(x)
  <2>1. BatchSize \in Nat \ {0} /\ Len(x) + BatchSize - 1 \in Nat
    BY WriterAssumption
  <2>2. Count(x) = 1
    BY <1>2, <2>1, DivUnique DEF Count
  <2>3. Piece(x, 1) = x
    <3>1. (1 - 1) * BatchSize + 1 = 1 /\ End(x, 1) = Len(x)
      BY <1>2, <2>1 DEF End
    <3> QED
      BY <3>1, SubSeqFull DEF Piece
  <2>4. Pieces(x) = <<File!Encode(x)>>
    <3>1. Pieces(x) = [i \in 1 .. 1 |-> File!Encode(Piece(x, i))]
      BY <2>2 DEF Pieces
    <3>2. File!Encode(Piece(x, 1)) = File!Encode(x)
      BY <2>3
    <3>3. \A i \in 1 .. 1 : i = 1
      OBVIOUS
    <3> HIDE DEF File!Encode
    <3> QED
      BY <3>1, <3>2, <3>3
  <2>5. File!Encode(x) \in Seq(Token)
    BY EncodeType
  <2> QED
    BY <2>4, <2>5, FlattenOne, EncodingIsPieces
<1> QED
  BY <1>1, <1>2

----------------------------------------------------------------------------
(* What waits in the channel and with the tracing thread. *)

Waits(ch, sd, cb) == FlattenSeq(ch) \o sd \o cb

\* A cycle after two sequences is one after the second.
LEMMA ItemAppend == \A a, b \in Seq(Item) : \A x \in Item : Append(a \o b, x) = a \o Append(b, x)
<1> SUFFICES ASSUME NEW a \in Seq(Item), NEW b \in Seq(Item), NEW x \in Item
             PROVE  Append(a \o b, x) = a \o Append(b, x)
  BY Zenon
<1>1. /\ a \o b \in Seq(Item) /\ Append(a \o b, x) = (a \o b) \o <<x>>
      /\ Append(b, x) = b \o <<x>> /\ <<x>> \in Seq(Item)
  BY ConcatProperties, AppendIsConcat
<1> QED
  BY <1>1, ConcatAssociative

\* Sequences of cycles are closed under it.
LEMMA ItemConcat ==
    \A a, b, c \in Seq(Item) : a \o b \in Seq(Item) /\ (a \o b) \o c = a \o (b \o c)
BY ConcatAssociative, ConcatProperties, SMTT(30)

\* Where a batch of cycles goes over from what waits to what is written.
LEMMA ItemRegroup ==
    ASSUME NEW a \in Seq(Item), NEW b \in Seq(Item), NEW c \in Seq(Item)
    PROVE  (a \o b) \o c = a \o (b \o c) /\ b \o c \in Seq(Item)
BY ItemConcat, SMTT(30)

\* And so are the tokens of a file.
LEMMA TokenConcat ==
    \A a, b, c \in Seq(Token) : a \o b \in Seq(Token) /\ (a \o b) \o c = a \o (b \o c)
BY ConcatAssociative, ConcatProperties, SMTT(30)

\* What waits are cycles.
LEMMA WaitsType ==
    ASSUME NEW ch \in Seq(Seq(Item)), NEW sd \in Seq(Item), NEW cb \in Seq(Item)
    PROVE  Waits(ch, sd, cb) \in Seq(Item)
BY FlattenType, ConcatProperties DEF Waits

\* A batch that is cut off, or sent, waits in the same place.
LEMMA WaitsMoves ==
    ASSUME NEW ch \in Seq(Seq(Item)), NEW x \in Seq(Item)
    PROVE  /\ Waits(ch, <<>>, x) = Waits(ch, x, <<>>)
           /\ Waits(Append(ch, x), <<>>, <<>>) = Waits(ch, x, <<>>)
           /\ Waits(ch, <<>>, x) = Waits(ch, <<>>, <<>>) \o x
<1> DEFINE f == FlattenSeq(ch)
<1>1. f \in Seq(Item) /\ f \o x \in Seq(Item)
  BY FlattenType, ConcatProperties
<1>2. FlattenSeq(Append(ch, x)) = f \o x
  BY FlattenAppend
<1> HIDE DEF f
<1>3. f \o <<>> = f /\ (f \o x) \o <<>> = f \o x
  BY <1>1, ConcatEmptySeq
<1> QED
  BY <1>2, <1>3 DEF Waits, f

\* One more cycle.
LEMMA WaitsAppend ==
    ASSUME NEW ch \in Seq(Seq(Item)), NEW cb \in Seq(Item), NEW x \in Item
    PROVE  Waits(ch, <<>>, Append(cb, x)) = Append(Waits(ch, <<>>, cb), x)
<1>1. Waits(ch, <<>>, <<>>) \in Seq(Item) /\ Append(cb, x) \in Seq(Item)
  BY WaitsType, EmptySeq, AppendProperties
<1>2. Append(Waits(ch, <<>>, <<>>) \o cb, x) = Waits(ch, <<>>, <<>>) \o Append(cb, x)
  <2> DEFINE w == Waits(ch, <<>>, <<>>)
  <2>1. w \in Seq(Item)
    BY <1>1
  <2> HIDE DEF w
  <2>2. Append(w \o cb, x) = w \o Append(cb, x)
    BY <2>1, ItemAppend, Zenon
  <2> QED
    BY <2>2 DEF w
<1>3. /\ Waits(ch, <<>>, cb) = Waits(ch, <<>>, <<>>) \o cb
      /\ Waits(ch, <<>>, Append(cb, x)) = Waits(ch, <<>>, <<>>) \o Append(cb, x)
  BY <1>1, WaitsMoves
<1> QED
  BY <1>2, <1>3

\* The writer takes the first batch.
LEMMA WaitsHead ==
    ASSUME NEW ch \in Seq(Seq(Item)), ch # <<>>, NEW sd \in Seq(Item), NEW cb \in Seq(Item)
    PROVE  Waits(ch, sd, cb) = Head(ch) \o Waits(Tail(ch), sd, cb)
<1> DEFINE h == Head(ch)
           t == Tail(ch)
           f == FlattenSeq(t)
<1>1. h \in Seq(Item) /\ t \in Seq(Seq(Item)) /\ ch = <<h>> \o t /\ <<h>> \in Seq(Seq(Item))
  BY HeadAndTail
<1> HIDE DEF h, t
<1>2. FlattenSeq(ch) = h \o f /\ f \in Seq(Item)
  <2>1. FlattenSeq(<<h>> \o t) = FlattenSeq(<<h>>) \o FlattenSeq(t)
    BY <1>1, FlattenConcat
  <2>2. FlattenSeq(<<h>>) = h /\ f \in Seq(Item)
    BY <1>1, FlattenOne, FlattenType
  <2> QED
    BY <1>1, <2>1, <2>2
<1> HIDE DEF f
<1>3. (h \o f) \o sd = h \o (f \o sd) /\ f \o sd \in Seq(Item)
  BY <1>1, <1>2, ConcatAssociative, ConcatProperties, SMTT(30)
<1>4. (h \o (f \o sd)) \o cb = h \o ((f \o sd) \o cb)
  <2> DEFINE g == f \o sd
  <2>1. g \in Seq(Item)
    BY <1>3
  <2> HIDE DEF g
  <2>2. (h \o g) \o cb = h \o (g \o cb)
    BY <1>1, <2>1, ConcatAssociative, SMTT(30)
  <2> QED
    BY <2>2 DEF g
<1> QED
  BY <1>2, <1>3, <1>4 DEF Waits, h, t, f

----------------------------------------------------------------------------
(* The inductive invariant. *)

\* Where the two threads can be at the same time.
Control ==
    /\ sender <=> phase \in {"trace", "send", "last"}
    /\ phase = "trace" => sending = <<>> /\ Len(current_batch) < BatchSize
    /\ phase = "send" => Len(sending) = BatchSize /\ current_batch = <<>>
    /\ phase = "last" => Len(sending) \in 1 .. BatchSize /\ current_batch = <<>>
    /\ phase \in {"join", "done", "unwound"} => sending = <<>> /\ current_batch = <<>>
    /\ phase = "done" => writer \in {"ok", "err"}
    /\ phase # "done" => result = None
    /\ writer = "killed" => phase = "unwound"
    /\ writer = "ok" => ~sender
    /\ result.tag = "ok" => writer = "ok" /\ result.items = Len(pushed)

\* Only the last batch of all may be short; without a receiver there is none.
Batches ==
    /\ ~ReceiverAlive => channel = <<>>
    /\ Len(channel) <= ChannelDepth
    /\ \A i \in 1 .. Len(channel) :
          /\ Len(channel[i]) \in 1 .. BatchSize
          /\ phase # "join" \/ i # Len(channel) => Len(channel[i]) = BatchSize

Whole(s) == \E m \in Nat : Len(s) = BatchSize * m

\* s is what the writer thread has taken over, rest what it has not.
Settled(s, rest) ==
    /\ pushed = s \o rest
    /\ ReceiverAlive =>
          /\ file \o buf = File!Encoding(s)
          /\ channel # <<>> => Whole(s)
          /\ phase # "unwound" => rest = Backlog
          /\ phase = "unwound" => \E lost \in Seq(Item) : rest = Backlog \o lost
    /\ Whole(s) \/ (rest = <<>> /\ phase \in {"join", "done"})
    /\ IsPrefix(file, File!Encoding(s))
    /\ writer = "ok" /\ phase # "unwound" => rest = <<>> /\ file = File!Encoding(s)

WriterInv ==
    /\ TypeOK
    /\ Control
    /\ Batches
    /\ \E s, rest \in Seq(Item) : Settled(s, rest)

----------------------------------------------------------------------------
(* The actions keep the invariant. *)

\* What a batch adds to the encoding of whole batches.
LEMMA EncodingAdds ==
    ASSUME NEW s \in Seq(Item), Whole(s), NEW x \in Seq(Item), Len(x) \in 1 .. BatchSize
    PROVE  File!Encoding(s \o x) = File!Encoding(s) \o File!Encode(x)
<1>1. File!Encoding(x) = File!Encode(x)
  BY EncodingOne
<1>2. File!Encoding(s \o x) = File!Encoding(s) \o File!Encoding(x)
  BY EncodingConcat DEF Whole
<1> QED
  BY <1>1, <1>2

\* A full batch keeps the number whole.
LEMMA WholeAdds ==
    ASSUME NEW s \in Seq(Item), Whole(s), NEW x \in Seq(Item), Len(x) = BatchSize
    PROVE  Whole(s \o x)
<1>1. PICK m \in Nat : Len(s) = BatchSize * m
  BY DEF Whole
<1>2. Len(s \o x) = Len(s) + Len(x)
  BY ConcatProperties
<1>3. m + 1 \in Nat /\ BatchSize * (m + 1) = BatchSize * m + BatchSize /\ BatchSize \in Nat
  BY WriterAssumption
<1>4. Len(s \o x) = BatchSize * (m + 1)
  BY <1>1, <1>2, <1>3
<1> QED
  BY <1>3, <1>4 DEF Whole

\* push, up to flush_batch's send.
LEMMA PushKeeps ==
    ASSUME WriterInv, NEW x \in Item, Push(x)
    PROVE  WriterInv'
<1> DEFINE batch == Append(current_batch, x)
<1>1. /\ phase = "trace" /\ pushed' = Append(pushed, x) /\ total_items' = total_items + 1
      /\ UNCHANGED <<sender, channel, writer, buf, file, result>>
      /\ \/ /\ Len(batch) >= BatchSize /\ phase' = "send" /\ sending' = batch /\ current_batch' = <<>>
         \/ /\ ~(Len(batch) >= BatchSize) /\ phase' = phase /\ sending' = sending /\ current_batch' = batch
  BY DEF Push, disk
<1>2. TypeOK /\ Control /\ Batches /\ BatchSize \in Nat \ {0}
  BY WriterAssumption DEF WriterInv
<1>3. /\ current_batch \in Seq(Item) /\ pushed \in Seq(Item) /\ channel \in Seq(Seq(Item))
      /\ sending = <<>> /\ Len(current_batch) < BatchSize /\ result = None /\ sender
      /\ total_items = Len(pushed)
  BY <1>1, <1>2 DEF TypeOK, Control
<1>4. batch \in Seq(Item) /\ Len(batch) = Len(current_batch) + 1 /\ Len(current_batch) \in Nat
      /\ Append(pushed, x) \in Seq(Item) /\ Len(Append(pushed, x)) = Len(pushed) + 1
  BY <1>3
<1> HIDE DEF batch
<1>5. Len(batch) >= BatchSize => Len(batch) = BatchSize
  BY <1>2, <1>3, <1>4
<1>6. TypeOK'
  <2>1. <<>> \in Seq(Item)
    OBVIOUS
  <2> QED
    BY <1>1, <1>2, <1>3, <1>4, <2>1 DEF TypeOK
<1>7. Control'
  <2>1. result'.tag # "ok"
    BY <1>1, <1>3 DEF None
  <2> QED
    BY <1>1, <1>2, <1>3, <1>4, <1>5, <2>1 DEF Control
<1>8. Batches'
  BY <1>1, <1>2 DEF Batches, ReceiverAlive
<1>9. Backlog' = Append(Backlog, x)
  <2>1. Backlog = Waits(channel, <<>>, current_batch)
    BY <1>3 DEF Backlog, Waits
  <2>2. Backlog' = Waits(channel, <<>>, batch)
    <3>1. Waits(channel, <<>>, batch) = Waits(channel, batch, <<>>)
      BY <1>3, <1>4, WaitsMoves
    <3>2. Backlog' = Waits(channel, sending', current_batch')
      BY <1>1 DEF Backlog, Waits
    <3> QED
      BY <1>1, <1>3, <3>1, <3>2
  <2> QED
    BY <1>3, <2>1, <2>2, WaitsAppend DEF batch
<1>10. PICK s \in Seq(Item), rest \in Seq(Item) : Settled(s, rest)
  BY DEF WriterInv
<1>11. pushed' = s \o Append(rest, x) /\ Append(rest, x) \in Seq(Item)
  <2>1. pushed = s \o rest
    BY <1>10 DEF Settled
  <2> QED
    BY <1>1, <2>1, ItemAppend, AppendProperties
<1>12. Settled(s, Append(rest, x))'
  <2>1. ReceiverAlive' = ReceiverAlive /\ phase' # "unwound" /\ writer # "ok"
    BY <1>1, <1>2, <1>3 DEF ReceiverAlive, Control
  <2>2. ReceiverAlive => Append(rest, x) = Backlog'
    BY <1>1, <1>9, <1>10 DEF Settled
  <2>3. Whole(s) /\ IsPrefix(file, File!Encoding(s))
        /\ (ReceiverAlive => file \o buf = File!Encoding(s))
    BY <1>1, <1>10 DEF Settled
  <2>4. IsPrefix(file, File!Encoding(s))' /\ (file \o buf = File!Encoding(s))' = (file \o buf = File!Encoding(s))
    BY <1>1, <2>3
  <2> QED
    BY <1>1, <1>11, <2>1, <2>2, <2>3, <2>4 DEF Settled
<1> QED
  BY <1>6, <1>7, <1>8, <1>11, <1>12 DEF WriterInv

\* send_batch with room in the channel.
LEMMA SendBatchKeeps ==
    ASSUME WriterInv, SendBatch
    PROVE  WriterInv'
<1>1. /\ phase \in {"send", "last"} /\ ReceiverAlive /\ Len(channel) < ChannelDepth
      /\ channel' = Append(channel, sending) /\ sending' = <<>>
      /\ phase' = (IF phase = "send" THEN "trace" ELSE "join") /\ sender' = (phase = "send")
      /\ UNCHANGED <<current_batch, total_items, pushed, writer, buf, file, result>>
  BY DEF SendBatch, AfterSend, collector, disk
<1>2. TypeOK /\ Control /\ Batches /\ BatchSize \in Nat \ {0} /\ ChannelDepth \in Nat
  BY WriterAssumption DEF WriterInv
<1>3. /\ sending \in Seq(Item) /\ channel \in Seq(Seq(Item)) /\ current_batch = <<>>
      /\ Len(sending) \in 1 .. BatchSize /\ (phase = "send" => Len(sending) = BatchSize)
      /\ result = None
  BY <1>1, <1>2 DEF TypeOK, Control
<1>4. /\ channel' \in Seq(Seq(Item)) /\ Len(channel') = Len(channel) + 1 /\ Len(channel) \in Nat
      /\ \A i \in 1 .. Len(channel) : channel'[i] = channel[i]
      /\ channel'[Len(channel) + 1] = sending /\ channel' # <<>>
  BY <1>1, <1>3
<1>5. TypeOK'
  BY <1>1, <1>2, <1>4 DEF TypeOK
<1>6. Control'
  <2>1. result'.tag # "ok" /\ Len(<<>>) = 0
    BY <1>1, <1>3 DEF None
  <2>2. \/ phase' = "trace" /\ sender' = TRUE
        \/ phase' = "join" /\ sender' = FALSE
    BY <1>1
  <2>3. writer' \notin {"ok", "killed"}
    BY <1>1 DEF ReceiverAlive
  <2> QED
    BY <1>1, <1>2, <1>3, <2>1, <2>2, <2>3 DEF Control
<1>7. Batches'
  <2>1. Len(channel') <= ChannelDepth
    BY <1>1, <1>2, <1>4
  <2>2. ASSUME NEW i \in 1 .. Len(channel')
        PROVE  /\ Len(channel'[i]) \in 1 .. BatchSize
               /\ phase' # "join" \/ i # Len(channel') => Len(channel'[i]) = BatchSize
    <3>1. CASE i \in 1 .. Len(channel)
      <4>1. Len(channel[i]) \in 1 .. BatchSize /\ Len(channel[i]) = BatchSize
        BY <1>1, <1>2, <3>1 DEF Batches
      <4> QED
        BY <1>4, <3>1, <4>1
    <3>2. CASE i = Len(channel) + 1
      BY <1>1, <1>3, <1>4, <3>2
    <3> QED
      BY <1>4, <3>1, <3>2
  <2> QED
    BY <1>1, <2>1, <2>2 DEF Batches, ReceiverAlive
<1>8. Backlog' = Backlog
  <2>1. Backlog = Waits(channel, sending, <<>>)
    BY <1>3 DEF Backlog, Waits
  <2>2. Backlog' = Waits(Append(channel, sending), <<>>, <<>>)
    BY <1>1, <1>3 DEF Backlog, Waits
  <2> QED
    BY <1>3, <2>1, <2>2, WaitsMoves
<1>9. PICK s \in Seq(Item), rest \in Seq(Item) : Settled(s, rest)
  BY DEF WriterInv
<1>10. Settled(s, rest)'
  <2>1. ReceiverAlive' /\ phase' # "unwound" /\ writer # "ok"
    BY <1>1 DEF ReceiverAlive
  <2>2. /\ pushed = s \o rest /\ file \o buf = File!Encoding(s) /\ rest = Backlog /\ Whole(s)
        /\ IsPrefix(file, File!Encoding(s))
    BY <1>1, <1>9 DEF Settled
  <2>3. IsPrefix(file, File!Encoding(s))' /\ (file \o buf = File!Encoding(s))'
    BY <1>1, <2>2
  <2> QED
    BY <1>1, <1>8, <2>1, <2>2, <2>3 DEF Settled
<1> QED
  BY <1>5, <1>6, <1>7, <1>9, <1>10 DEF WriterInv

\* send_batch to a writer that is gone: the batch is lost, and known to be.
LEMMA SendBatchFailsKeeps ==
    ASSUME WriterInv, SendBatchFails
    PROVE  WriterInv'
<1>1. /\ phase \in {"send", "last"} /\ ~ReceiverAlive /\ sending' = <<>>
      /\ phase' = (IF phase = "send" THEN "trace" ELSE "join") /\ sender' = (phase = "send")
      /\ UNCHANGED <<current_batch, total_items, pushed, channel, writer, buf, file, result>>
  BY DEF SendBatchFails, AfterSend, collector, disk
<1>2. TypeOK /\ Control /\ Batches /\ BatchSize \in Nat \ {0}
  BY WriterAssumption DEF WriterInv
<1>3. current_batch = <<>> /\ result = None /\ sender
  BY <1>1, <1>2 DEF Control
<1>4. writer # "ok" /\ writer' # "ok"
  BY <1>1, <1>2, <1>3 DEF Control
<1>5. TypeOK'
  BY <1>1, <1>2 DEF TypeOK
<1>6. Control'
  <2>1. result'.tag # "ok" /\ Len(<<>>) = 0
    BY <1>1, <1>3 DEF None
  <2>2. \/ phase' = "trace" /\ sender' = TRUE
        \/ phase' = "join" /\ sender' = FALSE
    BY <1>1
  <2>3. writer' \notin {"ok", "killed"}
    BY <1>1, <1>2, <1>4 DEF Control
  <2> QED
    BY <1>1, <1>2, <1>3, <2>1, <2>2, <2>3 DEF Control
<1>7. Batches'
  BY <1>1, <1>2 DEF Batches, ReceiverAlive
<1>8. PICK s \in Seq(Item), rest \in Seq(Item) : Settled(s, rest)
  BY DEF WriterInv
<1>9. Settled(s, rest)'
  <2>1. ~ReceiverAlive'
    BY <1>1 DEF ReceiverAlive
  <2>2. pushed = s \o rest /\ Whole(s) /\ IsPrefix(file, File!Encoding(s))
    BY <1>1, <1>8 DEF Settled
  <2>3. IsPrefix(file, File!Encoding(s))'
    BY <1>1, <2>2
  <2> QED
    BY <1>1, <1>4, <2>1, <2>2, <2>3 DEF Settled
<1> QED
  BY <1>5, <1>6, <1>7, <1>8, <1>9 DEF WriterInv

\* finalize, up to the join.
LEMMA FinalizeKeeps ==
    ASSUME WriterInv, Finalize
    PROVE  WriterInv'
<1>1. /\ phase = "trace" /\ current_batch' = <<>>
      /\ UNCHANGED <<total_items, pushed, channel, writer, buf, file, result>>
      /\ \/ current_batch # <<>> /\ phase' = "last" /\ sending' = current_batch /\ sender' = sender
         \/ current_batch = <<>> /\ phase' = "join" /\ sending' = sending /\ sender' = FALSE
  BY DEF Finalize, disk
<1>2. TypeOK /\ Control /\ Batches /\ BatchSize \in Nat \ {0}
  BY WriterAssumption DEF WriterInv
<1>3. /\ current_batch \in Seq(Item) /\ channel \in Seq(Seq(Item))
      /\ sending = <<>> /\ Len(current_batch) < BatchSize /\ result = None /\ sender
  BY <1>1, <1>2 DEF TypeOK, Control
<1>4. current_batch # <<>> => Len(current_batch) \in 1 .. BatchSize
  BY <1>2, <1>3, EmptySeq, LenProperties
<1>5. TypeOK'
  <2>1. <<>> \in Seq(Item)
    OBVIOUS
  <2> QED
    BY <1>1, <1>2, <1>3, <2>1 DEF TypeOK
<1>6. Control'
  <2>1. result'.tag # "ok"
    BY <1>1, <1>3 DEF None
  <2> QED
    BY <1>1, <1>2, <1>3, <1>4, <2>1 DEF Control
<1>7. Batches'
  BY <1>1, <1>2 DEF Batches, ReceiverAlive
<1>8. Backlog' = Backlog
  <2>1. Backlog = Waits(channel, <<>>, current_batch)
    BY <1>3 DEF Backlog, Waits
  <2>2. Backlog' = Waits(channel, sending', <<>>)
    BY <1>1 DEF Backlog, Waits
  <2>3. sending' = current_batch
    BY <1>1, <1>3
  <2> QED
    BY <1>3, <2>1, <2>2, <2>3, WaitsMoves
<1>9. PICK s \in Seq(Item), rest \in Seq(Item) : Settled(s, rest)
  BY DEF WriterInv
<1>10. Settled(s, rest)'
  <2>1. ReceiverAlive' = ReceiverAlive /\ phase' # "unwound" /\ writer # "ok"
    BY <1>1, <1>2, <1>3 DEF ReceiverAlive, Control
  <2>2. /\ pushed = s \o rest /\ Whole(s) /\ IsPrefix(file, File!Encoding(s))
        /\ ReceiverAlive => file \o buf = File!Encoding(s) /\ rest = Backlog
    BY <1>1, <1>9 DEF Settled
  <2>3. /\ IsPrefix(file, File!Encoding(s))'
        /\ (file \o buf = File!Encoding(s))' = (file \o buf = File!Encoding(s))
    BY <1>1, <2>2
  <2> QED
    BY <1>1, <1>8, <2>1, <2>2, <2>3 DEF Settled
<1> QED
  BY <1>5, <1>6, <1>7, <1>9, <1>10 DEF WriterInv

\* finalize's join and result.
LEMMA JoinKeeps ==
    ASSUME WriterInv, Join
    PROVE  WriterInv'
<1>1. /\ phase = "join" /\ writer \in {"ok", "err"} /\ phase' = "done"
      /\ result' = (IF writer = "ok" THEN Ok(total_items) ELSE Err)
      /\ UNCHANGED <<current_batch, total_items, pushed, sending, sender, channel, writer, buf, file>>
  BY DEF Join, collector, disk
<1>2. TypeOK /\ Control /\ Batches
  BY DEF WriterInv
<1>3. total_items = Len(pushed) /\ Len(pushed) \in 0 .. Len(pushed) /\ sending = <<>> /\ current_batch = <<>>
  BY <1>1, <1>2, LenProperties DEF TypeOK, Control
<1>4. TypeOK'
  <2>1. result' \in {None, Err} \cup {Ok(n) : n \in 0 .. Len(pushed)}
    BY <1>1, <1>3
  <2> QED
    BY <1>1, <1>2, <2>1 DEF TypeOK
<1>5. Control'
  <2>1. result'.tag = "ok" => writer' = "ok" /\ result'.items = Len(pushed')
    BY <1>1, <1>3 DEF Ok, Err
  <2>2. ~sender /\ ~sender'
    BY <1>1, <1>2 DEF Control
  <2> QED
    BY <1>1, <1>3, <2>1, <2>2 DEF Control
<1>6. Batches'
  <2>1. channel = <<>>
    BY <1>1, <1>2 DEF Batches, ReceiverAlive
  <2>2. channel' = <<>> /\ Len(<<>>) = 0 /\ 0 <= ChannelDepth /\ 1 .. 0 = {}
    BY <1>1, <2>1, WriterAssumption
  <2> QED
    BY <2>2 DEF Batches
<1>7. PICK s \in Seq(Item), rest \in Seq(Item) : Settled(s, rest)
  BY DEF WriterInv
<1>8. Settled(s, rest)'
  <2>1. ~ReceiverAlive'
    BY <1>1 DEF ReceiverAlive
  <2>2. /\ pushed = s \o rest
        /\ Whole(s) \/ rest = <<>>
        /\ IsPrefix(file, File!Encoding(s))
        /\ writer = "ok" => rest = <<>> /\ file = File!Encoding(s)
    BY <1>1, <1>7 DEF Settled
  <2>3. IsPrefix(file, File!Encoding(s))' /\ (writer = "ok" => rest = <<>> /\ file = File!Encoding(s))'
    BY <1>1, <2>2
  <2> QED
    BY <1>1, <2>1, <2>2, <2>3 DEF Settled
<1> QED
  BY <1>4, <1>5, <1>6, <1>7, <1>8 DEF WriterInv

\* The emulator panics: what was not sent is lost.
LEMMA AbandonKeeps ==
    ASSUME WriterInv, Abandon
    PROVE  WriterInv'
<1>1. /\ phase = "trace" /\ phase' = "unwound" /\ sender' = FALSE /\ current_batch' = <<>>
      /\ UNCHANGED <<total_items, pushed, sending, channel, writer, buf, file, result>>
  BY DEF Abandon, disk
<1>2. TypeOK /\ Control /\ Batches
  BY DEF WriterInv
<1>3. /\ current_batch \in Seq(Item) /\ channel \in Seq(Seq(Item))
      /\ sending = <<>> /\ result = None /\ sender
  BY <1>1, <1>2 DEF TypeOK, Control
<1>4. TypeOK'
  <2>1. <<>> \in Seq(Item)
    OBVIOUS
  <2> QED
    BY <1>1, <1>2, <2>1 DEF TypeOK
<1>5. Control'
  <2>1. result'.tag # "ok"
    BY <1>1, <1>3 DEF None
  <2> QED
    BY <1>1, <1>2, <1>3, <2>1 DEF Control
<1>6. Batches'
  BY <1>1, <1>2 DEF Batches, ReceiverAlive
<1>7. Backlog = Backlog' \o current_batch
  <2>1. Backlog = Waits(channel, <<>>, current_batch) /\ Backlog' = Waits(channel, <<>>, <<>>)
    BY <1>1, <1>3 DEF Backlog, Waits
  <2> QED
    BY <1>3, <2>1, WaitsMoves
<1>8. PICK s \in Seq(Item), rest \in Seq(Item) : Settled(s, rest)
  BY DEF WriterInv
<1>9. Settled(s, rest)'
  <2>1. ReceiverAlive' = ReceiverAlive
    BY <1>1 DEF ReceiverAlive
  <2>2. /\ pushed = s \o rest /\ Whole(s) /\ IsPrefix(file, File!Encoding(s))
        /\ ReceiverAlive => file \o buf = File!Encoding(s) /\ rest = Backlog
    BY <1>1, <1>8 DEF Settled
  <2>3. /\ IsPrefix(file, File!Encoding(s))'
        /\ (file \o buf = File!Encoding(s))' = (file \o buf = File!Encoding(s))
    BY <1>1, <2>2
  <2>4. ReceiverAlive => \E lost \in Seq(Item) : rest = Backlog' \o lost
    BY <1>3, <1>7, <2>2
  <2> QED
    BY <1>1, <2>1, <2>2, <2>3, <2>4 DEF Settled
<1> QED
  BY <1>4, <1>5, <1>6, <1>8, <1>9 DEF WriterInv

\* The process ends under the writer.
LEMMA ExitKeeps ==
    ASSUME WriterInv, Exit
    PROVE  WriterInv'
<1>1. /\ phase = "unwound" /\ writer' = "killed" /\ channel' = <<>> /\ buf' = <<>>
      /\ UNCHANGED <<phase, current_batch, total_items, pushed, sending, sender, file, result>>
  BY DEF Exit, collector
<1>2. TypeOK /\ Control
  BY DEF WriterInv
<1>3. TypeOK'
  <2>1. <<>> \in Seq(Seq(Item)) /\ <<>> \in Seq(Token)
    OBVIOUS
  <2> QED
    BY <1>1, <1>2, <2>1 DEF TypeOK
<1>4. Control'
  <2>1. result = None /\ result'.tag # "ok"
    BY <1>1, <1>2 DEF None, Control
  <2>2. ~sender /\ ~sender'
    BY <1>1, <1>2 DEF Control
  <2> QED
    BY <1>1, <1>2, <2>1, <2>2 DEF Control
<1>5. Batches'
  <2>1. Len(<<>>) = 0 /\ 0 <= ChannelDepth /\ 1 .. 0 = {}
    BY WriterAssumption
  <2> QED
    BY <1>1, <2>1 DEF Batches
<1>6. PICK s \in Seq(Item), rest \in Seq(Item) : Settled(s, rest)
  BY DEF WriterInv
<1>7. Settled(s, rest)'
  <2>1. ~ReceiverAlive'
    BY <1>1 DEF ReceiverAlive
  <2>2. pushed = s \o rest /\ Whole(s) /\ IsPrefix(file, File!Encoding(s))
    BY <1>1, <1>6 DEF Settled
  <2>3. IsPrefix(file, File!Encoding(s))'
    BY <1>1, <2>2
  <2> QED
    BY <1>1, <2>1, <2>2, <2>3 DEF Settled
<1> QED
  BY <1>3, <1>4, <1>5, <1>6, <1>7 DEF WriterInv

\* File::create.
LEMMA CreateKeeps ==
    ASSUME WriterInv, Create
    PROVE  WriterInv'
<1>1. /\ writer = "create"
      /\ \/ writer' = "recv" /\ channel' = channel
         \/ writer' = "err" /\ channel' = <<>>
      /\ UNCHANGED <<phase, current_batch, total_items, pushed, sending, sender, buf, file, result>>
  BY DEF Create, collector, disk
<1>2. TypeOK /\ Control /\ Batches
  BY DEF WriterInv
<1>3. TypeOK'
  <2>1. <<>> \in Seq(Seq(Item))
    OBVIOUS
  <2> QED
    BY <1>1, <1>2, <2>1 DEF TypeOK
<1>4. Control'
  <2>1. phase # "done" /\ result = None /\ result'.tag # "ok"
    BY <1>1, <1>2 DEF None, Control
  <2> QED
    BY <1>1, <1>2, <2>1 DEF Control
<1>5. Batches'
  <2>1. Len(<<>>) = 0 /\ 0 <= ChannelDepth /\ 1 .. 0 = {}
    BY WriterAssumption
  <2>2. CASE channel' = <<>>
    BY <2>1, <2>2 DEF Batches
  <2>3. CASE writer' = "recv" /\ channel' = channel
    BY <1>1, <1>2, <2>3 DEF Batches, ReceiverAlive
  <2> QED
    BY <1>1, <2>2, <2>3
<1>6. PICK s \in Seq(Item), rest \in Seq(Item) : Settled(s, rest)
  BY DEF WriterInv
<1>7. Settled(s, rest)'
  <2>1. ReceiverAlive /\ writer' # "ok" /\ (ReceiverAlive' => channel' = channel)
    BY <1>1 DEF ReceiverAlive
  <2>2. /\ pushed = s \o rest
        /\ Whole(s) \/ (rest = <<>> /\ phase \in {"join", "done"})
        /\ IsPrefix(file, File!Encoding(s))
        /\ file \o buf = File!Encoding(s)
        /\ channel # <<>> => Whole(s)
        /\ phase # "unwound" => rest = Backlog
        /\ phase = "unwound" => \E lost \in Seq(Item) : rest = Backlog \o lost
    BY <1>6, <2>1 DEF Settled
  <2>3. IsPrefix(file, File!Encoding(s))' /\ (file \o buf = File!Encoding(s))'
    BY <1>1, <2>2
  <2>4. ReceiverAlive' => Backlog' = Backlog
    BY <1>1, <2>1 DEF Backlog
  <2> QED
    BY <1>1, <2>1, <2>2, <2>3, <2>4 DEF Settled
<1> QED
  BY <1>3, <1>4, <1>5, <1>6, <1>7 DEF WriterInv

\* Some of the tokens go to the file and the others stay.
LEMMA SpillFacts ==
    ASSUME NEW f \in Seq(Token), NEW t \in Seq(Token), NEW n \in 0 .. Len(t)
    PROVE  /\ f \o SubSeq(t, 1, n) \in Seq(Token) /\ SubSeq(t, n + 1, Len(t)) \in Seq(Token)
           /\ (f \o SubSeq(t, 1, n)) \o SubSeq(t, n + 1, Len(t)) = f \o t
           /\ IsPrefix(f \o SubSeq(t, 1, n), f \o t)
           /\ IsPrefix(f, f \o SubSeq(t, 1, n))
<1> DEFINE a == SubSeq(t, 1, n)
           b == SubSeq(t, n + 1, Len(t))
<1>1. a \in Seq(Token) /\ b \in Seq(Token) /\ a \o b = t
  BY CutInTwo, Zenon
<1> HIDE DEF a, b
<1>2. f \o a \in Seq(Token) /\ (f \o a) \o b = f \o (a \o b)
  <2>1. a \in Seq(Token) /\ b \in Seq(Token)
    BY <1>1
  <2> QED
    BY <2>1, TokenConcat, SMTT(30)
<1>3. IsPrefix(f \o a, (f \o a) \o b)
  <2> DEFINE c == f \o a
  <2>1. c \in Seq(Token)
    BY <1>2
  <2> HIDE DEF c
  <2>2. IsPrefix(c, c \o b)
    BY <1>1, <2>1, PrefixFacts
  <2> QED
    BY <2>2 DEF c
<1>4. IsPrefix(f, f \o a)
  BY <1>1, PrefixFacts
<1> QED
  BY <1>1, <1>2, <1>3, <1>4 DEF a, b

\* What a batch that the writer takes makes of what it has taken and what is left.
LEMMA TakeHead ==
    ASSUME WriterInv, writer = "recv", channel # <<>>,
           NEW s \in Seq(Item), NEW rest \in Seq(Item), Settled(s, rest)
    PROVE  \E left \in Seq(Item) :
             /\ s \o Head(channel) \in Seq(Item)
             /\ pushed = (s \o Head(channel)) \o left
             /\ File!Encode(Head(channel)) \in Seq(Token)
             /\ buf \o File!Encode(Head(channel)) \in Seq(Token)
             /\ file \o (buf \o File!Encode(Head(channel))) = File!Encoding(s \o Head(channel))
             /\ Whole(s \o Head(channel)) \/ (left = <<>> /\ phase = "join")
             /\ Tail(channel) # <<>> => Whole(s \o Head(channel))
             /\ phase # "unwound" => left = Waits(Tail(channel), sending, current_batch)
             /\ phase = "unwound" =>
                  \E lost \in Seq(Item) : left = Waits(Tail(channel), sending, current_batch) \o lost
<1> DEFINE h == Head(channel)
           tl == Tail(channel)
           w == Waits(tl, sending, current_batch)
<1>1. TypeOK /\ Control /\ Batches /\ BatchSize \in Nat \ {0}
  BY WriterAssumption DEF WriterInv
<1>2. /\ channel \in Seq(Seq(Item)) /\ sending \in Seq(Item) /\ current_batch \in Seq(Item)
      /\ buf \in Seq(Token) /\ file \in Seq(Token)
  BY <1>1 DEF TypeOK
<1>3. /\ h \in Seq(Item) /\ tl \in Seq(Seq(Item)) /\ Len(tl) = Len(channel) - 1 /\ h = channel[1]
      /\ Len(channel) \in Nat /\ Len(channel) >= 1
  <2>1. Len(channel) \in Nat /\ Len(channel) # 0
    BY <1>2, EmptySeq, LenProperties
  <2>2. h \in Seq(Item) /\ tl \in Seq(Seq(Item)) /\ Len(tl) = Len(channel) - 1 /\ h = channel[1]
    BY <1>2, HeadAndTail, Zenon
  <2>3. Len(channel) >= 1
    BY <2>1
  <2> QED
    BY <2>1, <2>2, <2>3
<1>4. Waits(channel, sending, current_batch) = h \o w /\ w \in Seq(Item)
  BY <1>2, <1>3, WaitsHead, WaitsType
<1> HIDE DEF w, h, tl
<1>5. /\ Len(h) \in 1 .. BatchSize
      /\ phase # "join" \/ Len(channel) # 1 => Len(h) = BatchSize
  BY <1>1, <1>3 DEF Batches
<1>6. /\ ReceiverAlive /\ pushed = s \o rest /\ file \o buf = File!Encoding(s) /\ Whole(s)
      /\ phase # "unwound" => rest = Backlog
      /\ phase = "unwound" => \E lost \in Seq(Item) : rest = Backlog \o lost
  BY DEF Settled, ReceiverAlive
<1>7. Backlog = h \o w
  BY <1>4 DEF Backlog, Waits
<1>8. h \in Seq(Item) /\ w \in Seq(Item)
  BY <1>3, <1>4
<1>9. s \o h \in Seq(Item)
  BY <1>3, ItemConcat
<1>10. /\ File!Encode(h) \in Seq(Token) /\ buf \o File!Encode(h) \in Seq(Token)
      /\ file \o (buf \o File!Encode(h)) = File!Encoding(s \o h)
  <2> DEFINE e == File!Encode(h)
  <2>1. e \in Seq(Token) /\ File!Encoding(s \o h) = File!Encoding(s) \o e
    BY <1>3, <1>5, <1>6, EncodeType, EncodingAdds
  <2> HIDE DEF e
  <2>2. buf \o e \in Seq(Token) /\ (file \o buf) \o e = file \o (buf \o e)
    BY <1>2, <2>1, TokenConcat
  <2> QED
    BY <1>6, <2>1, <2>2 DEF e
<1>11. Len(h) = BatchSize => Whole(s \o h)
  BY <1>3, <1>6, WholeAdds
<1>12. tl # <<>> => Len(channel) # 1
  <2>1. Len(channel) = 1 => Len(tl) = 0
    BY <1>3
  <2> QED
    BY <1>3, <2>1, EmptySeq
<1>13. Len(channel) = 1 /\ phase = "join" => w = <<>>
  <2>1. SUFFICES ASSUME Len(channel) = 1, phase = "join" PROVE w = <<>>
    OBVIOUS
  <2>2. tl = <<>>
    <3>1. Len(tl) = 0
      BY <1>3, <2>1
    <3> QED
      BY <1>3, <3>1, EmptySeq
  <2>3. sending = <<>> /\ current_batch = <<>>
    BY <1>1, <2>1 DEF Control
  <2>4. FlattenSeq(<<>>) \o <<>> \o <<>> = <<>>
    <3>1. FlattenSeq(<<>>) = <<>>
      BY FlattenEmpty
    <3> QED
      BY <3>1
  <2> QED
    BY <2>2, <2>3, <2>4 DEF w, Waits
<1>14. phase # "unwound" => pushed = (s \o h) \o w
  <2>1. s \o (h \o w) = (s \o h) \o w
    BY <1>8, ItemConcat, SMTT(30)
  <2> QED
    BY <1>6, <1>7, <2>1
<1>15. CASE phase # "unwound"
  <2>1. Whole(s \o h) \/ (w = <<>> /\ phase = "join")
    BY <1>5, <1>11, <1>13
  <2>2. tl # <<>> => Whole(s \o h)
    BY <1>5, <1>11, <1>12
  <2> QED
    BY <1>4, <1>9, <1>10, <1>14, <1>15, <2>1, <2>2 DEF w, h, tl
<1>16. CASE phase = "unwound"
  <2>1. PICK lost \in Seq(Item) : rest = Backlog \o lost
    BY <1>6, <1>16
  <2>2. w \o lost \in Seq(Item) /\ s \o ((h \o w) \o lost) = (s \o h) \o (w \o lost)
    <3>1. (h \o w) \o lost = h \o (w \o lost) /\ w \o lost \in Seq(Item)
      BY <1>8, ItemRegroup, SMTT(30)
    <3> DEFINE r == w \o lost
    <3>2. r \in Seq(Item)
      BY <3>1
    <3> HIDE DEF r
    <3>3. (s \o h) \o r = s \o (h \o r)
      BY <1>8, <3>2, ItemRegroup, SMTT(30)
    <3> QED
      BY <3>1, <3>3 DEF r
  <2>3. pushed = (s \o h) \o (w \o lost)
    BY <1>6, <1>7, <2>1, <2>2
  <2>4. Whole(s \o h)
    BY <1>5, <1>11, <1>16, SMTT(30)
  <2> QED
    BY <1>9, <1>10, <1>16, <2>2, <2>3, <2>4 DEF w, h, tl
<1> QED
  BY <1>15, <1>16

\* Taking the first batch leaves a channel as good as it was.
LEMMA TailBatches ==
    ASSUME TypeOK, Batches, channel # <<>>
    PROVE  /\ Tail(channel) \in Seq(Seq(Item))
           /\ Len(Tail(channel)) <= ChannelDepth
           /\ \A i \in 1 .. Len(Tail(channel)) :
                /\ Len(Tail(channel)[i]) \in 1 .. BatchSize
                /\ phase # "join" \/ i # Len(Tail(channel)) => Len(Tail(channel)[i]) = BatchSize
<1> DEFINE tl == Tail(channel)
<1>1. channel \in Seq(Seq(Item)) /\ Len(channel) <= ChannelDepth /\ ChannelDepth \in Nat
  BY WriterAssumption DEF TypeOK, Batches
<1>2. /\ tl \in Seq(Seq(Item)) /\ Len(tl) = Len(channel) - 1
      /\ \A i \in 1 .. Len(tl) : tl[i] = channel[i + 1]
  BY <1>1, HeadAndTail, Zenon
<1>3. Len(channel) \in Nat /\ Len(tl) \in Nat
  BY <1>1, <1>2, LenProperties
<1> HIDE DEF tl
<1>4. Len(tl) <= ChannelDepth
  BY <1>1, <1>2, <1>3
<1>5. ASSUME NEW i \in 1 .. Len(tl)
      PROVE  /\ Len(tl[i]) \in 1 .. BatchSize
             /\ phase # "join" \/ i # Len(tl) => Len(tl[i]) = BatchSize
  <2>1. i + 1 \in 1 .. Len(channel) /\ tl[i] = channel[i + 1] /\ (i # Len(tl) => i + 1 # Len(channel))
    BY <1>2, <1>3
  <2> QED
    BY <2>1 DEF Batches
<1> QED
  BY <1>2, <1>4, <1>5 DEF tl

\* The writer writes a batch.
LEMMA WriteBatchKeeps ==
    ASSUME WriterInv, WriteBatch
    PROVE  WriterInv'
<1> DEFINE h == Head(channel)
           tokens == buf \o File!Encode(h)
<1>1. /\ writer = "recv" /\ channel # <<>> /\ channel' = Tail(channel)
      /\ UNCHANGED <<phase, current_batch, total_items, pushed, sending, sender, writer, result>>
  BY DEF WriteBatch, collector
<1>2. PICK n \in 0 .. Len(tokens) :
        file' = file \o SubSeq(tokens, 1, n) /\ buf' = SubSeq(tokens, n + 1, Len(tokens))
  BY DEF WriteBatch, Spill
<1>3. TypeOK /\ Control /\ Batches
  BY DEF WriterInv
<1>4. PICK s \in Seq(Item), rest \in Seq(Item) : Settled(s, rest)
  BY DEF WriterInv
<1>5. PICK left \in Seq(Item) :
        /\ s \o h \in Seq(Item) /\ pushed = (s \o h) \o left
        /\ tokens \in Seq(Token) /\ file \o tokens = File!Encoding(s \o h)
        /\ Whole(s \o h) \/ (left = <<>> /\ phase = "join")
        /\ Tail(channel) # <<>> => Whole(s \o h)
        /\ phase # "unwound" => left = Waits(Tail(channel), sending, current_batch)
        /\ phase = "unwound" =>
             \E lost \in Seq(Item) : left = Waits(Tail(channel), sending, current_batch) \o lost
  BY <1>1, <1>4, TakeHead, Zenon
<1> HIDE DEF h, tokens
<1>6. /\ file' \in Seq(Token) /\ buf' \in Seq(Token) /\ file' \o buf' = File!Encoding(s \o h)
      /\ IsPrefix(file', File!Encoding(s \o h))
  <2>1. file \in Seq(Token)
    BY <1>3 DEF TypeOK
  <2> QED
    BY <1>2, <1>5, <2>1, SpillFacts
<1>7. /\ channel' \in Seq(Seq(Item)) /\ Len(channel') <= ChannelDepth
      /\ \A i \in 1 .. Len(channel') :
           /\ Len(channel'[i]) \in 1 .. BatchSize
           /\ phase' # "join" \/ i # Len(channel') => Len(channel'[i]) = BatchSize
  BY <1>1, <1>3, TailBatches
<1>8. TypeOK'
  BY <1>1, <1>3, <1>6, <1>7 DEF TypeOK
<1>9. Control'
  BY <1>1, <1>3 DEF Control
<1>10. Batches'
  BY <1>1, <1>7 DEF Batches, ReceiverAlive
<1>11. Backlog' = Waits(Tail(channel), sending, current_batch)
  BY <1>1 DEF Backlog, Waits
<1>12. PICK t \in Seq(Item) : t = s \o h
  BY <1>5
<1>13. Settled(t, left)'
  <2>1. writer' # "ok" /\ phase' = phase /\ pushed' = pushed /\ channel' = Tail(channel)
    BY <1>1
  <2>2. /\ pushed = t \o left /\ file' \o buf' = File!Encoding(t) /\ IsPrefix(file', File!Encoding(t))
        /\ Whole(t) \/ (left = <<>> /\ phase = "join")
        /\ Tail(channel) # <<>> => Whole(t)
        /\ phase # "unwound" => left = Backlog'
        /\ phase = "unwound" => \E lost \in Seq(Item) : left = Backlog' \o lost
    BY <1>5, <1>6, <1>11, <1>12
  <2>3. (file \o buf = File!Encoding(t))' /\ IsPrefix(file, File!Encoding(t))'
    BY <2>2
  <2> QED
    BY <2>1, <2>2, <2>3 DEF Settled
<1> QED
  BY <1>8, <1>9, <1>10, <1>13 DEF WriterInv

\* A write fails and the writer ends.
LEMMA WriteBatchFailsKeeps ==
    ASSUME WriterInv, WriteBatchFails
    PROVE  WriterInv'
<1> DEFINE h == Head(channel)
           tokens == buf \o File!Encode(h)
<1>1. /\ writer = "recv" /\ channel # <<>> /\ channel' = <<>> /\ buf' = <<>> /\ writer' = "err"
      /\ UNCHANGED <<phase, current_batch, total_items, pushed, sending, sender, result>>
  BY DEF WriteBatchFails, collector
<1>2. PICK n \in 0 .. Len(tokens) : file' = file \o SubSeq(tokens, 1, n)
  BY DEF WriteBatchFails
<1>3. TypeOK /\ Control /\ Batches
  BY DEF WriterInv
<1>4. PICK s \in Seq(Item), rest \in Seq(Item) : Settled(s, rest)
  BY DEF WriterInv
<1>5. PICK left \in Seq(Item) :
        /\ s \o h \in Seq(Item) /\ pushed = (s \o h) \o left
        /\ tokens \in Seq(Token) /\ file \o tokens = File!Encoding(s \o h)
        /\ Whole(s \o h) \/ (left = <<>> /\ phase = "join")
  BY <1>1, <1>4, TakeHead, Zenon
<1> HIDE DEF h, tokens
<1>6. file' \in Seq(Token) /\ IsPrefix(file', File!Encoding(s \o h))
  <2>1. file \in Seq(Token)
    BY <1>3 DEF TypeOK
  <2> QED
    BY <1>2, <1>5, <2>1, SpillFacts
<1>7. TypeOK'
  <2>1. <<>> \in Seq(Seq(Item)) /\ <<>> \in Seq(Token)
    OBVIOUS
  <2> QED
    BY <1>1, <1>3, <1>6, <2>1 DEF TypeOK
<1>8. Control'
  <2>1. phase # "done" /\ result = None /\ result'.tag # "ok"
    BY <1>1, <1>3 DEF None, Control
  <2> QED
    BY <1>1, <1>3, <2>1 DEF Control
<1>9. Batches'
  <2>1. Len(<<>>) = 0 /\ 0 <= ChannelDepth /\ 1 .. 0 = {}
    BY WriterAssumption
  <2> QED
    BY <1>1, <2>1 DEF Batches
<1>10. PICK t \in Seq(Item) : t = s \o h
  BY <1>5
<1>11. Settled(t, left)'
  <2>1. writer' # "ok" /\ ~ReceiverAlive' /\ phase' = phase /\ pushed' = pushed
    BY <1>1 DEF ReceiverAlive
  <2>2. /\ pushed = t \o left /\ IsPrefix(file', File!Encoding(t))
        /\ Whole(t) \/ (left = <<>> /\ phase = "join")
    BY <1>5, <1>6, <1>10
  <2>3. IsPrefix(file, File!Encoding(t))'
    BY <2>2
  <2> QED
    BY <2>1, <2>2, <2>3 DEF Settled
<1> QED
  BY <1>7, <1>8, <1>9, <1>11 DEF WriterInv

\* The sender is gone: the last flush, and the thread ends.
LEMMA FlushAndFinishKeeps ==
    ASSUME WriterInv, FlushAndFinish
    PROVE  WriterInv'
<1>1. /\ writer = "recv" /\ channel = <<>> /\ ~sender /\ buf' = <<>>
      /\ \/ writer' = "ok" /\ file' = file \o buf
         \/ writer' = "err" /\ \E n \in 0 .. Len(buf) : file' = file \o SubSeq(buf, 1, n)
      /\ UNCHANGED <<phase, current_batch, total_items, pushed, sending, sender, channel, result>>
  BY DEF FlushAndFinish, collector
<1>2. TypeOK /\ Control /\ Batches
  BY DEF WriterInv
<1>3. /\ file \in Seq(Token) /\ buf \in Seq(Token) /\ file \o buf \in Seq(Token)
      /\ phase \in {"join", "unwound"} /\ result = None /\ sending = <<>> /\ current_batch = <<>>
  <2>1. file \in Seq(Token) /\ buf \in Seq(Token)
    BY <1>2 DEF TypeOK
  <2>2. phase \in {"join", "unwound"} /\ result = None /\ sending = <<>> /\ current_batch = <<>>
    BY <1>1, <1>2 DEF TypeOK, Control
  <2> QED
    BY <2>1, <2>2, TokenConcat
<1>4. /\ file' \in Seq(Token) /\ IsPrefix(file', file \o buf)
      /\ writer' \in {"ok", "err"} /\ (writer' = "ok" => file' = file \o buf)
  <2>1. CASE writer' = "ok" /\ file' = file \o buf
    BY <1>3, <2>1, PrefixFacts
  <2>2. CASE writer' = "err" /\ \E n \in 0 .. Len(buf) : file' = file \o SubSeq(buf, 1, n)
    BY <1>3, <2>2, SpillFacts
  <2> QED
    BY <1>1, <2>1, <2>2
<1>5. TypeOK'
  <2>1. <<>> \in Seq(Token)
    OBVIOUS
  <2> QED
    BY <1>1, <1>2, <1>4, <2>1 DEF TypeOK
<1>6. Control'
  <2>1. result'.tag # "ok"
    BY <1>1, <1>3 DEF None
  <2> QED
    BY <1>1, <1>2, <1>3, <1>4, <2>1 DEF Control
<1>7. Batches'
  <2>1. channel' = <<>> /\ Len(<<>>) = 0 /\ 0 <= ChannelDepth /\ 1 .. 0 = {}
    BY <1>1, WriterAssumption
  <2> QED
    BY <2>1 DEF Batches
<1>8. PICK s \in Seq(Item), rest \in Seq(Item) : Settled(s, rest)
  BY DEF WriterInv
<1>9. Settled(s, rest)'
  <2>1. /\ pushed = s \o rest /\ file \o buf = File!Encoding(s)
        /\ phase # "unwound" => rest = Backlog
        /\ Whole(s) \/ (rest = <<>> /\ phase \in {"join", "done"})
    BY <1>1, <1>8 DEF Settled, ReceiverAlive
  <2>2. Backlog = <<>>
    <3>1. FlattenSeq(<<>>) = <<>>
      BY FlattenEmpty
    <3>2. Backlog = FlattenSeq(<<>>) \o <<>> \o <<>>
      BY <1>1, <1>3 DEF Backlog
    <3> QED
      BY <3>1, <3>2
  <2>3. /\ IsPrefix(file', File!Encoding(s)) /\ (writer' = "ok" => file' = File!Encoding(s))
        /\ ~ReceiverAlive' /\ (phase' # "unwound" => rest = <<>>)
    BY <1>1, <1>4, <2>1, <2>2 DEF ReceiverAlive
  <2>4. IsPrefix(file, File!Encoding(s))' /\ (writer = "ok" => file = File!Encoding(s))'
    BY <2>3
  <2> QED
    BY <1>1, <2>1, <2>3, <2>4 DEF Settled
<1> QED
  BY <1>5, <1>6, <1>7, <1>8, <1>9 DEF WriterInv

\* A step that changes nothing.
LEMMA StutterKeeps ==
    ASSUME WriterInv, UNCHANGED vars
    PROVE  WriterInv'
<1>1. UNCHANGED <<phase, current_batch, total_items, pushed, sending, sender, channel, writer, buf, file, result>>
  BY DEF vars, collector, disk
<1>2. TypeOK' /\ Control' /\ Batches'
  BY <1>1 DEF WriterInv, TypeOK, Control, Batches, ReceiverAlive
<1>3. PICK s \in Seq(Item), rest \in Seq(Item) : Settled(s, rest)
  BY DEF WriterInv
<1>4. Backlog' = Backlog /\ ReceiverAlive' = ReceiverAlive
  BY <1>1 DEF Backlog, ReceiverAlive
<1>5. Settled(s, rest)'
  <2>1. /\ IsPrefix(file, File!Encoding(s))' = IsPrefix(file, File!Encoding(s))
        /\ (file \o buf = File!Encoding(s))' = (file \o buf = File!Encoding(s))
    BY <1>1
  <2> QED
    BY <1>1, <1>3, <1>4, <2>1 DEF Settled
<1> QED
  BY <1>2, <1>3, <1>5 DEF WriterInv

\* The threads start with nothing.
LEMMA InitWriter == Init => WriterInv
<1> SUFFICES ASSUME Init PROVE WriterInv
  OBVIOUS
<1>1. <<>> \in Seq(Item) /\ <<>> \in Seq(Seq(Item)) /\ <<>> \in Seq(Token) /\ Len(<<>>) = 0 /\ 1 .. 0 = {}
  OBVIOUS
<1>2. TypeOK
  BY <1>1 DEF Init, TypeOK
<1>3. Control
  BY <1>1, WriterAssumption DEF Init, Control, None
<1>4. Batches
  BY <1>1, WriterAssumption DEF Init, Batches
<1>5. Settled(<<>>, <<>>)
  <2>1. File!Encoding(<<>>) = <<>>
    BY EncodingOne
  <2>2. Whole(<<>>)
    BY <1>1, WriterAssumption DEF Whole
  <2>3. <<>> \o <<>> = <<>> /\ FlattenSeq(<<>>) = <<>>
    BY FlattenEmpty
  <2>4. Backlog = <<>>
    BY <2>3 DEF Init, Backlog
  <2>5. IsPrefix(<<>>, <<>>)
    BY <1>1, PrefixFacts
  <2> QED
    BY <2>1, <2>2, <2>3, <2>4, <2>5 DEF Init, Settled
<1> QED
  BY <1>1, <1>2, <1>3, <1>4, <1>5 DEF WriterInv

\* Whatever the two threads do, the cycles split into those the writer has taken
\* over, whose encoding the file and the buffer hold, and those it has not.
THEOREM WriterInvariant == Spec => []WriterInv
<1>1. ASSUME WriterInv, [Next]_vars PROVE WriterInv'
  <2>1. CASE UNCHANGED vars
    BY <1>1, <2>1, StutterKeeps
  <2>2. ASSUME NEW x \in Item, Push(x) PROVE WriterInv'
    BY <1>1, <2>2, PushKeeps
  <2>3. CASE SendBatch
    BY <1>1, <2>3, SendBatchKeeps
  <2>4. CASE SendBatchFails
    BY <1>1, <2>4, SendBatchFailsKeeps
  <2>5. CASE Finalize
    BY <1>1, <2>5, FinalizeKeeps
  <2>6. CASE Join
    BY <1>1, <2>6, JoinKeeps
  <2>7. CASE Create
    BY <1>1, <2>7, CreateKeeps
  <2>8. CASE WriteBatch
    BY <1>1, <2>8, WriteBatchKeeps
  <2>9. CASE WriteBatchFails
    BY <1>1, <2>9, WriteBatchFailsKeeps
  <2>10. CASE FlushAndFinish
    BY <1>1, <2>10, FlushAndFinishKeeps
  <2>11. CASE Abandon
    BY <1>1, <2>11, AbandonKeeps
  <2>12. CASE Exit
    BY <1>1, <2>12, ExitKeeps
  <2> QED
    BY <1>1, <2>1, <2>2, <2>3, <2>4, <2>5, <2>6, <2>7, <2>8, <2>9, <2>10, <2>11, <2>12
    DEF Next, Collector, Writer
<1> QED
  BY <1>1, InitWriter, PTL DEF Spec

----------------------------------------------------------------------------
(* What the invariant says of the file. *)

\* The encoding of the trace continues that of what the writer has taken over.
LEMMA EncodedContinues ==
    ASSUME WriterInv, NEW s \in Seq(Item), NEW rest \in Seq(Item), Settled(s, rest)
    PROVE  /\ File!Encoding(s) \in Seq(Token) /\ File!Encoding(rest) \in Seq(Token)
           /\ Encoded = File!Encoding(s) \o File!Encoding(rest)
<1>1. File!Encoding(s) \in Seq(Token) /\ File!Encoding(rest) \in Seq(Token)
  BY EncodingType
<1>2. pushed = s \o rest /\ (Whole(s) \/ rest = <<>>)
  BY DEF Settled
<1>3. CASE Whole(s)
  BY <1>1, <1>2, <1>3, EncodingConcat DEF Whole, Encoded
<1>4. CASE rest = <<>>
  <2>1. File!Encoding(rest) = <<>>
    BY <1>4, EncodingOne
  <2>2. s \o <<>> = s
    BY ConcatEmptySeq
  <2>3. File!Encoding(s) \o <<>> = File!Encoding(s)
    BY <1>1, ConcatEmptySeq
  <2> QED
    BY <1>1, <1>2, <1>4, <2>1, <2>2, <2>3 DEF Encoded
<1> QED
  BY <1>2, <1>3, <1>4

\* The file is the beginning of the encoded trace.
LEMMA NoGap == WriterInv => FileHasNoGap
<1> SUFFICES ASSUME WriterInv PROVE FileHasNoGap
  OBVIOUS
<1>1. PICK s \in Seq(Item), rest \in Seq(Item) : Settled(s, rest)
  BY DEF WriterInv
<1>2. file \in Seq(Token) /\ IsPrefix(file, File!Encoding(s))
  BY <1>1 DEF WriterInv, TypeOK, Settled
<1>3. /\ File!Encoding(s) \in Seq(Token) /\ File!Encoding(rest) \in Seq(Token)
      /\ Encoded = File!Encoding(s) \o File!Encoding(rest)
  BY <1>1, EncodedContinues
<1>4. IsPrefix(file, File!Encoding(s) \o File!Encoding(rest))
  BY <1>2, <1>3, PrefixConcat, Zenon
<1> QED
  BY <1>3, <1>4 DEF FileHasNoGap

\* Whatever fails and whenever, even with the process gone under the writer, the
\* file has no gap.
THEOREM NoGapEver == Spec => []FileHasNoGap
BY WriterInvariant, NoGap, PTL

\* Ok is returned over a complete file.
LEMMA CompleteIfOk == WriterInv => OkMeansComplete
<1> SUFFICES ASSUME WriterInv, result.tag = "ok"
             PROVE  result.items = Len(pushed) /\ file = Encoded
  BY DEF OkMeansComplete
<1>1. writer = "ok" /\ result.items = Len(pushed) /\ phase = "done"
  <2>1. Control
    BY DEF WriterInv
  <2>2. result # None
    BY DEF None
  <2> QED
    BY <2>1, <2>2 DEF Control
<1>2. PICK s \in Seq(Item), rest \in Seq(Item) : Settled(s, rest)
  BY DEF WriterInv
<1>3. pushed = s \o rest /\ rest = <<>> /\ file = File!Encoding(s)
  BY <1>1, <1>2 DEF Settled
<1>4. pushed = s
  BY <1>3, ConcatEmptySeq
<1> QED
  BY <1>1, <1>3, <1>4 DEF Encoded

\* finalize returns Ok only if every cycle of the trace is in the file, although a
\* batch that could not be sent was dropped with a message.
THEOREM OkIsComplete == Spec => []OkMeansComplete
BY WriterInvariant, CompleteIfOk, PTL

\* Nothing is missing between the file and the tracing thread, and what waits
\* between them is bounded by the channel.
THEOREM BacklogBounded == Spec => []BoundedBacklog
<1>1. WriterInv => BoundedBacklog
  <2> SUFFICES ASSUME WriterInv, ReceiverAlive, phase # "unwound"
               PROVE  /\ Len(Backlog) <= (ChannelDepth + 1) * BatchSize
                      /\ file \o buf \o File!Encoding(Backlog) = Encoded
    BY DEF BoundedBacklog
  <2>1. TypeOK /\ Control /\ Batches /\ BatchSize \in Nat \ {0} /\ ChannelDepth \in Nat
    BY WriterAssumption DEF WriterInv
  <2>2. /\ channel \in Seq(Seq(Item)) /\ sending \in Seq(Item) /\ current_batch \in Seq(Item)
        /\ Len(channel) \in Nat
    BY <2>1, LenProperties DEF TypeOK
  <2>3. Len(Backlog) <= (ChannelDepth + 1) * BatchSize
    <3> DEFINE f == FlattenSeq(channel)
    <3>1. f \in Seq(Item)
      BY <2>2, FlattenType
    <3>2. Len(f) <= BatchSize * Len(channel)
      <4>1. \A i \in 1 .. Len(channel) : Len(channel[i]) <= BatchSize
        BY <2>1 DEF Batches
      <4>2. BatchSize \in Nat
        BY <2>1
      <4> QED
        BY <2>2, <4>1, <4>2, FlattenLen
    <3> HIDE DEF f
    <3>3. Len(sending) \in Nat /\ Len(current_batch) \in Nat /\ Len(f) \in Nat
      BY <2>2, <3>1, LenProperties
    <3>4. Len(sending) + Len(current_batch) <= BatchSize
      <4>1. Len(<<>>) = 0
        OBVIOUS
      <4>2. \/ sending = <<>> /\ Len(current_batch) <= BatchSize
            \/ current_batch = <<>> /\ Len(sending) <= BatchSize
        BY <2>1, <3>3, <4>1 DEF TypeOK, Control
      <4> QED
        BY <2>1, <3>3, <4>1, <4>2
    <3>5. Len(Backlog) = Len(f) + Len(sending) + Len(current_batch)
      <4>1. f \o sending \in Seq(Item) /\ Len(f \o sending) = Len(f) + Len(sending)
        BY <2>2, <3>1, ConcatProperties
      <4>2. Len((f \o sending) \o current_batch) = Len(f \o sending) + Len(current_batch)
        BY <2>2, <4>1, ConcatProperties
      <4> QED
        BY <4>1, <4>2 DEF Backlog, f
    <3>6. BatchSize * Len(channel) <= BatchSize * ChannelDepth
      BY <2>1, <2>2, MultipleMonotonic DEF Batches
    <3>7. (ChannelDepth + 1) * BatchSize = BatchSize * ChannelDepth + BatchSize
          /\ BatchSize * ChannelDepth \in Nat /\ BatchSize * Len(channel) \in Nat
      BY <2>1, <2>2
    <3> QED
      BY <2>1, <3>2, <3>3, <3>4, <3>5, <3>6, <3>7
  <2>4. PICK s \in Seq(Item), rest \in Seq(Item) : Settled(s, rest)
    BY DEF WriterInv
  <2>5. file \o buf = File!Encoding(s) /\ rest = Backlog
    BY <2>4 DEF Settled
  <2> QED
    BY <2>3, <2>4, <2>5, EncodedContinues
<1> QED
  BY <1>1, WriterInvariant, PTL

----------------------------------------------------------------------------
(* The two threads implement the file. *)

\* A prefix is what TraceFile writes.
LEMMA PrefixIsCut ==
    ASSUME NEW f \in Seq(Token), NEW g \in Seq(Token), NEW e \in Seq(Token),
           IsPrefix(f, e), IsPrefix(g, f)
    PROVE  \E n \in Len(g) .. Len(e) : f = SubSeq(e, 1, n)
<1>1. Len(f) \in Nat /\ Len(g) \in Nat /\ Len(e) \in Nat /\ Len(f) <= Len(e) /\ Len(g) <= Len(f)
  BY LenProperties DEF IsPrefix
<1>2. SubSeq(f, 1, Len(f)) = SubSeq(e, 1, Len(f)) /\ SubSeq(f, 1, Len(f)) = f
  BY SubSeqFull DEF IsPrefix
<1>3. Len(f) \in Len(g) .. Len(e)
  BY <1>1
<1> QED
  BY <1>2, <1>3

\* A step of the writer thread that adds to the file is a Write of it.
LEMMA WriteStep ==
    ASSUME WriterInv, FileHasNoGap', file' \in Seq(Token), IsPrefix(file, file'),
           writer = "recv", pushed' = pushed, result' = result
    PROVE  File!Write
<1>1. /\ file \in Seq(Token) /\ pushed \in Seq(Item) /\ result = None
  BY DEF WriterInv, TypeOK, Control
<1>2. Encoded \in Seq(Token) /\ IsPrefix(file', Encoded)
  <2>1. Encoded' = Encoded
    BY DEF Encoded
  <2> QED
    BY <1>1, <2>1, EncodingType DEF Encoded, FileHasNoGap
<1>3. \E n \in Len(file) .. Len(Encoded) : file' = SubSeq(Encoded, 1, n)
  BY <1>1, <1>2, PrefixIsCut
<1>4. result.tag = "none" /\ result'.tag = result.tag
  BY <1>1 DEF None
<1> QED
  BY <1>3, <1>4 DEF File!Write, Encoded

\* Every step of the two threads is a step of the file, or none.
LEMMA StepOfFile ==
    ASSUME WriterInv, WriterInv', [Next]_vars
    PROVE  [File!Next]_<<pushed, file, result.tag>>
<1>0. /\ file \in Seq(Token) /\ buf \in Seq(Token) /\ file' \in Seq(Token) /\ channel \in Seq(Seq(Item))
      /\ Control /\ FileHasNoGap' /\ OkMeansComplete'
  <2>1. FileHasNoGap' /\ OkMeansComplete'
    BY NoGap, CompleteIfOk, PTL
  <2> QED
    BY <2>1 DEF WriterInv, TypeOK
<1>1. CASE UNCHANGED <<pushed, file, result>>
  BY <1>1
<1>2. ASSUME NEW x \in Item, Push(x) PROVE [File!Next]_<<pushed, file, result.tag>>
  <2>1. phase = "trace" /\ pushed' = Append(pushed, x) /\ file' = file /\ result' = result /\ result = None
    BY <1>0, <1>2 DEF Push, disk, Control
  <2>2. result.tag = "none" /\ result'.tag = result.tag
    BY <2>1 DEF None
  <2>3. File!IsPrefix(file, File!Encoding(pushed'))
    <3>1. IsPrefix(file', File!Encoding(pushed'))
      BY <1>0 DEF FileHasNoGap, Encoded
    <3> QED
      BY <2>1, <3>1 DEF File!IsPrefix, IsPrefix
  <2>4. File!Push(x)
    BY <2>1, <2>2, <2>3 DEF File!Push
  <2> QED
    BY <2>4 DEF File!Next
<1>3. CASE Join
  <2>1. /\ phase = "join" /\ pushed' = pushed /\ file' = file /\ result = None
        /\ result' = (IF writer = "ok" THEN Ok(total_items) ELSE Err)
    BY <1>0, <1>3 DEF Join, collector, disk, Control
  <2>2. result.tag = "none" /\ result'.tag \in {"ok", "err"}
    BY <2>1 DEF None, Ok, Err
  <2>3. result'.tag = "ok" => file = File!Encoding(pushed)
    BY <1>0, <2>1 DEF OkMeansComplete, Encoded
  <2>4. File!Return
    BY <2>1, <2>2, <2>3 DEF File!Return
  <2> QED
    BY <2>4 DEF File!Next
<1>4. CASE WriteBatch \/ WriteBatchFails
  <2> DEFINE tokens == buf \o File!Encode(Head(channel))
  <2>1. writer = "recv" /\ channel # <<>> /\ pushed' = pushed /\ result' = result
    BY <1>4 DEF WriteBatch, WriteBatchFails, collector
  <2>2. PICK n \in 0 .. Len(tokens) : file' = file \o SubSeq(tokens, 1, n)
    BY <1>4 DEF WriteBatch, WriteBatchFails, Spill
  <2>3. tokens \in Seq(Token)
    <3>1. Head(channel) \in Seq(Item)
      BY <1>0, <2>1, HeadAndTail, Zenon
    <3>2. File!Encode(Head(channel)) \in Seq(Token)
      BY <3>1, EncodeType
    <3> QED
      BY <1>0, <3>2, ConcatProperties, Zenon
  <2> HIDE DEF tokens
  <2>4. IsPrefix(file, file')
    BY <1>0, <2>2, <2>3, SpillFacts
  <2>5. File!Write
    BY <1>0, <2>1, <2>4, WriteStep
  <2> QED
    BY <2>5 DEF File!Next
<1>5. CASE FlushAndFinish
  <2>1. writer = "recv" /\ pushed' = pushed /\ result' = result
    BY <1>5 DEF FlushAndFinish, collector
  <2>2. IsPrefix(file, file')
    <3>1. CASE file' = file \o buf
      BY <1>0, <3>1, PrefixFacts
    <3>2. CASE \E n \in 0 .. Len(buf) : file' = file \o SubSeq(buf, 1, n)
      BY <1>0, <3>2, SpillFacts
    <3> QED
      BY <1>5, <3>1, <3>2 DEF FlushAndFinish
  <2>3. File!Write
    BY <1>0, <2>1, <2>2, WriteStep
  <2> QED
    BY <2>3 DEF File!Next
<1>6. CASE SendBatch \/ SendBatchFails \/ Finalize \/ Create \/ Abandon \/ Exit \/ UNCHANGED vars
  <2>1. UNCHANGED <<pushed, file, result>>
    BY <1>6 DEF SendBatch, SendBatchFails, Finalize, Create, Abandon, Exit, vars, collector, disk
  <2> QED
    BY <1>1, <2>1
<1> QED
  BY <1>2, <1>3, <1>4, <1>5, <1>6 DEF Next, Collector, Writer

\* Every behaviour of the two threads, with all their failures, is one of the
\* file that trace_to_file promises.
THEOREM ThreadsImplementFile == Spec => WritesTraceFile
<1>1. Init => File!Init
  BY DEF Init, File!Init, None
<1>2. WriterInv /\ WriterInv' /\ [Next]_vars => [File!Next]_<<pushed, file, result.tag>>
  BY StepOfFile
<1> QED
  BY <1>1, <1>2, WriterInvariant, PTL DEF Spec, WritesTraceFile, File!Spec

=============================================================================
