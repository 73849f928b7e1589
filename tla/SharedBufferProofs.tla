------------------------- MODULE SharedBufferProofs -------------------------
(***************************************************************************)
(* Proofs, for every ring size, every set of readers and every bound, of   *)
(* what SharedBuffer's runs check on a small instance.                     *)
(*                                                                         *)
(* RingStamped is inductive together with the types.  What readers get     *)
(* needs one more fact, Anchored: the number of steps from a reader's      *)
(* position to Buffer never exceeds the number of chunks written since the *)
(* reader took that position, and equals it until the reader is lapped.    *)
(* The positions themselves do not say that: after a lap they look the     *)
(* same.                                                                   *)
(***************************************************************************)
EXTENDS SharedBuffer, TLAPS

\* How each reader's position relates to the history of writes.
Anchored ==
    \A r \in Readers : rpc[r] # "out" =>
        /\ last[r].upto <= anchor[r]
        /\ anchor[r] <= writeSeq
        /\ Ahead(from[r]) <= writeSeq - anchor[r]
        /\ writeSeq - anchor[r] < N => writeSeq - anchor[r] = Ahead(from[r])

\* The inductive invariant.
IInv == TypeOK /\ RingStamped /\ Anchored /\ InOrder /\ UnlappedComplete

-----------------------------------------------------------------------------
(* The ring.                                                               *)

\* The arithmetic of ring positions stays inside the ring.
LEMMA PositionTypes ==
    ASSUME NEW i \in Positions, Buffer \in Positions
    PROVE  /\ NextOf(i) \in Positions
           /\ PrevOf(i) \in Positions
           /\ Ahead(i) \in Positions
BY RingSize DEF NextOf, PrevOf, Ahead, Positions

\* The j-th chunk copied from position i is the one written Ahead(i) - j chunks ago.
LEMMA SpanStamp ==
    ASSUME NEW i \in Positions, Buffer \in Positions, writeSeq \in Nat,
           NEW j \in 1 .. Ahead(i)
    PROVE  /\ Step(i, j - 1) \in Positions
           /\ Stamp(Step(i, j - 1)) = writeSeq - Ahead(i) + j
BY RingSize DEF Step, Stamp, Ahead, Positions

\* What ReadChunks copies is a sequence of chunks, one per position passed.
LEMMA SpanType ==
    ASSUME NEW i \in Positions, TypeOK
    PROVE  /\ Span(i) \in Seq(Chunk)
           /\ Len(Span(i)) = Ahead(i)
           /\ DOMAIN Span(i) = 1 .. Ahead(i)
           /\ \A j \in 1 .. Ahead(i) : Span(i)[j] = slot[Step(i, j - 1)]
<1>1. Ahead(i) \in Nat
  BY PositionTypes DEF TypeOK, Positions
<1>2. \A j \in 1 .. Ahead(i) : slot[Step(i, j - 1)] \in Chunk
  BY SpanStamp DEF TypeOK
<1>3. Span(i) \in [1 .. Ahead(i) -> Chunk]
  BY <1>2 DEF Span
<1> QED
  BY <1>1, <1>3 DEF Span

\* A slot that holds a chunk is less than one ring old, so the staleness check of
\* ReadChunks fires on cleared or never written slots only.
LEMMA FilledIsFresh ==
    ASSUME NEW i \in Positions, TypeOK, RingStamped, slot[i] # EmptyChunk
    PROVE  ~IsStale(i)
<1>1. slot[i].seq = Stamp(i)
  BY DEF RingStamped
<1>2. Stamp(i) > writeSeq - N
  BY RingSize DEF Stamp, TypeOK, Positions
<1>3. writeSeq \in Nat /\ N \in Nat
  BY RingSize DEF TypeOK
<1>4. Stamp(i) \in Int
  BY <1>3 DEF Stamp, TypeOK, Positions
<1> QED
  BY <1>1, <1>2, <1>3, <1>4 DEF IsStale

-----------------------------------------------------------------------------
(* Each step preserves the invariant.                                      *)

\* Readers' reports are judged by last alone.
LEMMA ReportsKept ==
    ASSUME InOrder, UnlappedComplete, UNCHANGED last
    PROVE  InOrder' /\ UnlappedComplete'
BY DEF InOrder, UnlappedComplete

\* A report of nothing read is in order and complete.
LEMMA NothingRead ==
    ASSUME NEW n \in Int
    PROVE  /\ NoReport(n) \in Reports
           /\ NoReport(n).upto = n /\ NoReport(n).after = n
           /\ Len(NoReport(n).got) = 0 /\ DOMAIN NoReport(n).got = {}
<1>1. <<>> \in Seq(Chunk) /\ DOMAIN <<>> = {} /\ Len(<<>>) = 0
  OBVIOUS
<1> QED
  BY <1>1 DEF NoReport, Reports

\* Replacing reports by reports of nothing read keeps what holds of reports.
LEMMA ReportsForgotten ==
    ASSUME InOrder, UnlappedComplete,
           \A q \in Readers : last'[q] = last[q] \/ \E n \in Int : last'[q] = NoReport(n)
    PROVE  InOrder' /\ UnlappedComplete'
<1>1. InOrder'
  BY NothingRead DEF InOrder
<1>2. UnlappedComplete'
  <2> SUFFICES ASSUME NEW q \in Readers, last'[q].upto - last'[q].after < N
               PROVE  /\ Len(last'[q].got) = last'[q].upto - last'[q].after
                      /\ \A j \in DOMAIN last'[q].got :
                            last'[q].got[j] # EmptyChunk => last'[q].got[j].seq = last'[q].after + j
    BY DEF UnlappedComplete, EmptyChunk
  <2>1. CASE last'[q] = last[q]
    BY <2>1 DEF UnlappedComplete
  <2>2. ASSUME NEW n \in Int, last'[q] = NoReport(n)
        PROVE  /\ Len(last'[q].got) = last'[q].upto - last'[q].after
               /\ DOMAIN last'[q].got = {}
    BY <2>2, NothingRead
  <2> QED
    BY <2>1, <2>2
<1> QED
  BY <1>1, <1>2

\* The initial ring is empty and every reader is outside.
LEMMA InitInv == Init => IInv
<1> SUFFICES ASSUME Init PROVE IInv
  OBVIOUS
<1>1. TypeOK
  BY NothingRead, RingSize DEF Init, TypeOK, Positions, States, Chunk, EmptyChunk, Values
<1>2. RingStamped
  BY DEF Init, RingStamped
<1>3. Anchored
  BY DEF Init, Anchored
<1>4. InOrder
  BY NothingRead DEF Init, InOrder
<1>5. UnlappedComplete
  <2>1. \A r \in Readers : last[r] = NoReport(0)
    BY DEF Init
  <2> QED
    BY <2>1, NothingRead DEF UnlappedComplete
<1> QED
  BY <1>1, <1>2, <1>3, <1>4, <1>5 DEF IInv

\* Writing a chunk moves writeSeq and Buffer together.
LEMMA PutChunkInv ==
    ASSUME IInv, NEW v \in Values \ {"none"}, PutChunk(v), UNCHANGED readerVars
    PROVE  IInv'
<1> USE RingSize DEF IInv
<1>1. /\ writeSeq' = writeSeq + 1 /\ Buffer' = NextOf(Buffer)
      /\ slot' = [slot EXCEPT ![Buffer] = [seq |-> writeSeq + 1, value |-> v]]
      /\ UNCHANGED <<rpc, from, anchor, last>>
  BY DEF PutChunk, readerVars
<1>2. Buffer \in Positions /\ writeSeq \in Nat /\ N \in Nat \ {0}
  BY DEF TypeOK
<1>3. TypeOK'
  <2>1. Buffer' \in Positions
    BY <1>1, <1>2, PositionTypes
  <2>2. slot' \in [Positions -> Chunk]
    BY <1>1, <1>2 DEF TypeOK, Chunk
  <2>3. state' \in States
    BY DEF PutChunk, States, TypeOK
  <2> QED
    BY <1>1, <1>2, <2>1, <2>2, <2>3 DEF TypeOK
<1>4. \A i \in Positions : i # Buffer => Stamp(i)' = Stamp(i)
  BY <1>1, <1>2 DEF Stamp, NextOf, Positions
<1>5. RingStamped'
  <2> SUFFICES ASSUME NEW i \in Positions
               PROVE  (\/ slot[i] = EmptyChunk
                       \/ slot[i].seq = Stamp(i) /\ slot[i].seq > 0 /\ slot[i].value # "none")'
    BY DEF RingStamped
  <2>1. CASE i = Buffer
    <3>1. slot'[i] = [seq |-> writeSeq + 1, value |-> v]
      BY <1>1, <1>2, <2>1 DEF TypeOK
    <3>2. Stamp(i)' = writeSeq + 1
      BY <1>1, <1>2, <2>1 DEF Stamp, NextOf, Positions
    <3> QED
      BY <1>2, <3>1, <3>2
  <2>2. CASE i # Buffer
    <3>1. slot'[i] = slot[i]
      BY <1>1, <1>2, <2>2 DEF TypeOK
    <3> QED
      BY <1>4, <2>2, <3>1 DEF RingStamped, EmptyChunk
  <2> QED
    BY <2>1, <2>2
<1>6. Anchored'
  <2> SUFFICES ASSUME NEW r \in Readers, rpc[r] # "out"
               PROVE  (/\ last[r].upto <= anchor[r]
                       /\ anchor[r] <= writeSeq
                       /\ Ahead(from[r]) <= writeSeq - anchor[r]
                       /\ writeSeq - anchor[r] < N => writeSeq - anchor[r] = Ahead(from[r]))'
    BY <1>1 DEF Anchored
  <2>1. from[r] \in Positions /\ anchor[r] \in Int
    BY DEF TypeOK
  <2>2. Ahead(from[r])' = IF Ahead(from[r]) = N - 1 THEN 0 ELSE Ahead(from[r]) + 1
    BY <1>1, <1>2, <2>1 DEF Ahead, NextOf, Positions
  <2>3. Ahead(from[r]) \in Positions
    BY <1>2, <2>1, PositionTypes
  <2>4. /\ last[r].upto <= anchor[r] /\ anchor[r] <= writeSeq
        /\ Ahead(from[r]) <= writeSeq - anchor[r]
        /\ writeSeq - anchor[r] < N => writeSeq - anchor[r] = Ahead(from[r])
    BY DEF Anchored
  <2> QED
    BY <1>1, <1>2, <2>1, <2>2, <2>3, <2>4 DEF Positions
<1>7. InOrder' /\ UnlappedComplete'
  BY <1>1, ReportsKept
<1> QED
  BY <1>3, <1>5, <1>6, <1>7

\* Clearing leaves writeSeq and Buffer, hence every reader's anchor, as they were.
LEMMA ClearBufferInv ==
    ASSUME IInv, ClearBuffer
    PROVE  IInv'
<1>1. TypeOK'
  BY DEF IInv, TypeOK, ClearBuffer, readerVars, EmptyChunk, Chunk, Values
<1>2. RingStamped'
  BY DEF RingStamped, ClearBuffer, EmptyChunk
<1>3. Anchored'
  BY DEF IInv, Anchored, Ahead, ClearBuffer, readerVars
<1>4. InOrder' /\ UnlappedComplete'
  BY ReportsKept DEF IInv, ClearBuffer, readerVars
<1> QED
  BY <1>1, <1>2, <1>3, <1>4 DEF IInv

\* A step that changes only state and program counters preserves the invariant.
LEMMA ControlInv ==
    ASSUME IInv, UNCHANGED <<slot, Buffer, writeSeq, from, anchor, last>>,
           state' \in States,
           rpc' \in [Readers -> {"out", "read", "unlocked", "waiting", "woken", "deliver"}],
           \A r \in Readers : rpc[r] = "out" => rpc'[r] = "out"
    PROVE  IInv'
<1>1. TypeOK'
  BY DEF IInv, TypeOK
<1>2. RingStamped'
  BY DEF IInv, RingStamped, Stamp, EmptyChunk
<1>3. Anchored'
  BY DEF IInv, Anchored, Ahead
<1>4. InOrder' /\ UnlappedComplete'
  BY ReportsKept DEF IInv
<1> QED
  BY <1>1, <1>2, <1>3, <1>4 DEF IInv

\* A joining reader stands one chunk behind the writer.
LEMMA JoinInv ==
    ASSUME IInv, NEW r \in Readers, JoinReader(r)
    PROVE  IInv'
<1> USE RingSize DEF IInv
<1>1. Buffer \in Positions /\ writeSeq \in Nat /\ N \in Nat \ {0}
  BY DEF TypeOK
<1>2. PrevOf(Buffer) \in Positions
  BY <1>1, PositionTypes
<1>3. writeSeq - 1 \in Int /\ NoReport(writeSeq - 1) \in Reports
      /\ NoReport(writeSeq - 1).upto = writeSeq - 1
  BY <1>1, NothingRead
<1>4. TypeOK'
  BY <1>1, <1>2, <1>3 DEF TypeOK, JoinReader, ringVars
<1>5. RingStamped'
  BY DEF RingStamped, Stamp, EmptyChunk, JoinReader, ringVars
<1>6. Anchored'
  <2>1. Ahead(PrevOf(Buffer)) = IF N = 1 THEN 0 ELSE 1
    BY <1>1 DEF Ahead, PrevOf, Positions
  <2>2. \A p \in Positions : Ahead(p)' = Ahead(p)
    BY DEF Ahead, JoinReader, ringVars
  <2> QED
    BY <1>1, <1>2, <1>3, <2>1, <2>2 DEF Anchored, JoinReader, ringVars, TypeOK
<1>7. InOrder' /\ UnlappedComplete'
  BY <1>3, ReportsForgotten DEF JoinReader, TypeOK
<1> QED
  BY <1>4, <1>5, <1>6, <1>7

\* A reader that goes round its loop keeps its position; one that leaves has none.
LEMMA ForgetInv ==
    ASSUME IInv, NEW r \in Readers, Continue(r) \/ LeaveReader(r)
    PROVE  IInv'
<1> USE DEF IInv
<1>1. UNCHANGED <<slot, Buffer, writeSeq, state>>
  BY DEF Continue, LeaveReader, ringVars
<1>2. last[r].upto \in Int /\ 0 \in Positions
  BY RingSize DEF TypeOK, Reports, Positions
<1>3. /\ NoReport(last[r].upto) \in Reports /\ NoReport(0) \in Reports
      /\ NoReport(last[r].upto).upto = last[r].upto
  BY <1>2, NothingRead
<1>4. TypeOK'
  BY <1>1, <1>2, <1>3 DEF TypeOK, Continue, LeaveReader
<1>5. RingStamped'
  BY <1>1 DEF RingStamped, Stamp, EmptyChunk
<1>6. Anchored'
  <2>1. \A p \in Positions : Ahead(p)' = Ahead(p)
    BY <1>1 DEF Ahead
  <2> QED
    BY <1>1, <1>3, <2>1 DEF Anchored, Continue, LeaveReader, TypeOK
<1>7. InOrder' /\ UnlappedComplete'
  BY <1>2, ReportsForgotten DEF Continue, LeaveReader, TypeOK
<1> QED
  BY <1>4, <1>5, <1>6, <1>7

\* Where a reader goes on from: its own position, or Buffer when the check fired.
GoodStart(i, a) ==
    /\ i \in Positions /\ a \in Int /\ a <= writeSeq
    /\ Ahead(i) <= writeSeq - a
    /\ writeSeq - a < N => writeSeq - a = Ahead(i)

\* Both choices of ReadChunks are good starting points.
LEMMA StartIsGood ==
    ASSUME IInv, NEW r \in Readers, rpc[r] # "out"
    PROVE  /\ GoodStart(from[r], anchor[r]) /\ last[r].upto <= anchor[r]
           /\ GoodStart(StartOf(r), AnchorOf(r)) /\ last[r].upto <= AnchorOf(r)
<1>1. GoodStart(from[r], anchor[r]) /\ last[r].upto <= anchor[r]
  BY DEF IInv, Anchored, GoodStart, TypeOK
<1>2. Buffer \in Positions /\ writeSeq \in Nat /\ Ahead(Buffer) = 0
  BY RingSize DEF IInv, TypeOK, Ahead, Positions
<1>3. last[r].upto \in Int /\ anchor[r] \in Int /\ anchor[r] <= writeSeq
  BY DEF IInv, TypeOK, Reports, Anchored
<1> QED
  BY <1>1, <1>2, <1>3, RingSize DEF StartOf, AnchorOf, GoodStart

\* The copying loop returns the chunks since a good starting point, oldest first.
LEMMA CollectInv ==
    ASSUME IInv, NEW r \in Readers, NEW i, NEW a, GoodStart(i, a), Collect(r, i, a),
           UNCHANGED <<ringVars, state>>
    PROVE  IInv'
<1> USE DEF IInv
<1>1. /\ UNCHANGED <<slot, Buffer, writeSeq, state>>
      /\ last' = [last EXCEPT ![r] = [after |-> a, upto |-> writeSeq, got |-> Span(i)]]
      /\ from' = [from EXCEPT ![r] = Buffer] /\ anchor' = [anchor EXCEPT ![r] = writeSeq]
      /\ rpc' = [rpc EXCEPT ![r] = "deliver"]
  BY DEF Collect, ringVars
<1>2. /\ i \in Positions /\ a \in Int /\ a <= writeSeq /\ Ahead(i) <= writeSeq - a
      /\ writeSeq - a < N => writeSeq - a = Ahead(i)
  BY DEF GoodStart
<1>3. /\ Span(i) \in Seq(Chunk) /\ Len(Span(i)) = Ahead(i) /\ DOMAIN Span(i) = 1 .. Ahead(i)
      /\ \A j \in 1 .. Ahead(i) : Span(i)[j] = slot[Step(i, j - 1)]
  BY <1>2, SpanType
<1>4. Buffer \in Positions /\ writeSeq \in Nat /\ N \in Nat \ {0} /\ Ahead(i) \in Nat
  BY <1>2, RingSize, PositionTypes DEF TypeOK, Positions
<1>5. \A j \in 1 .. Ahead(i) : Span(i)[j] # EmptyChunk => Span(i)[j].seq = writeSeq - Ahead(i) + j
  BY <1>2, <1>3, <1>4, SpanStamp DEF RingStamped
<1>6. TypeOK'
  <2>1. [after |-> a, upto |-> writeSeq, got |-> Span(i)] \in Reports
    BY <1>2, <1>3, <1>4 DEF Reports
  <2> QED
    BY <1>1, <1>4, <2>1 DEF TypeOK
<1>7. RingStamped'
  BY <1>1 DEF RingStamped, Stamp, EmptyChunk
<1>8. Anchored'
  <2>1. Ahead(Buffer) = 0
    BY <1>4 DEF Ahead, Positions
  <2>2. \A p \in Positions : Ahead(p)' = Ahead(p)
    BY <1>1 DEF Ahead
  <2> QED
    BY <1>1, <1>4, <2>1, <2>2 DEF Anchored, TypeOK
<1>9. /\ last'[r].after = a /\ last'[r].upto = writeSeq /\ last'[r].got = Span(i)
      /\ \A q \in Readers : q # r => last'[q] = last[q]
  BY <1>1 DEF TypeOK
<1>10. InOrder'
  <2>1. \A j \in 1 .. Ahead(i) : Span(i)[j].value # "none" =>
            Span(i)[j].seq = writeSeq - Ahead(i) + j
    BY <1>5 DEF EmptyChunk
  <2>2. \A j \in 1 .. Ahead(i) : Span(i)[j].value # "none" =>
            a < Span(i)[j].seq /\ Span(i)[j].seq <= writeSeq
    BY <1>2, <1>4, <2>1
  <2>3. \A j, k \in 1 .. Ahead(i) :
            j < k /\ Span(i)[j].value # "none" /\ Span(i)[k].value # "none"
               => Span(i)[j].seq < Span(i)[k].seq
    BY <1>4, <2>1
  <2> QED
    BY <1>3, <1>9, <2>2, <2>3 DEF InOrder
<1>11. UnlappedComplete'
  <2>1. writeSeq - a < N => \A j \in 1 .. Ahead(i) : Span(i)[j] # EmptyChunk => Span(i)[j].seq = a + j
    BY <1>2, <1>4, <1>5
  <2> SUFFICES ASSUME NEW q \in Readers, last'[q].upto - last'[q].after < N
               PROVE  /\ Len(last'[q].got) = last'[q].upto - last'[q].after
                      /\ \A j \in DOMAIN last'[q].got :
                            last'[q].got[j] # EmptyChunk => last'[q].got[j].seq = last'[q].after + j
    BY DEF UnlappedComplete, EmptyChunk
  <2>2. CASE q = r
    BY <1>2, <1>3, <1>9, <2>1, <2>2
  <2>3. CASE q # r
    BY <1>9, <2>3 DEF UnlappedComplete
  <2> QED
    BY <2>2, <2>3
<1> QED
  BY <1>6, <1>7, <1>8, <1>10, <1>11

\* A reader that waits keeps a good starting point.
LEMMA BlockInv ==
    ASSUME IInv, NEW r \in Readers, NEW i, NEW a, GoodStart(i, a), last[r].upto <= a,
           rpc[r] # "out", Block(r, i, a), UNCHANGED <<ringVars, state>>
    PROVE  IInv'
<1>1. /\ UNCHANGED <<slot, Buffer, writeSeq, state, last>>
      /\ from' = [from EXCEPT ![r] = i] /\ anchor' = [anchor EXCEPT ![r] = a]
      /\ rpc' = [rpc EXCEPT ![r] = "unlocked"]
  BY DEF Block, ringVars
<1>2. TypeOK'
  BY <1>1 DEF IInv, TypeOK, GoodStart
<1>3. RingStamped'
  BY <1>1 DEF IInv, RingStamped, Stamp, EmptyChunk
<1>4. Anchored'
  <2>1. \A p \in Positions : Ahead(p)' = Ahead(p)
    BY <1>1 DEF Ahead
  <2> QED
    BY <1>1, <2>1 DEF IInv, Anchored, TypeOK, GoodStart
<1>5. InOrder' /\ UnlappedComplete'
  BY <1>1, ReportsKept DEF IInv
<1> QED
  BY <1>2, <1>3, <1>4, <1>5 DEF IInv

\* Every step of the coordinator preserves the invariant.
LEMMA NextInv == IInv /\ [Next]_bufferVars => IInv'
<1> SUFFICES ASSUME IInv, [Next]_bufferVars PROVE IInv'
  OBVIOUS
<1>0. /\ rpc \in [Readers -> {"out", "read", "unlocked", "waiting", "woken", "deliver"}]
      /\ state \in States
  BY DEF IInv, TypeOK
<1>1. CASE UNCHANGED bufferVars
  BY <1>0, <1>1, ControlInv DEF bufferVars
<1>2. ASSUME NEW v \in Values \ {"none"}, Write(v) PROVE IInv'
  <2>1. CASE PutChunk(v)
    BY <1>2, <2>1, PutChunkInv DEF Write
  <2>2. CASE DropChunk
    BY <1>0, <1>2, <2>2, ControlInv DEF Write, DropChunk, ringVars, readerVars
  <2> QED
    BY <1>2, <2>1, <2>2 DEF Write
<1>3. CASE ClearBuffer
  BY <1>3, ClearBufferInv
<1>4. CASE notifySubscribers
  BY <1>0, <1>4, ControlInv DEF notifySubscribers, ringVars
<1>5. ASSUME NEW s \in States, SetState(s) PROVE IInv'
  BY <1>0, <1>5, ControlInv DEF SetState, ringVars, readerVars
<1>6. ASSUME NEW r \in Readers, ReaderStep(r) PROVE IInv'
  <2>1. CASE JoinReader(r)
    BY <2>1, JoinInv
  <2>2. CASE ReadChunks(r)
    BY <2>2, StartIsGood, CollectInv, BlockInv DEF ReadChunks
  <2>3. CASE subscribe(r)
    BY <1>0, <2>3, ControlInv DEF subscribe, ringVars
  <2>4. CASE Resume(r)
    BY <2>4, StartIsGood, CollectInv, BlockInv DEF Resume
  <2>5. CASE Continue(r)
    BY <2>5, ForgetInv
  <2>6. CASE LeaveReader(r)
    BY <2>6, ForgetInv
  <2> QED
    BY <1>6, <2>1, <2>2, <2>3, <2>4, <2>5, <2>6 DEF ReaderStep
<1> QED
  BY <1>1, <1>2, <1>3, <1>4, <1>5, <1>6 DEF Next, WriterStep

-----------------------------------------------------------------------------
(* What a lapped reader loses.                                             *)

\* A multiple of the ring size leaves no remainder.
LEMMA MultipleOfRing ==
    ASSUME NEW n \in Nat \ {0}, NEW k \in Int
    PROVE  (k * n) % n = 0
OBVIOUS

\* Going once more round the ring keeps a distance a multiple of the ring size.
LEMMA NextMultiple ==
    ASSUME NEW n \in Nat \ {0}, NEW x \in Int, x % n = 0
    PROVE  (x + n) % n = 0
<1>1. x = n * (x \div n) /\ x \div n \in Int
  OBVIOUS
<1>2. PICK k \in Int : x = n * k
  BY <1>1
<1> DEFINE m == k + 1
<1>3. x + n = m * n /\ m \in Int
  BY <1>2
<1> HIDE DEF m
<1>4. (m * n) % n = 0
  BY <1>3, MultipleOfRing
<1> QED
  BY <1>3, <1>4

\* Position i is a whole number of rings behind what a reader at number a missed.
WholeLaps(i, a) == (writeSeq - a - Ahead(i)) % N = 0

\* What was written since a reader took its position, less what it can still read
\* from there, is a whole number of rings.
Lapped == \A r \in Readers : rpc[r] # "out" => WholeLaps(from[r], anchor[r])

\* The reader at the writer's own position has missed nothing.
LEMMA NothingMissed ==
    ASSUME TypeOK
    PROVE  0 % N = 0 /\ Ahead(Buffer) = 0 /\ WholeLaps(Buffer, writeSeq)
<1>1. 0 % N = 0
  BY RingSize
<1>2. Ahead(Buffer) = 0 /\ writeSeq - writeSeq - 0 = 0
  BY DEF TypeOK, Ahead, Positions
<1> QED
  BY <1>1, <1>2 DEF WholeLaps

\* Both choices of ReadChunks stand a whole number of rings behind.
LEMMA StartIsLapped ==
    ASSUME TypeOK, Lapped, NEW r \in Readers, rpc[r] # "out"
    PROVE  WholeLaps(from[r], anchor[r]) /\ WholeLaps(StartOf(r), AnchorOf(r))
BY NothingMissed DEF Lapped, StartOf, AnchorOf

\* Reports of nothing read lose nothing.
LEMMA LossForgotten ==
    ASSUME LossIsWholeRings,
           \A q \in Readers : last'[q] = last[q] \/ \E n \in Int : last'[q] = NoReport(n)
    PROVE  LossIsWholeRings'
<1>1. ASSUME NEW n \in Int
      PROVE  /\ (NoReport(n).upto - NoReport(n).after - Len(NoReport(n).got)) % N = 0
             /\ Len(NoReport(n).got) < N
  <2>1. /\ NoReport(n).upto - NoReport(n).after - Len(NoReport(n).got) = 0
        /\ Len(NoReport(n).got) = 0
    BY NothingRead
  <2>2. 0 % N = 0 /\ 0 < N
    BY RingSize
  <2> QED
    BY <2>1, <2>2
<1> QED
  BY <1>1 DEF LossIsWholeRings

\* Every chunk written brings Buffer one step nearer to the reader from behind, or
\* past it, once round the ring.
LEMMA PutChunkLaps ==
    ASSUME TypeOK, Lapped, NEW v, PutChunk(v), UNCHANGED readerVars
    PROVE  Lapped'
<1> SUFFICES ASSUME NEW r \in Readers, rpc[r] # "out"
             PROVE  WholeLaps(from[r], anchor[r])'
  BY DEF Lapped, readerVars
<1> DEFINE x == writeSeq - anchor[r] - Ahead(from[r])
<1>1. /\ from[r] \in Positions /\ anchor[r] \in Int /\ Buffer \in Positions /\ writeSeq \in Nat
      /\ writeSeq' = writeSeq + 1 /\ Buffer' = NextOf(Buffer)
      /\ from' = from /\ anchor' = anchor /\ N \in Nat \ {0}
  BY RingSize DEF TypeOK, PutChunk, readerVars
<1>2. Ahead(from[r])' = (IF Ahead(from[r]) = N - 1 THEN 0 ELSE Ahead(from[r]) + 1)
      /\ Ahead(from[r]) \in Int
  BY <1>1 DEF Ahead, NextOf, Positions
<1>3. x % N = 0 /\ x \in Int
  BY <1>1, <1>2 DEF Lapped, WholeLaps
<1>4. (writeSeq - anchor[r] - Ahead(from[r]))' \in {x, x + N}
  BY <1>1, <1>2
<1> HIDE DEF x
<1> QED
  BY <1>1, <1>3, <1>4, NextMultiple DEF WholeLaps

\* A joining reader stands one chunk behind: in a ring of one, a whole lap.
LEMMA JoinLaps ==
    ASSUME TypeOK, NEW r \in Readers, JoinReader(r)
    PROVE  WholeLaps(from[r], anchor[r])'
<1>1. /\ from'[r] = PrevOf(Buffer) /\ anchor'[r] = writeSeq - 1
      /\ Buffer \in Positions /\ writeSeq \in Nat /\ N \in Nat \ {0}
      /\ Buffer' = Buffer /\ writeSeq' = writeSeq
  BY RingSize DEF TypeOK, JoinReader, ringVars
<1>2. (writeSeq - anchor[r] - Ahead(from[r]))' = IF N = 1 THEN 0 + N ELSE 0
  BY <1>1 DEF Ahead, PrevOf, Positions
<1>3. 0 % N = 0 /\ (0 + N) % N = 0
  BY <1>1, NextMultiple
<1> QED
  BY <1>1, <1>2, <1>3 DEF WholeLaps

\* What ReadChunks did not copy is a whole number of rings.
LEMMA CollectLaps ==
    ASSUME IInv, Lapped, LossIsWholeRings, NEW r \in Readers, NEW i \in Positions, NEW a,
           WholeLaps(i, a), Collect(r, i, a), UNCHANGED <<ringVars, state>>
    PROVE  Lapped' /\ LossIsWholeRings'
<1>1. /\ Buffer' = Buffer /\ writeSeq' = writeSeq
      /\ last' = [last EXCEPT ![r] = [after |-> a, upto |-> writeSeq, got |-> Span(i)]]
      /\ from' = [from EXCEPT ![r] = Buffer] /\ anchor' = [anchor EXCEPT ![r] = writeSeq]
      /\ rpc' = [rpc EXCEPT ![r] = "deliver"]
  BY DEF Collect, ringVars
<1>2. Lapped'
  BY <1>1, NothingMissed DEF Lapped, WholeLaps, Ahead, IInv, TypeOK
<1>3. Len(Span(i)) = Ahead(i) /\ Ahead(i) < N
  <2>1. Ahead(i) \in Positions /\ Len(Span(i)) = Ahead(i)
    BY SpanType, PositionTypes DEF IInv, TypeOK
  <2> QED
    BY <2>1, RingSize DEF Positions
<1>4. LossIsWholeRings'
  BY <1>1, <1>3 DEF LossIsWholeRings, WholeLaps, IInv, TypeOK
<1> QED
  BY <1>2, <1>4

\* A waiting reader keeps the number its position stands for.
LEMMA BlockLaps ==
    ASSUME IInv, Lapped, LossIsWholeRings, NEW r \in Readers, NEW i, NEW a,
           rpc[r] # "out", WholeLaps(i, a), Block(r, i, a), UNCHANGED <<ringVars, state>>
    PROVE  Lapped' /\ LossIsWholeRings'
BY DEF Block, Lapped, LossIsWholeRings, WholeLaps, Ahead, ringVars, IInv, TypeOK

\* Every step of the coordinator keeps the losses whole.
LEMMA LapsInv ==
    IInv /\ Lapped /\ LossIsWholeRings /\ [Next]_bufferVars => Lapped' /\ LossIsWholeRings'
<1> SUFFICES ASSUME IInv, Lapped, LossIsWholeRings, [Next]_bufferVars
             PROVE  Lapped' /\ LossIsWholeRings'
  OBVIOUS
<1>0. /\ rpc \in [Readers -> {"out", "read", "unlocked", "waiting", "woken", "deliver"}]
      /\ TypeOK
  BY DEF IInv, TypeOK
<1>1. ASSUME UNCHANGED <<Buffer, writeSeq, from, anchor, last>>,
             \A r \in Readers : rpc[r] = "out" => rpc'[r] = "out"
      PROVE  Lapped' /\ LossIsWholeRings'
  BY <1>1 DEF Lapped, LossIsWholeRings, WholeLaps, Ahead
<1>2. CASE UNCHANGED bufferVars
  BY <1>1, <1>2 DEF bufferVars
<1>3. ASSUME NEW v \in Values \ {"none"}, Write(v) PROVE Lapped' /\ LossIsWholeRings'
  <2>1. CASE PutChunk(v)
    <3>1. LossIsWholeRings'
      BY <1>3 DEF Write, readerVars, LossIsWholeRings
    <3> QED
      BY <1>0, <1>3, <2>1, <3>1, PutChunkLaps DEF Write
  <2>2. CASE DropChunk
    BY <1>1, <1>3, <2>2 DEF Write, DropChunk, ringVars, readerVars
  <2> QED
    BY <1>3, <2>1, <2>2 DEF Write
<1>4. CASE ClearBuffer
  BY <1>1, <1>4 DEF ClearBuffer, readerVars
<1>5. CASE notifySubscribers
  BY <1>0, <1>1, <1>5 DEF notifySubscribers, ringVars
<1>6. ASSUME NEW s \in States, SetState(s) PROVE Lapped' /\ LossIsWholeRings'
  BY <1>1, <1>6 DEF SetState, ringVars, readerVars
<1>7. ASSUME NEW r \in Readers, ReaderStep(r) PROVE Lapped' /\ LossIsWholeRings'
  <2>0. from[r] \in Positions /\ Buffer \in Positions /\ StartOf(r) \in Positions
        /\ last[r].upto \in Int /\ writeSeq - 1 \in Int
    BY <1>0 DEF TypeOK, Reports, StartOf
  <2>1. CASE JoinReader(r)
    <3>1. LossIsWholeRings'
      BY <1>0, <2>0, <2>1, LossForgotten DEF JoinReader, TypeOK
    <3>2. Lapped'
      BY <1>0, <2>1, JoinLaps DEF Lapped, JoinReader, WholeLaps, Ahead, ringVars, TypeOK
    <3> QED
      BY <3>1, <3>2
  <2>2. CASE ReadChunks(r)
    BY <1>0, <2>0, <2>2, StartIsLapped, CollectLaps, BlockLaps DEF ReadChunks
  <2>3. CASE subscribe(r)
    BY <1>0, <1>1, <2>3 DEF subscribe, ringVars
  <2>4. CASE Resume(r)
    BY <1>0, <2>0, <2>4, StartIsLapped, CollectLaps, BlockLaps DEF Resume
  <2>5. CASE Continue(r) \/ LeaveReader(r)
    <3>1. LossIsWholeRings'
      BY <1>0, <2>0, <2>5, LossForgotten DEF Continue, LeaveReader, TypeOK
    <3>2. Lapped'
      BY <1>0, <2>5 DEF Lapped, Continue, LeaveReader, WholeLaps, Ahead, ringVars, TypeOK
    <3> QED
      BY <3>1, <3>2
  <2> QED
    BY <1>7, <2>1, <2>2, <2>3, <2>4, <2>5 DEF ReaderStep
<1> QED
  BY <1>2, <1>3, <1>4, <1>5, <1>6, <1>7 DEF Next, WriterStep

-----------------------------------------------------------------------------
(* The theorems.                                                           *)

\* The inductive invariant holds in every reachable state.
THEOREM Invariance == Spec => []IInv
<1>1. Init => IInv
  BY InitInv
<1>2. IInv /\ [Next]_bufferVars => IInv'
  BY NextInv
<1> QED
  BY <1>1, <1>2, PTL DEF Spec

\* Every field of the coordinator and every local of a reader keeps its type.
THEOREM TypeCorrect == Spec => []TypeOK
BY Invariance, PTL DEF IInv

\* For every ring size, the ring holds the newest chunks in order, whatever clears,
\* drops and restarts happened.
THEOREM RingIsStamped == Spec => []RingStamped
BY Invariance, PTL DEF IInv

\* No reader is given a chunk twice or out of order, lapped or not.
THEOREM ReadsInOrder == Spec => []InOrder
BY Invariance, PTL DEF IInv

\* A reader less than one ring behind is given every chunk that was not cleared.
THEOREM NoLossWithinRing == Spec => []UnlappedComplete
BY Invariance, PTL DEF IInv

\* What a lapped reader loses is a whole number of rings, however long it slept.
THEOREM LosesWholeRings == Spec => []LossIsWholeRings
<1>1. Init => Lapped /\ LossIsWholeRings
  <2> SUFFICES ASSUME Init PROVE Lapped /\ LossIsWholeRings
    OBVIOUS
  <2>1. \A r \in Readers : last[r] = NoReport(0) /\ rpc[r] = "out"
    BY DEF Init
  <2>2. /\ NoReport(0).upto - NoReport(0).after - Len(NoReport(0).got) = 0
        /\ Len(NoReport(0).got) = 0
    BY NothingRead
  <2>3. 0 % N = 0 /\ 0 < N
    BY RingSize
  <2> QED
    BY <2>1, <2>2, <2>3 DEF Lapped, LossIsWholeRings
<1>2. IInv /\ Lapped /\ LossIsWholeRings /\ [Next]_bufferVars => Lapped' /\ LossIsWholeRings'
  BY LapsInv
<1> QED
  BY <1>1, <1>2, Invariance, PTL DEF Spec

\* Successive deliveries to one reader never go back.
THEOREM MovesForward == Spec => DeliveryMovesForward
<1> DEFINE Forward == \A r \in Readers :
        rpc[r] # "deliver" /\ rpc'[r] = "deliver" => last[r].upto <= last'[r].after
<1>1. IInv /\ [Next]_bufferVars => [Forward]_bufferVars
  <2> SUFFICES ASSUME IInv, Next, NEW r \in Readers,
                      rpc[r] # "deliver", rpc'[r] = "deliver"
               PROVE  last[r].upto <= last'[r].after
    OBVIOUS
  <2>0. rpc \in [Readers -> {"out", "read", "unlocked", "waiting", "woken", "deliver"}]
        /\ last \in [Readers -> Reports]
    BY DEF IInv, TypeOK
  <2>1. \A i, a : Collect(r, i, a) => last'[r].after = a
    BY <2>0 DEF Collect
  <2>2. \A i, a : Block(r, i, a) => FALSE
    BY <2>0 DEF Block
  <2>3. CASE ReadChunks(r)
    BY <2>1, <2>2, <2>3, StartIsGood DEF ReadChunks
  <2>4. CASE Resume(r)
    BY <2>1, <2>2, <2>4, StartIsGood DEF Resume
  <2>5. ~WriterStep
    BY <2>0 DEF WriterStep, Write, ClearBuffer, notifySubscribers, SetState, readerVars
  <2>6. ASSUME NEW q \in Readers, ReaderStep(q), q # r PROVE FALSE
    BY <2>0, <2>6 DEF ReaderStep, JoinReader, ReadChunks, subscribe, Resume, Continue,
                      LeaveReader, Collect, Block
  <2>7. ~(JoinReader(r) \/ subscribe(r) \/ Continue(r) \/ LeaveReader(r))
    BY <2>0 DEF JoinReader, subscribe, Continue, LeaveReader
  <2> QED
    BY <2>3, <2>4, <2>5, <2>6, <2>7 DEF Next, ReaderStep
<1> QED
  BY <1>1, Invariance, PTL DEF Spec, DeliveryMovesForward

\* The staleness check of ReadChunks never moves a reader off a filled slot.
THEOREM ResetNeedsClear == Spec => ResetOnlyWhenCleared
<1> DEFINE Kept == \A r \in Readers :
        rpc[r] = "read" /\ slot[from[r]] # EmptyChunk =>
            /\ rpc'[r] = "unlocked" => anchor'[r] = anchor[r]
            /\ rpc'[r] = "deliver" => last'[r].after = anchor[r]
<1>1. IInv /\ [Next]_bufferVars => [Kept]_bufferVars
  <2> SUFFICES ASSUME IInv, Next, NEW r \in Readers,
                      rpc[r] = "read", slot[from[r]] # EmptyChunk
               PROVE  /\ rpc'[r] = "unlocked" => anchor'[r] = anchor[r]
                      /\ rpc'[r] = "deliver" => last'[r].after = anchor[r]
    OBVIOUS
  <2>0. /\ rpc \in [Readers -> {"out", "read", "unlocked", "waiting", "woken", "deliver"}]
        /\ last \in [Readers -> Reports] /\ anchor \in [Readers -> Int]
        /\ from[r] \in Positions
    BY DEF IInv, TypeOK
  <2>1. ~IsStale(from[r])
    BY <2>0, FilledIsFresh DEF IInv
  <2>2. CASE ReadChunks(r)
    BY <2>0, <2>1, <2>2 DEF ReadChunks, AnchorOf, Collect, Block
  <2>3. CASE WriterStep
    BY <2>0, <2>3 DEF WriterStep, Write, ClearBuffer, notifySubscribers, SetState, readerVars
  <2>4. ASSUME NEW q \in Readers, ReaderStep(q), q # r
        PROVE  rpc'[r] = "read"
    BY <2>0, <2>4 DEF ReaderStep, JoinReader, ReadChunks, subscribe, Resume, Continue,
                      LeaveReader, Collect, Block
  <2>5. CASE JoinReader(r) \/ subscribe(r) \/ Resume(r) \/ Continue(r) \/ LeaveReader(r)
    BY <2>0, <2>5 DEF JoinReader, subscribe, Resume, Continue, LeaveReader
  <2> QED
    BY <2>2, <2>3, <2>4, <2>5 DEF Next, ReaderStep
<1> QED
  BY <1>1, Invariance, PTL DEF Spec, ResetOnlyWhenCleared

=============================================================================
