---------------------------- MODULE SharedBuffer ----------------------------
(***************************************************************************)
(* The data path of a StreamCoordinator (proxy/stream/buffer/              *)
(* coordinator.go): a ring of N chunks, one position at which the writer   *)
(* puts the next chunk, a state (active, draining, closed), and a          *)
(* broadcast channel on which readers that caught up with the writer wait. *)
(*                                                                         *)
(* An action is one critical section of the mutex Mu or one atomic         *)
(* store.  Who takes which action, and when, is left open here: this is    *)
(* what the coordinator promises to any caller.  StreamSession adds the    *)
(* callers and is checked to take only steps of this specification.        *)
(*                                                                         *)
(* A ring position is a number in 0..N-1.  What a chunk holds is reduced   *)
(* to what its readers tell apart: nothing, stream bytes, or an error with *)
(* its exit status.                                                        *)
(***************************************************************************)
EXTENDS Integers, Sequences, FiniteSets

CONSTANTS Readers,  \* the client goroutines that read the ring
          N,        \* config.SharedBufferSize (BUFFER_CHUNK_NUM)
          MaxSeq    \* bound: no chunk is written beyond this sequence number

ASSUME RingSize == N \in Nat \ {0}
ASSUME SeqBound == MaxSeq \in Nat

VARIABLES slot,      \* the ring: what each position holds
          Buffer,    \* c.Buffer: the position the next chunk goes to
          writeSeq,  \* c.writeSeq: the number of the newest chunk
          state,     \* c.state
          rpc,       \* where each reader is in HandleStream / ReadChunks
          from,      \* fromPosition / lastPosition of each reader
          anchor,    \* history: writeSeq when the reader took that position
          last       \* history: what its newest ReadChunks returned

ringVars == <<slot, Buffer, writeSeq>>
readerVars == <<rpc, from, anchor, last>>
bufferVars == <<slot, Buffer, writeSeq, state, rpc, from, anchor, last>>

Positions == 0 .. N - 1
States == {"active", "draining", "closed"}
\* The statuses of proxy/constants.go that a writer puts into an error chunk.
ErrorStatus == {"ClientClosed", "ServerError", "EOF"}
Values == {"none", "data"} \cup ErrorStatus
Chunk == [seq : Nat, value : Values]
EmptyChunk == [seq |-> 0, value |-> "none"]

\* Mutant of NextOf: the position does not wrap.
NextOfNoWrap(i) == i + 1

\* ring.Next and ring.Prev.
NextOf(i) == IF i = N - 1 THEN 0 ELSE i + 1
PrevOf(i) == IF i = 0 THEN N - 1 ELSE i - 1
\* The position j steps after i, for j in 0..N-1.
Step(i, j) == IF i + j < N THEN i + j ELSE i + j - N
\* How many steps lead from position i to the writer's position.
Ahead(i) == IF i <= Buffer THEN Buffer - i ELSE Buffer - i + N

\* History: nothing was read, and nothing up to chunk n is to be read any more.
NoReport(n) == [after |-> n, upto |-> n, got |-> <<>>]

-----------------------------------------------------------------------------
\* NewStreamCoordinator: a ring of empty chunks, state active.
Init ==
    /\ slot = [i \in Positions |-> EmptyChunk]
    /\ Buffer = 0
    /\ writeSeq = 0
    /\ state = "active"
    /\ rpc = [r \in Readers |-> "out"]
    /\ from = [r \in Readers |-> 0]
    /\ anchor = [r \in Readers |-> 0]
    /\ last = [r \in Readers |-> NoReport(0)]

-----------------------------------------------------------------------------
(* The writer's side.  The ring changes only under Mu.                     *)

\* The part of Write under Mu when the stream is active: number the chunk,
\* swap it into the ring, advance, and start draining on an error chunk.
\* (LastError is never stored: it holds a typed nil from the start, so the
\* test LastError.Load() == nil of Write is never true.)
PutChunk(v) ==
    /\ state = "active"
    /\ writeSeq' = writeSeq + 1
    /\ slot' = [slot EXCEPT ![Buffer] = [seq |-> writeSeq + 1, value |-> v]]
    /\ Buffer' = NextOf(Buffer)
    /\ state' = IF v \in ErrorStatus THEN "draining" ELSE state

\* Mutant of DropChunk: the number is taken before the state is looked at.
DropChunkNumbers ==
    /\ state # "active"
    /\ writeSeq' = writeSeq + 1
    /\ UNCHANGED <<slot, Buffer, state>>

\* Write consumes the chunk without a trace unless the stream is active.
DropChunk ==
    /\ state # "active"
    /\ UNCHANGED <<ringVars, state>>

Write(v) == (PutChunk(v) \/ DropChunk) /\ UNCHANGED readerVars

\* ClearBuffer resets every chunk; writeSeq and Buffer keep their values.
ClearBuffer ==
    /\ slot' = [i \in Positions |-> EmptyChunk]
    /\ UNCHANGED <<Buffer, writeSeq, state, readerVars>>

\* Mutant of notifySubscribers: the channel is replaced without closing the old one.
notifyNobody == UNCHANGED bufferVars

\* notifySubscribers closes the broadcast channel and installs a new one:
\* every reader blocked on the old channel becomes runnable.
notifySubscribers ==
    /\ rpc' = [r \in Readers |-> IF rpc[r] = "waiting" THEN "woken" ELSE rpc[r]]
    /\ UNCHANGED <<ringVars, state, from, anchor, last>>

\* The atomic stores of state outside Write: RegisterClient, UnregisterClient
\* and writeError.
SetState(s) == state' = s /\ UNCHANGED <<ringVars, readerVars>>

-----------------------------------------------------------------------------
(* The readers' side.                                                      *)

\* HandleStream: lastPosition := Buffer.Prev(), and nothing is read yet.
JoinReader(r) ==
    /\ rpc[r] = "out"
    /\ rpc' = [rpc EXCEPT ![r] = "read"]
    /\ from' = [from EXCEPT ![r] = PrevOf(Buffer)]
    /\ anchor' = [anchor EXCEPT ![r] = writeSeq - 1]
    /\ last' = [last EXCEPT ![r] = NoReport(writeSeq - 1)]
    /\ UNCHANGED <<ringVars, state>>

\* Mutant of IsStale: the window is one chunk too short.
IsStaleTooEarly(i) == slot[i].seq <= writeSeq - N + 1

\* ReadChunks: the slot under the reader's position is older than one ring.
IsStale(i) == slot[i].seq < writeSeq - N

\* Mutants of StartOf: a stale reader restarts at the oldest chunk; every reader
\* goes straight to the newest chunk.
StartAtOldest(r) == IF IsStale(from[r]) THEN NextOf(Buffer) ELSE from[r]
StartAtNewest(r) == PrevOf(Buffer)

\* The position ReadChunks goes on with, and the number that position stands for.
StartOf(r) == IF IsStale(from[r]) THEN Buffer ELSE from[r]
AnchorOf(r) == IF IsStale(from[r]) THEN writeSeq ELSE anchor[r]

\* What lies between position i and the writer's position, in ring order.
Span(i) == [j \in 1 .. Ahead(i) |-> slot[Step(i, j - 1)]]

\* Mutants of Collect: the reader's position is not updated; it is, but the ring
\* is copied from the same place again.
CollectKeepsPosition(r, i, a) ==
    /\ rpc' = [rpc EXCEPT ![r] = "deliver"]
    /\ last' = [last EXCEPT ![r] = [after |-> a, upto |-> writeSeq, got |-> Span(i)]]
    /\ UNCHANGED <<from, anchor>>
CollectRepeats(r, i, a) ==
    /\ rpc' = [rpc EXCEPT ![r] = "deliver"]
    /\ last' = [last EXCEPT ![r] = [after |-> a, upto |-> writeSeq, got |-> Span(i)]]
    /\ anchor' = [anchor EXCEPT ![r] = writeSeq]
    /\ UNCHANGED from

\* The copying loop of ReadChunks, from position i up to the writer's position,
\* which it returns as the reader's new position.
Collect(r, i, a) ==
    /\ rpc' = [rpc EXCEPT ![r] = "deliver"]
    /\ last' = [last EXCEPT ![r] = [after |-> a, upto |-> writeSeq, got |-> Span(i)]]
    /\ from' = [from EXCEPT ![r] = Buffer]
    /\ anchor' = [anchor EXCEPT ![r] = writeSeq]

\* A reader that caught up with an active stream releases Mu to wait.
Block(r, i, a) ==
    /\ i = Buffer
    /\ state = "active"
    /\ rpc' = [rpc EXCEPT ![r] = "unlocked"]
    /\ from' = [from EXCEPT ![r] = i]
    /\ anchor' = [anchor EXCEPT ![r] = a]
    /\ UNCHANGED last

\* ReadChunks up to the first release of Mu: the staleness check, then wait or copy.
ReadChunks(r) ==
    /\ rpc[r] = "read"
    /\ \/ Block(r, StartOf(r), AnchorOf(r))
       \/ /\ ~(StartOf(r) = Buffer /\ state = "active")
          /\ Collect(r, StartOf(r), AnchorOf(r))
    /\ UNCHANGED <<ringVars, state>>

\* subscribe: the channel is fetched after Mu was released.
subscribe(r) ==
    /\ rpc[r] = "unlocked"
    /\ rpc' = [rpc EXCEPT ![r] = "waiting"]
    /\ UNCHANGED <<ringVars, state, from, anchor, last>>

\* The wait loop of ReadChunks after the channel was closed.
Resume(r) ==
    /\ rpc[r] = "woken"
    /\ \/ Block(r, from[r], anchor[r])
       \/ /\ ~(from[r] = Buffer /\ state = "active")
          /\ Collect(r, from[r], anchor[r])
    /\ UNCHANGED <<ringVars, state>>

\* The error chunks among what ReadChunks returned; HandleStream acts on the last.
Errors(r) == {j \in DOMAIN last[r].got : last[r].got[j].value \in ErrorStatus}

\* HandleStream wrote the chunks out, saw no error chunk, and goes round its loop;
\* the copies went back to the pool.
Continue(r) ==
    /\ rpc[r] = "deliver"
    /\ Errors(r) = {}
    /\ rpc' = [rpc EXCEPT ![r] = "read"]
    /\ last' = [last EXCEPT ![r] = NoReport(last[r].upto)]
    /\ UNCHANGED <<ringVars, state, from, anchor>>

\* HandleStream returns: on an error chunk, a failed write, or a closed client.
\* Its locals are gone.
LeaveReader(r) ==
    /\ rpc[r] \in {"read", "deliver"}
    /\ rpc' = [rpc EXCEPT ![r] = "out"]
    /\ from' = [from EXCEPT ![r] = 0]
    /\ anchor' = [anchor EXCEPT ![r] = 0]
    /\ last' = [last EXCEPT ![r] = NoReport(0)]
    /\ UNCHANGED <<ringVars, state>>

-----------------------------------------------------------------------------
WriterStep ==
    \/ writeSeq < MaxSeq /\ \E v \in Values \ {"none"} : Write(v)
    \/ ClearBuffer
    \/ notifySubscribers
    \/ \E s \in States : SetState(s)

ReaderStep(r) ==
    \/ JoinReader(r)
    \/ ReadChunks(r)
    \/ subscribe(r)
    \/ Resume(r)
    \/ Continue(r)
    \/ LeaveReader(r)

Next == WriterStep \/ \E r \in Readers : ReaderStep(r)

Spec == Init /\ [][Next]_bufferVars

-----------------------------------------------------------------------------
(* Properties.                                                             *)

\* The number of the chunk that position i holds, or held before it was
\* cleared: the positions behind Buffer hold the newest N chunks in order.
Stamp(i) == IF i < Buffer THEN writeSeq - Buffer + i + 1
                          ELSE writeSeq - Buffer + i + 1 - N

Reports == [after : Int, upto : Int, got : Seq(Chunk)]

\* Types of the coordinator's fields and of the readers' local state.
TypeOK ==
    /\ slot \in [Positions -> Chunk]
    /\ Buffer \in Positions
    /\ writeSeq \in Nat
    /\ state \in States
    /\ rpc \in [Readers -> {"out", "read", "unlocked", "waiting", "woken", "deliver"}]
    /\ from \in [Readers -> Positions]
    /\ anchor \in [Readers -> Int]
    /\ last \in [Readers -> Reports]

\* Whatever writes, drops, clears and restarts happened: a filled position holds
\* exactly the chunk its distance from Buffer says, so the ring read from any
\* position to Buffer is the newest chunks, oldest first (Write, ClearBuffer:
\* writeSeq and Buffer must move together and survive a clear).
RingStamped ==
    \A i \in Positions :
        \/ slot[i] = EmptyChunk
        \/ slot[i].seq = Stamp(i) /\ slot[i].seq > 0 /\ slot[i].value # "none"

\* The chunks one ReadChunks returns are numbered in ascending order, and all are
\* newer than the position the reader started from: nothing is delivered twice or
\* out of order, also to a reader that was lapped or whose chunks were cleared.
InOrder ==
    \A r \in Readers : LET got == last[r].got IN
        /\ \A j \in DOMAIN got : got[j].value # "none" =>
               last[r].after < got[j].seq /\ got[j].seq <= last[r].upto
        /\ \A j, k \in DOMAIN got :
               j < k /\ got[j].value # "none" /\ got[k].value # "none"
                  => got[j].seq < got[k].seq

\* A reader that the writer has not lapped gets every chunk since its position,
\* except those cleared meanwhile: ReadChunks never skips data of a reader that
\* is less than one ring behind.
UnlappedComplete ==
    \A r \in Readers : LET l == last[r] IN
        l.upto - l.after < N =>
            /\ Len(l.got) = l.upto - l.after
            /\ \A j \in DOMAIN l.got :
                   l.got[j] # EmptyChunk => l.got[j].seq = l.after + j

\* What a lapped reader loses is a whole number of rings: it is put where it would
\* be if the chunks it missed had never been sent.
LossIsWholeRings ==
    \A r \in Readers : LET l == last[r] IN
        (l.upto - l.after - Len(l.got)) % N = 0 /\ Len(l.got) < N

\* A reader's deliveries only move forward: a ReadChunks starts at or after the
\* chunk where the reader's previous one ended.
DeliveryMovesForward ==
    [][\A r \in Readers :
          rpc[r] # "deliver" /\ rpc'[r] = "deliver" => last[r].upto <= last'[r].after]_bufferVars

\* The staleness check of ReadChunks moves a reader only when the slot under its
\* position was cleared.  It never fires on a slot that holds a chunk, so a slow
\* reader is never detected by it, and no filled slot is abandoned because of it.
ResetOnlyWhenCleared ==
    [][\A r \in Readers :
          rpc[r] = "read" /\ slot[from[r]] # EmptyChunk =>
             /\ rpc'[r] = "unlocked" => anchor'[r] = anchor[r]
             /\ rpc'[r] = "deliver" => last'[r].after = anchor[r]]_bufferVars

=============================================================================
