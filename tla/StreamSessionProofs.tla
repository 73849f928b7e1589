------------------------ MODULE StreamSessionProofs ------------------------
(***************************************************************************)
(* The clients and writers of StreamSession take only steps of             *)
(* SharedBuffer, for any number of clients, writers and ring positions, so *)
(* the theorems about SharedBuffer hold of the coordinator in use.  The    *)
(* invariant needed for that is small: a writer about to write an error    *)
(* chunk has an error status to write.                                     *)
(*                                                                         *)
(* The session's own invariants rest on SessionInv, in four parts, each    *)
(* inductive with the ones before it:                                      *)
(*   Owned     InitializationMu has one holder, and a writer that runs, or *)
(*             the client about to start one, is the only one;             *)
(*   Counted   ClientCount is the size of a finite set of clients;         *)
(*   Held      LBResultOnWrite and the connection count go together, and   *)
(*             only the writer whose loop panicked works without them;     *)
(*   Attended  an active stream, a chunk in the ring and a writer's        *)
(*             context each need a client that will remove them.           *)
(* Attended is what QuiescentClean alone does not say: it must hold while  *)
(* one client leaves and another joins.                                    *)
(***************************************************************************)
EXTENDS StreamSession, SharedBufferProofs, FiniteSetTheorems, WellFoundedInduction

\* What a writer in writeError is about to write is an error status.
WriterHasStatus ==
    /\ wpc \in [Writers -> {"off", "start", "loop", "read", "notify", "put", "errnotify",
                            "close", "release", "flag", "done"}]
    /\ wstatus \in [Writers -> {"none"} \cup ErrorStatus]
    /\ starts \in Nat
    /\ \A w \in Writers : wpc[w] = "put" => wstatus[w] \in ErrorStatus

\* No writer exists initially.
LEMMA StatusInit == SessionInit => WriterHasStatus
BY DEF SessionInit, WriterHasStatus

\* A client's step leaves the writers alone, or starts one.
LEMMA StatusClient ==
    ASSUME WriterHasStatus, NEW c \in Clients,
           Disconnect(c) \/ Balance(c) \/ GiveUp(c) \/ ClientStep(c)
    PROVE  WriterHasStatus'
<1>1. CASE SpawnWriter(c)
  <2>1. /\ wpc' = [wpc EXCEPT ![starts + 1] = "start"]
        /\ starts' = starts + 1 /\ wstatus' = wstatus
    BY <1>1 DEF SpawnWriter
  <2>2. \A w \in Writers : wpc'[w] = "put" => wpc[w] = "put"
    BY <2>1 DEF WriterHasStatus
  <2>3. wpc' \in [Writers -> {"off", "start", "loop", "read", "notify", "put", "errnotify",
                            "close", "release", "flag", "done"}]
    BY <2>1 DEF WriterHasStatus
  <2> QED
    BY <2>1, <2>2, <2>3 DEF WriterHasStatus
<1>2. CASE ~SpawnWriter(c)
  <2>1. UNCHANGED writerVars
    BY <1>2 DEF Disconnect, Balance, GiveUp, ClientStep, EntryStep, LoopStep, CleanupStep,
           JoinWriter, ClaimWriter, ResetState, RegisterClient, EnterLoop,
           ReadStep, ReturnDone, ReturnCancelled, ReturnUnwritten, ReturnError, Return,
           Uncount, Drain, ClearLast, NotifyLast, Recount, CancelWriter, ClearAgain, Exit
  <2> QED
    BY <2>1 DEF writerVars, WriterHasStatus
<1> QED
  BY <1>1, <1>2

\* A writer reaches writeError with a status only.
LEMMA StatusWriter ==
    ASSUME WriterHasStatus, NEW w \in Writers, WriterStepOf(w)
    PROVE  WriterHasStatus'
<1> USE DEF WriterHasStatus, GoW, ErrorStatus
<1>1. CASE WriterBegin(w) \/ LoopEnds(w) \/ LoopReads(w) \/ ReadRetry(w)
  BY <1>1 DEF WriterBegin, LoopEnds, LoopReads, ReadRetry
<1>2. CASE LoopPanics(w) \/ LoopFails(w) \/ ReadEmpty(w)
  BY <1>2 DEF LoopPanics, LoopFails, ReadEmpty
<1>3. CASE ReadData(w)
  BY <1>3 DEF ReadData
<1>4. CASE WriterNotify(w)
  BY <1>4 DEF WriterNotify
<1>5. CASE PutError(w) \/ ErrorNotify(w) \/ CloseState(w)
  BY <1>5 DEF PutError, ErrorNotify, CloseState
<1>6. CASE ReleaseWriter(w) \/ WriterEnds(w)
  BY <1>6 DEF ReleaseWriter, WriterEnds
<1> QED
  BY <1>1, <1>2, <1>3, <1>4, <1>5, <1>6 DEF WriterStepOf, ReadReturns

\* Every step keeps the writers' statuses in order.
LEMMA StatusInv == WriterHasStatus /\ [SessionNext]_vars => WriterHasStatus'
<1> SUFFICES ASSUME WriterHasStatus, [SessionNext]_vars PROVE WriterHasStatus'
  OBVIOUS
<1>1. CASE UNCHANGED vars
  BY <1>1 DEF vars, writerVars, WriterHasStatus
<1>2. CASE SessionNext
  BY <1>2, StatusClient, StatusWriter DEF SessionNext
<1> QED
  BY <1>1, <1>2

-----------------------------------------------------------------------------
\* A client's step is a step of the buffer or leaves it alone.
LEMMA ClientStepImplements ==
    ASSUME NEW c \in Clients, Disconnect(c) \/ Balance(c) \/ GiveUp(c) \/ ClientStep(c)
    PROVE  [Next]_bufferVars
<1>0. c \in Readers /\ "active" \in States /\ "draining" \in States
  BY DEF Clients, States
<1>1. CASE Disconnect(c) \/ Balance(c) \/ GiveUp(c) \/ JoinWriter(c) \/ ClaimWriter(c)
           \/ RegisterClient(c) \/ Uncount(c) \/ Recount(c) \/ CancelWriter(c) \/ Exit(c)
  BY <1>1 DEF Disconnect, Balance, GiveUp, JoinWriter, ClaimWriter, RegisterClient, Uncount,
              Recount, CancelWriter, Exit
<1>2. CASE SpawnWriter(c) \/ ClearLast(c) \/ ClearAgain(c)
  BY <1>2 DEF SpawnWriter, ClearLast, ClearAgain, Next, WriterStep
<1>3. CASE ResetState(c) \/ Drain(c)
  BY <1>0, <1>3 DEF ResetState, Drain, Next, WriterStep
<1>4. CASE NotifyLast(c)
  BY <1>4 DEF NotifyLast, Next, WriterStep
<1>5. CASE EnterLoop(c)
  BY <1>0, <1>5 DEF EnterLoop, Next, ReaderStep
<1>6. CASE ReadStep(c)
  BY <1>0, <1>6 DEF ReadStep, Next, ReaderStep
<1>7. CASE ReturnDone(c) \/ ReturnCancelled(c) \/ ReturnUnwritten(c) \/ ReturnError(c)
  BY <1>0, <1>7 DEF ReturnDone, ReturnCancelled, ReturnUnwritten, ReturnError, Return, Next, ReaderStep
<1> QED
  BY <1>1, <1>2, <1>3, <1>4, <1>5, <1>6, <1>7 DEF ClientStep, EntryStep, LoopStep, CleanupStep

\* So is a writer's.
LEMMA WriterStepImplements ==
    ASSUME IInv, WriterHasStatus, NEW w \in Writers, WriterStepOf(w)
    PROVE  [Next]_bufferVars
<1>1. CASE WriterBegin(w) \/ LoopEnds(w) \/ LoopPanics(w) \/ LoopFails(w) \/ LoopReads(w)
           \/ ReadRetry(w) \/ ReadEmpty(w) \/ ReleaseWriter(w) \/ WriterEnds(w)
  BY <1>1 DEF WriterBegin, LoopEnds, LoopPanics, LoopFails, LoopReads, ReadRetry, ReadEmpty,
              ReleaseWriter, WriterEnds
<1>2. CASE WriterNotify(w) \/ ErrorNotify(w)
  BY <1>2 DEF WriterNotify, ErrorNotify, Next, WriterStep
<1>3. CASE CloseState(w)
  BY <1>3 DEF CloseState, Next, WriterStep, States
<1>4. CASE PutError(w)
  <2>1. wstatus[w] \in Values \ {"none"} /\ writeSeq < MaxSeq
    BY <1>4 DEF PutError, GoW, WriterHasStatus, Values, ErrorStatus
  <2> QED
    BY <1>4, <2>1 DEF PutError, Next, WriterStep
<1>5. CASE ReadData(w)
  <2>1. CASE state = "active"
    <3>1. "data" \in Values \ {"none"}
      BY DEF Values
    <3>2. writeSeq < MaxSeq
      BY <1>5, DataBound, StartsBound, SeqBound DEF ReadData, IInv, TypeOK
    <3> QED
      BY <1>5, <3>1, <3>2 DEF ReadData, Next, WriterStep
  <2>2. CASE state # "active"
    BY <1>5, <2>2 DEF ReadData, Write, PutChunk, DropChunk, bufferVars, ringVars, readerVars
  <2> QED
    BY <2>1, <2>2
<1> QED
  BY <1>1, <1>2, <1>3, <1>4, <1>5 DEF WriterStepOf, ReadReturns

\* The session implements the buffer: every behaviour of clients and writers is a
\* behaviour of SharedBuffer.
THEOREM SessionImplementsBuffer == SessionSpec => ImplementsBuffer
<1>1. SessionInit => WriterHasStatus /\ Init /\ IInv
  BY StatusInit, InitInv DEF SessionInit
<1>2. WriterHasStatus /\ [SessionNext]_vars => WriterHasStatus'
  BY StatusInv
<1>3. IInv /\ WriterHasStatus /\ [SessionNext]_vars => [Next]_bufferVars
  <2> SUFFICES ASSUME IInv, WriterHasStatus, [SessionNext]_vars PROVE [Next]_bufferVars
    OBVIOUS
  <2>1. CASE UNCHANGED vars
    BY <2>1 DEF vars
  <2>2. CASE SessionNext
    BY <2>2, ClientStepImplements, WriterStepImplements DEF SessionNext
  <2> QED
    BY <2>1, <2>2
<1>4. IInv /\ [Next]_bufferVars => IInv'
  BY NextInv
<1> QED
  BY <1>1, <1>2, <1>3, <1>4, PTL DEF SessionSpec, ImplementsBuffer, Spec

\* Hence no client of a running session, however clients come, go and restart the
\* writer, is given chunks twice or out of order.
THEOREM SessionReadsInOrder == SessionSpec => []InOrder
BY SessionImplementsBuffer, ReadsInOrder, PTL DEF ImplementsBuffer

\* Nor does a client of a running session lose a chunk while it is less than one ring
\* behind, or anything but whole rings when it is lapped; and the ring it reads holds
\* the newest chunks in their places, though writers come and go and clear it.
THEOREM SessionLosesWholeRings ==
    SessionSpec => [](RingStamped /\ UnlappedComplete /\ LossIsWholeRings)
BY SessionImplementsBuffer, RingIsStamped, NoLossWithinRing, LosesWholeRings, PTL DEF ImplementsBuffer

\* A client's deliveries move forward over every restart of the writer it reads from,
\* and the staleness check of ReadChunks moves it only after a clear.
THEOREM SessionMovesForward ==
    SessionSpec => DeliveryMovesForward /\ ResetOnlyWhenCleared
BY SessionImplementsBuffer, MovesForward, ResetNeedsClear, PTL DEF ImplementsBuffer

-----------------------------------------------------------------------------
(* One writer at a time.                                                   *)

ClientPcs == {"idle", "gone", "ready", "init", "register", "count", "start", "reading",
              "unreg", "drain", "clear", "notify", "recount", "cancel", "reclear", "leave"}
WriterPcs == {"off", "start", "loop", "read", "notify", "put", "errnotify",
              "close", "release", "flag", "done"}

\* InitializationMu has one holder; writers are started in order; a writer that runs,
\* or a client about to start one, is the only one and has WriterActive set.
Owned ==
    /\ cpc \in [Clients -> ClientPcs]
    /\ wpc \in [Writers -> WriterPcs]
    /\ starts \in 0 .. MaxStarts
    /\ WriterActive \in BOOLEAN
    /\ \A c, d \in Clients : cpc[c] \in HoldsInit /\ cpc[d] \in HoldsInit => c = d
    /\ \A w \in Writers : wpc[w] = "off" <=> starts < w
    /\ \A v, w \in Running : v = w
    /\ \A c \in Clients : cpc[c] = "init" => starts < MaxStarts /\ Running = {}
    /\ WriterActive <=> (Running # {} \/ \E c \in Clients : cpc[c] = "init")

\* A client's step that starts no writer and claims none.
Moves(c, x) ==
    /\ x \in ClientPcs /\ cpc' = [cpc EXCEPT ![c] = x]
    /\ cpc[c] # "init" /\ x # "init"
    /\ x \in HoldsInit => cpc[c] \in HoldsInit \/ InitFree
    /\ UNCHANGED <<WriterActive, starts, wpc>>

\* That is every step of a client except ClaimWriter and SpawnWriter.
LEMMA ClientMoves ==
    ASSUME cpc \in [Clients -> ClientPcs], NEW c \in Clients,
           Disconnect(c) \/ Balance(c) \/ GiveUp(c) \/ ClientStep(c),
           ~ClaimWriter(c), ~SpawnWriter(c)
    PROVE  UNCHANGED <<cpc, WriterActive, starts, wpc>> \/ \E x \in ClientPcs : Moves(c, x)
<1> USE DEF Moves, ClientPcs, HoldsInit, Go, coordVars, writerVars
<1>1. CASE Disconnect(c) \/ ReadStep(c)
  BY <1>1 DEF Disconnect, ReadStep, clientVars
<1>2. CASE Balance(c) \/ GiveUp(c) \/ Exit(c)
  BY <1>2 DEF Balance, GiveUp, Exit
<1>3. CASE JoinWriter(c) \/ ResetState(c) \/ RegisterClient(c) \/ EnterLoop(c)
  BY <1>3 DEF JoinWriter, ResetState, RegisterClient, EnterLoop
<1>4. CASE ReturnDone(c) \/ ReturnCancelled(c) \/ ReturnUnwritten(c) \/ ReturnError(c)
  BY <1>4 DEF ReturnDone, ReturnCancelled, ReturnUnwritten, ReturnError, Return
<1>5. CASE Uncount(c) \/ Drain(c) \/ ClearLast(c) \/ NotifyLast(c)
  BY <1>5 DEF Uncount, Drain, ClearLast, NotifyLast
<1>6. CASE Recount(c) \/ CancelWriter(c) \/ ClearAgain(c)
  BY <1>6 DEF Recount, CancelWriter, ClearAgain
<1> QED
  BY <1>1, <1>2, <1>3, <1>4, <1>5, <1>6 DEF ClientStep, EntryStep, LoopStep, CleanupStep

\* A writer's step that neither begins nor ends its goroutine.
Works(w, x) ==
    /\ x \in WriterPcs \ {"off", "start", "done"} /\ wpc' = [wpc EXCEPT ![w] = x]
    /\ wpc[w] \notin {"off", "done"}
    /\ UNCHANGED <<WriterActive, WriterCtx, cancelled, starts, cpc, ClientCount>>

\* That is every step of a writer except WriterEnds.
LEMMA WriterWorks ==
    ASSUME wpc \in [Writers -> WriterPcs], NEW w \in Writers, WriterStepOf(w), ~WriterEnds(w)
    PROVE  \E x \in WriterPcs : Works(w, x)
<1> USE DEF Works, WriterPcs, GoW, clientVars, coordVars
<1>1. CASE WriterBegin(w) \/ LoopEnds(w) \/ LoopPanics(w) \/ LoopFails(w) \/ LoopReads(w)
  BY <1>1 DEF WriterBegin, LoopEnds, LoopPanics, LoopFails, LoopReads
<1>2. CASE ReadReturns(w)
  BY <1>2 DEF ReadReturns, ReadData, ReadRetry, ReadEmpty
<1>3. CASE WriterNotify(w) \/ PutError(w) \/ ErrorNotify(w) \/ CloseState(w) \/ ReleaseWriter(w)
  BY <1>3 DEF WriterNotify, PutError, ErrorNotify, CloseState, ReleaseWriter
<1> QED
  BY <1>1, <1>2, <1>3 DEF WriterStepOf

\* No writer and no holder of InitializationMu initially.
LEMMA OwnedInit == SessionInit => Owned
<1> SUFFICES ASSUME SessionInit PROVE Owned
  OBVIOUS
<1>1. /\ cpc = [c \in Clients |-> "idle"] /\ wpc = [w \in Writers |-> "off"]
      /\ starts = 0 /\ WriterActive = FALSE
  BY DEF SessionInit
<1>2. Running = {}
  BY <1>1 DEF Running
<1>3. \A w \in Writers : wpc[w] = "off" <=> starts < w
  BY <1>1, StartsBound DEF Writers
<1>4. starts \in 0 .. MaxStarts
  BY <1>1, StartsBound
<1>5. \A c \in Clients : cpc[c] = "idle"
  BY <1>1
<1>6. cpc \in [Clients -> ClientPcs] /\ wpc \in [Writers -> WriterPcs]
  BY <1>1 DEF ClientPcs, WriterPcs
<1> QED
  BY <1>1, <1>2, <1>3, <1>4, <1>5, <1>6 DEF Owned, HoldsInit

\* Every step keeps the one writer the only one.
LEMMA OwnedInv == Owned /\ [SessionNext]_vars => Owned'
<1> SUFFICES ASSUME Owned, [SessionNext]_vars PROVE Owned'
  OBVIOUS
<1> USE DEF HoldsInit
<1>1. CASE UNCHANGED <<cpc, WriterActive, starts, wpc>>
  BY <1>1 DEF Owned, Running
<1>2. ASSUME NEW c \in Clients, Disconnect(c) \/ Balance(c) \/ GiveUp(c) \/ ClientStep(c)
      PROVE  Owned'
  <2>1. CASE ClaimWriter(c)
    <3>1. /\ cpc' = [cpc EXCEPT ![c] = "init"] /\ WriterActive' = TRUE
          /\ UNCHANGED <<starts, wpc>> /\ starts < MaxStarts /\ ~WriterActive
          /\ InitFree
      BY <2>1 DEF ClaimWriter, Go, writerVars
    <3>2. Running' = Running /\ Running = {}
      BY <3>1 DEF Running, Owned
    <3>3. cpc'[c] = "init" /\ cpc' \in [Clients -> ClientPcs]
      BY <3>1 DEF Owned, ClientPcs
    <3>4. \A d \in Clients : d # c => cpc'[d] = cpc[d] /\ cpc[d] \notin HoldsInit
      BY <3>1 DEF Owned, InitFree
    <3> QED
      BY <3>1, <3>2, <3>3, <3>4 DEF Owned
  <2>2. CASE SpawnWriter(c)
    <3> DEFINE n == starts + 1
    <3>1. /\ cpc[c] = "init" /\ cpc' = [cpc EXCEPT ![c] = "register"]
          /\ wpc' = [wpc EXCEPT ![n] = "start"]
          /\ starts' = n /\ UNCHANGED WriterActive
      BY <2>2 DEF SpawnWriter, Go, coordVars
    <3>2. n \in Writers /\ starts < MaxStarts /\ Running = {} /\ starts \in Nat
      BY <3>1, StartsBound DEF Owned, Writers
    <3>3. wpc' \in [Writers -> WriterPcs] /\ cpc' \in [Clients -> ClientPcs]
      BY <3>1, <3>2 DEF Owned, ClientPcs, WriterPcs
    <3>4. Running' = {n}
      BY <3>1, <3>2, <3>3 DEF Owned, Running
    <3>5. \A w \in Writers : wpc'[w] = "off" <=> starts' < w
      BY <3>1, <3>2, StartsBound DEF Owned, Writers
    <3>6. \A d \in Clients : cpc'[d] # "init"
      BY <3>1 DEF Owned
    <3>7. \A d, e \in Clients : cpc'[d] \in HoldsInit /\ cpc'[e] \in HoldsInit => d = e
      BY <3>1 DEF Owned
    <3>8. starts' \in 0 .. MaxStarts /\ WriterActive
      BY <3>1, <3>2, StartsBound DEF Owned
    <3> HIDE DEF n
    <3> QED
      BY <3>1, <3>3, <3>4, <3>5, <3>6, <3>7, <3>8 DEF Owned
  <2>3. ASSUME NEW x \in ClientPcs, Moves(c, x) PROVE Owned'
    <3>1. Running' = Running
      BY <2>3 DEF Moves, Running
    <3>2. \A d \in Clients : cpc'[d] = "init" <=> cpc[d] = "init"
      BY <2>3 DEF Moves, Owned
    <3>3. \A d, e \in Clients : cpc'[d] \in HoldsInit /\ cpc'[e] \in HoldsInit => d = e
      BY <2>3 DEF Moves, Owned, InitFree
    <3> QED
      BY <2>3, <3>1, <3>2, <3>3 DEF Moves, Owned
  <2> QED
    BY <1>1, <1>2, <2>1, <2>2, <2>3, ClientMoves DEF Owned
<1>3. ASSUME NEW w \in Writers, WriterStepOf(w) PROVE Owned'
  <2>1. CASE WriterEnds(w)
    <3>1. /\ wpc[w] = "flag" /\ wpc' = [wpc EXCEPT ![w] = "done"] /\ WriterActive' = FALSE
          /\ InitFree /\ UNCHANGED <<cpc, starts>>
      BY <2>1 DEF WriterEnds, GoW, clientVars
    <3>2. Running = {w}
      BY <3>1 DEF Running, Owned
    <3>3. Running' = {}
      BY <3>1, <3>2 DEF Running, Owned
    <3> QED
      BY <3>1, <3>3 DEF Owned, InitFree, WriterPcs
  <2>2. ASSUME NEW x \in WriterPcs, Works(w, x) PROVE Owned'
    <3>1. Running' = Running
      BY <2>2 DEF Works, Running, Owned
    <3>2. \A v \in Writers : wpc'[v] = "off" <=> wpc[v] = "off"
      BY <2>2 DEF Works, Owned
    <3>3. wpc' \in [Writers -> WriterPcs]
      BY <2>2 DEF Works, Owned
    <3> QED
      BY <2>2, <3>1, <3>2, <3>3 DEF Works, Owned
  <2> QED
    BY <1>3, <2>1, <2>2, WriterWorks DEF Owned
<1> QED
  BY <1>1, <1>2, <1>3 DEF SessionNext, vars, clientVars, coordVars, writerVars

-----------------------------------------------------------------------------
(* The client counter.                                                     *)

\* The counter counts a finite set of clients.
Counted == IsFiniteSet(Registered) /\ CountExact

\* Only RegisterClient and UnregisterClient change the set, and the counter with it.
LEMMA CountedClient ==
    ASSUME Owned, Counted, NEW c \in Clients,
           Disconnect(c) \/ Balance(c) \/ GiveUp(c) \/ ClientStep(c)
    PROVE  Counted'
<1> USE DEF Go, coordVars, clientVars
<1>0. cpc \in [Clients -> ClientPcs]
  BY DEF Owned
<1>1. ASSUME Registered' = Registered, UNCHANGED ClientCount
      PROVE  Counted'
  BY <1>1 DEF Counted, CountExact
<1>2. CASE RegisterClient(c)
  <2>1. Registered' = Registered \cup {c} /\ c \notin Registered /\ ClientCount' = ClientCount + 1
    BY <1>0, <1>2 DEF RegisterClient, Registered
  <2> QED
    BY <2>1, FS_AddElement DEF Counted, CountExact
<1>3. CASE Uncount(c)
  <2>1. Registered' = Registered \ {c} /\ c \in Registered /\ ClientCount' = ClientCount - 1
    BY <1>0, <1>3 DEF Uncount, Registered
  <2> QED
    BY <2>1, FS_RemoveElement DEF Counted, CountExact
<1>4. CASE Disconnect(c) \/ ReadStep(c) \/ Balance(c) \/ GiveUp(c) \/ Exit(c)
  BY <1>0, <1>1, <1>4 DEF Disconnect, ReadStep, Balance, GiveUp, Exit, Registered
<1>5. CASE JoinWriter(c) \/ ClaimWriter(c) \/ SpawnWriter(c) \/ ResetState(c) \/ EnterLoop(c)
  BY <1>0, <1>1, <1>5 DEF JoinWriter, ClaimWriter, SpawnWriter, ResetState, EnterLoop, Registered
<1>6. CASE ReturnDone(c) \/ ReturnCancelled(c) \/ ReturnUnwritten(c) \/ ReturnError(c)
  BY <1>0, <1>1, <1>6
     DEF ReturnDone, ReturnCancelled, ReturnUnwritten, ReturnError, Return, Registered
<1>7. CASE Drain(c) \/ ClearLast(c) \/ NotifyLast(c) \/ Recount(c) \/ CancelWriter(c) \/ ClearAgain(c)
  BY <1>0, <1>1, <1>7 DEF Drain, ClearLast, NotifyLast, Recount, CancelWriter, ClearAgain, Registered
<1> QED
  BY <1>2, <1>3, <1>4, <1>5, <1>6, <1>7 DEF ClientStep, EntryStep, LoopStep, CleanupStep

\* Every step keeps the count exact; the writers do not touch it.
LEMMA CountedInv == Owned /\ Counted /\ [SessionNext]_vars => Counted'
<1> SUFFICES ASSUME Owned, Counted, [SessionNext]_vars PROVE Counted'
  OBVIOUS
<1>1. CASE UNCHANGED <<cpc, ClientCount>>
  BY <1>1 DEF Counted, CountExact, Registered
<1>2. ASSUME NEW w \in Writers, WriterStepOf(w) PROVE Counted'
  <2>1. CASE WriterEnds(w)
    BY <1>1, <2>1 DEF WriterEnds, clientVars
  <2> QED
    BY <1>1, <1>2, <2>1, WriterWorks DEF Works, Owned
<1> QED
  BY <1>1, <1>2, CountedClient DEF SessionNext, vars, clientVars, coordVars

\* No client is registered initially.
LEMMA CountedInit == SessionInit => Counted
<1> SUFFICES ASSUME SessionInit PROVE Counted
  OBVIOUS
<1>1. Registered = {} /\ ClientCount = 0
  BY DEF SessionInit, Registered
<1> QED
  BY <1>1, FS_EmptySet DEF Counted, CountExact

-----------------------------------------------------------------------------
(* The connection count.                                                   *)

\* The result stored in LBResultOnWrite is that of a writer that is at work, every
\* writer at work but the one whose loop panicked has stored it, and the connection
\* is counted exactly while it is there.
Held ==
    /\ LBResultOnWrite \in 0 .. MaxStarts
    /\ concurrency = IF LBResultOnWrite = 0 THEN 0 ELSE 1
    /\ LBResultOnWrite # 0 =>
         wpc[LBResultOnWrite] \in {"loop", "read", "notify", "put", "errnotify", "close", "release"}
    /\ \A w \in Writers : wpc[w] \in {"loop", "read", "notify", "release"} => LBResultOnWrite = w

\* Steps that keep a writer at work keep what it holds.
LEMMA HeldWorks ==
    ASSUME Owned, Held, NEW w \in Writers, NEW x,
           wpc' = [wpc EXCEPT ![w] = x],
           x \in {"loop", "read", "notify", "put", "errnotify", "close", "release"},
           x \in {"loop", "read", "notify", "release"} => LBResultOnWrite = w,
           wpc[w] \notin {"off", "done"}, UNCHANGED <<LBResultOnWrite, concurrency>>
    PROVE  Held'
<1>1. wpc'[w] = x /\ \A v \in Writers : v # w => wpc'[v] = wpc[v]
  BY DEF Owned
<1>2. LBResultOnWrite # 0 => LBResultOnWrite \in Writers
  BY StartsBound DEF Held, Writers
<1> QED
  BY <1>1, <1>2 DEF Held

\* Every step of a writer keeps it.
LEMMA HeldWriter ==
    ASSUME Owned, Held, NEW w \in Writers, WriterStepOf(w)
    PROVE  Held'
<1> USE DEF GoW, coordVars
<1>0. /\ wpc \in [Writers -> WriterPcs] /\ \A v \in Writers : v # 0
      /\ wpc[w] \notin {"off", "done"} => \A v \in Writers : v # w => wpc[v] \in {"off", "done"}
      /\ LBResultOnWrite # 0 => LBResultOnWrite \in Writers
  BY StartsBound DEF Owned, Running, Writers, Held
<1>1. CASE WriterBegin(w)
  <2>1. /\ wpc[w] = "start" /\ wpc' = [wpc EXCEPT ![w] = "loop"]
        /\ LBResultOnWrite' = w /\ concurrency' = concurrency + 1
    BY <1>1 DEF WriterBegin
  <2>2. LBResultOnWrite = 0
    BY <1>0, <2>1 DEF Held
  <2> QED
    BY <1>0, <2>1, <2>2, StartsBound DEF Held, Writers
<1>2. CASE LoopEnds(w) \/ LoopFails(w) \/ LoopReads(w)
  BY <1>2, HeldWorks DEF LoopEnds, LoopFails, LoopReads, Held
<1>3. CASE LoopPanics(w) \/ ReleaseWriter(w)
  <2>1. /\ wpc[w] \in {"loop", "release"} /\ concurrency' = 0 /\ LBResultOnWrite' = 0
        /\ wpc' = [wpc EXCEPT ![w] = "put"] \/ wpc' = [wpc EXCEPT ![w] = "flag"]
    <3>1. wpc[w] \in {"loop", "release"}
      BY <1>3 DEF LoopPanics, ReleaseWriter
    <3>2. concurrency = 1
      BY <1>0, <3>1 DEF Held
    <3> QED
      BY <1>3, <3>1, <3>2 DEF LoopPanics, ReleaseWriter, Disconnected
  <2>2. \A v \in Writers : wpc'[v] \notin {"loop", "read", "notify", "release"}
    BY <1>0, <2>1
  <2> QED
    BY <2>1, <2>2, StartsBound DEF Held
<1>4. CASE ReadReturns(w)
  <2>1. wpc[w] = "read" /\ LBResultOnWrite = w
    BY <1>4 DEF ReadReturns, ReadData, ReadRetry, ReadEmpty, Held
  <2> QED
    BY <1>4, <2>1, HeldWorks DEF ReadReturns, ReadData, ReadRetry, ReadEmpty
<1>5. CASE WriterNotify(w)
  BY <1>5, HeldWorks DEF WriterNotify, Held
<1>6. CASE PutError(w) \/ ErrorNotify(w)
  BY <1>6, HeldWorks DEF PutError, ErrorNotify
<1>7. CASE CloseState(w)
  <2>1. CASE LBResultOnWrite = w
    BY <1>7, <2>1, HeldWorks DEF CloseState
  <2>2. CASE LBResultOnWrite # w
    <3>1. LBResultOnWrite = 0
      BY <1>0, <1>7, <2>2 DEF CloseState, Held
    <3> QED
      BY <1>0, <1>7, <2>2, <3>1, StartsBound DEF CloseState, Held
  <2> QED
    BY <2>1, <2>2
<1>8. CASE WriterEnds(w)
  BY <1>0, <1>8 DEF WriterEnds, Held
<1> QED
  BY <1>1, <1>2, <1>3, <1>4, <1>5, <1>6, <1>7, <1>8 DEF WriterStepOf

\* A client starts a writer only when none holds a connection.
LEMMA HeldClient ==
    ASSUME Owned, Held, NEW c \in Clients,
           Disconnect(c) \/ Balance(c) \/ GiveUp(c) \/ ClientStep(c)
    PROVE  Held'
<1>1. UNCHANGED <<LBResultOnWrite, concurrency>>
  BY DEF Disconnect, Balance, GiveUp, ClientStep, EntryStep, LoopStep, CleanupStep,
         JoinWriter, ClaimWriter, SpawnWriter, ResetState, RegisterClient, EnterLoop,
         ReadStep, ReturnDone, ReturnCancelled, ReturnUnwritten, ReturnError, Return,
         Uncount, Drain, ClearLast, NotifyLast, Recount, CancelWriter, ClearAgain, Exit,
         coordVars, writerVars
<1>2. CASE UNCHANGED wpc
  BY <1>1, <1>2 DEF Held
<1>3. CASE SpawnWriter(c)
  <2>1. Running = {} /\ wpc' = [wpc EXCEPT ![starts + 1] = "start"] /\ wpc \in [Writers -> WriterPcs]
    BY <1>3 DEF SpawnWriter, Go, Owned
  <2>2. LBResultOnWrite = 0
    BY <2>1, StartsBound DEF Held, Running, Writers
  <2> QED
    BY <1>1, <2>1, <2>2 DEF Held
<1> QED
  BY <1>2, <1>3, ClientMoves DEF ClaimWriter, writerVars, Moves, Owned

\* Every step keeps the connection counted.
LEMMA HeldInv == Owned /\ Held /\ [SessionNext]_vars => Held'
<1> SUFFICES ASSUME Owned, Held, [SessionNext]_vars PROVE Held'
  OBVIOUS
<1>1. CASE UNCHANGED vars
  BY <1>1 DEF vars, coordVars, writerVars, Held
<1> QED
  BY <1>1, HeldClient, HeldWriter DEF SessionNext

\* No connection is counted initially.
LEMMA HeldInit == SessionInit => Held
BY StartsBound DEF SessionInit, Held

\* What ConcurrencyExact counts is the holder of the result, if there is one.
LEMMA HeldCounts == Owned /\ Held => ConcurrencyExact
<1> SUFFICES ASSUME Owned, Held PROVE ConcurrencyExact
  OBVIOUS
<1> DEFINE H == {w \in Writers : wpc[w] # "off" /\ LBResultOnWrite = w}
<1>1. CASE LBResultOnWrite = 0
  <2>1. H = {}
    BY <1>1, StartsBound DEF Writers
  <2> QED
    BY <1>1, <2>1, FS_EmptySet DEF Held, ConcurrencyExact
<1>2. CASE LBResultOnWrite # 0
  <2>1. H = {LBResultOnWrite}
    BY <1>2, StartsBound DEF Held, Writers
  <2> QED
    BY <1>2, <2>1, FS_Singleton DEF Held, ConcurrencyExact
<1> QED
  BY <1>1, <1>2

-----------------------------------------------------------------------------
(* What a quiet stream leaves behind.                                      *)

\* From SpawnWriter to the last client's Drain; to its last ClearBuffer; from
\* ClaimWriter to CancelWriter.
Attending == {"register", "count", "start", "reading", "unreg", "drain"}
Present == Attending \cup {"clear", "notify", "recount", "cancel", "reclear"}
Keeping == Attending \cup {"init", "clear", "notify", "recount", "cancel"}
SomeoneIn(P) == \E c \in Clients : cpc[c] \in P

\* A stream that was started is active only while a client attends it; the ring holds
\* chunks, and the coordinator a context, only while a client is there to remove them.
Attended ==
    /\ starts > 0 /\ state = "active" => SomeoneIn(Attending)
    /\ (\E i \in Positions : slot[i] # EmptyChunk) => SomeoneIn(Present)
    /\ WriterCtx # 0 => SomeoneIn(Keeping)

\* A counter above what one client accounts for means that another client is counted.
LEMMA OthersCounted ==
    ASSUME Counted
    PROVE  /\ ClientCount # 0 => \E d \in Clients : d \in Registered
           /\ \A c \in Registered : ClientCount # 1 => \E d \in Registered : d # c
<1>1. ClientCount # 0 => Registered # {}
  BY FS_EmptySet DEF Counted, CountExact
<1>2. ASSUME NEW c \in Registered, ClientCount # 1
      PROVE  \E d \in Registered : d # c
  <2>1. Registered # {c}
    BY <1>2, FS_Singleton DEF Counted, CountExact
  <2> QED
    BY <2>1
<1> QED
  BY <1>1, <1>2 DEF Registered

\* The last client to leave drains, clears and cancels; others leave it to a client
\* that is still counted.
LEMMA AttendedClient ==
    ASSUME Owned, Counted, Attended, NEW c \in Clients,
           Disconnect(c) \/ Balance(c) \/ GiveUp(c) \/ ClientStep(c)
    PROVE  Attended'
<1> USE DEF Go, coordVars, clientVars, SomeoneIn, Attending, Present, Keeping
<1>0. /\ cpc \in [Clients -> ClientPcs] /\ starts \in Nat
      /\ \A x : cpc' = [cpc EXCEPT ![c] = x] =>
            cpc'[c] = x /\ \A d \in Clients : d # c => cpc'[d] = cpc[d]
  BY DEF Owned
<1>1. CASE Disconnect(c) \/ ReadStep(c)
  <2>1. UNCHANGED <<cpc, slot, state, starts, WriterCtx>>
    BY <1>1 DEF Disconnect, ReadStep, bufferVars, ringVars, ReadChunks, subscribe, Resume,
                Continue, writerVars
  <2> QED
    BY <2>1 DEF Attended, EmptyChunk
<1>2. CASE Balance(c) \/ GiveUp(c) \/ Exit(c)
  <2>1. /\ UNCHANGED <<slot, state, starts, WriterCtx>>
        /\ cpc[c] \notin Present \cup Keeping
        /\ \E x \in {"ready", "gone", "idle"} : cpc' = [cpc EXCEPT ![c] = x]
    BY <1>2 DEF Balance, GiveUp, Exit, bufferVars, writerVars
  <2> QED
    BY <1>0, <2>1 DEF Attended, EmptyChunk
<1>3. CASE JoinWriter(c) \/ RegisterClient(c) \/ EnterLoop(c)
  <2>1. /\ UNCHANGED <<slot, state, starts, WriterCtx>>
        /\ \E x \in Attending : cpc' = [cpc EXCEPT ![c] = x]
    BY <1>3 DEF JoinWriter, RegisterClient, EnterLoop, JoinReader, ringVars, bufferVars, writerVars
  <2> QED
    BY <1>0, <2>1 DEF Attended, EmptyChunk
<1>4. CASE ClaimWriter(c)
  <2>1. /\ UNCHANGED <<slot, state, starts>> /\ cpc[c] = "ready"
        /\ cpc' = [cpc EXCEPT ![c] = "init"]
    BY <1>4 DEF ClaimWriter, bufferVars, writerVars
  <2> QED
    BY <1>0, <2>1 DEF Attended, EmptyChunk
<1>5. CASE SpawnWriter(c)
  <2>1. /\ slot' = [i \in Positions |-> EmptyChunk] /\ WriterCtx' = WriterCtx
        /\ cpc' = [cpc EXCEPT ![c] = "register"]
    BY <1>5 DEF SpawnWriter, ClearBuffer
  <2> QED
    BY <1>0, <2>1 DEF Attended, EmptyChunk
<1>6. CASE ResetState(c)
  <2>1. UNCHANGED <<slot, starts, WriterCtx>> /\ cpc' = [cpc EXCEPT ![c] = "count"]
    BY <1>6 DEF ResetState, SetState, bufferVars, ringVars, writerVars
  <2> QED
    BY <1>0, <2>1 DEF Attended, EmptyChunk
<1>7. CASE ReturnDone(c) \/ ReturnCancelled(c) \/ ReturnUnwritten(c) \/ ReturnError(c)
  <2>1. UNCHANGED <<slot, state, starts, WriterCtx>> /\ cpc' = [cpc EXCEPT ![c] = "unreg"]
    BY <1>7 DEF ReturnDone, ReturnCancelled, ReturnUnwritten, ReturnError, Return, LeaveReader,
                ringVars, writerVars
  <2> QED
    BY <1>0, <2>1 DEF Attended, EmptyChunk
<1>8. CASE Uncount(c)
  <2>1. /\ UNCHANGED <<slot, state, starts, WriterCtx>> /\ c \in Registered
        /\ cpc' = [cpc EXCEPT ![c] = IF ClientCount = 1 THEN "drain" ELSE "recount"]
    BY <1>8 DEF Uncount, bufferVars, writerVars, Registered
  <2>2. ClientCount # 1 => \E d \in Registered : d # c
    BY <2>1, OthersCounted
  <2> QED
    BY <1>0, <2>1, <2>2 DEF Attended, EmptyChunk, Registered
<1>9. CASE Drain(c)
  <2>1. /\ UNCHANGED <<slot, starts, WriterCtx>> /\ state' = "draining"
        /\ cpc' = [cpc EXCEPT ![c] = "clear"]
    BY <1>9 DEF Drain, SetState, ringVars, writerVars
  <2> QED
    BY <1>0, <2>1 DEF Attended, EmptyChunk
<1>10. CASE ClearLast(c) \/ ClearAgain(c)
  <2>1. /\ slot' = [i \in Positions |-> EmptyChunk] /\ UNCHANGED <<state, starts, WriterCtx>>
        /\ \/ cpc[c] = "clear" /\ cpc' = [cpc EXCEPT ![c] = "notify"]
           \/ cpc[c] = "reclear" /\ cpc' = [cpc EXCEPT ![c] = "leave"]
    BY <1>10 DEF ClearLast, ClearAgain, ClearBuffer, writerVars
  <2> QED
    BY <1>0, <2>1 DEF Attended, EmptyChunk
<1>11. CASE NotifyLast(c)
  <2>1. /\ UNCHANGED <<slot, state, starts, WriterCtx>> /\ cpc[c] = "notify"
        /\ cpc' = [cpc EXCEPT ![c] = "recount"]
    BY <1>11 DEF NotifyLast, notifySubscribers, ringVars, writerVars
  <2> QED
    BY <1>0, <2>1 DEF Attended, EmptyChunk
<1>12. CASE Recount(c)
  <2>1. /\ UNCHANGED <<slot, state, starts, WriterCtx>> /\ cpc[c] = "recount"
        /\ cpc' = [cpc EXCEPT ![c] = IF ClientCount = 0 THEN "cancel" ELSE "leave"]
    BY <1>12 DEF Recount, bufferVars, writerVars
  <2>2. ClientCount # 0 => \E d \in Clients : d # c /\ d \in Registered
    BY <2>1, OthersCounted DEF Registered
  <2> QED
    BY <1>0, <2>1, <2>2 DEF Attended, EmptyChunk, Registered
<1>13. CASE CancelWriter(c)
  <2>1. /\ UNCHANGED <<slot, state, starts>> /\ cpc[c] = "cancel" /\ WriterCtx' = 0
        /\ cpc' = [cpc EXCEPT ![c] = "reclear"]
    BY <1>13 DEF CancelWriter, bufferVars, writerVars
  <2> QED
    BY <1>0, <2>1 DEF Attended, EmptyChunk
<1> QED
  BY <1>1, <1>2, <1>3, <1>4, <1>5, <1>6, <1>7, <1>8, <1>9, <1>10, <1>11, <1>12, <1>13
     DEF ClientStep, EntryStep, LoopStep, CleanupStep

\* A writer fills the ring of an active, hence attended, stream only.
LEMMA AttendedWriter ==
    ASSUME Owned, Attended, NEW w \in Writers, WriterStepOf(w)
    PROVE  Attended'
<1> USE DEF GoW, SomeoneIn
<1>0. UNCHANGED <<cpc, WriterCtx, starts>>
  <2>1. CASE WriterEnds(w)
    BY <2>1 DEF WriterEnds, clientVars
  <2> QED
    BY <2>1, WriterWorks DEF Owned, Works
<1>1. CASE UNCHANGED <<slot, state>>
  BY <1>0, <1>1 DEF Attended, EmptyChunk
<1>2. ASSUME NEW v, Write(v), wpc[w] # "off" PROVE Attended'
  <2>1. CASE PutChunk(v)
    <3>1. state = "active" /\ starts > 0
      BY <1>2, <2>1, StartsBound DEF PutChunk, Owned, Writers
    <3>2. SomeoneIn(Attending) /\ SomeoneIn(Present)
      BY <3>1 DEF Attended, Present
    <3> QED
      BY <1>0, <3>2 DEF Attended
  <2> QED
    BY <1>1, <1>2, <2>1 DEF Write, DropChunk, ringVars
<1>3. CASE ReadData(w) \/ PutError(w)
  BY <1>2, <1>3 DEF ReadData, PutError
<1>4. CASE CloseState(w)
  <2>1. slot' = slot /\ state' = "closed"
    BY <1>4 DEF CloseState, SetState, ringVars
  <2> QED
    BY <1>0, <2>1 DEF Attended, EmptyChunk
<1>5. CASE ~(ReadData(w) \/ PutError(w) \/ CloseState(w))
  BY <1>1, <1>5 DEF WriterStepOf, ReadReturns, WriterBegin, LoopEnds, LoopPanics, LoopFails, LoopReads,
         ReadRetry, ReadEmpty, WriterNotify, ErrorNotify, ReleaseWriter, WriterEnds,
         notifySubscribers, ringVars, bufferVars
<1> QED
  BY <1>3, <1>4, <1>5

\* Every step keeps the stream attended.
LEMMA AttendedInv == Owned /\ Counted /\ Attended /\ [SessionNext]_vars => Attended'
<1> SUFFICES ASSUME Owned, Counted, Attended, [SessionNext]_vars PROVE Attended'
  OBVIOUS
<1>1. CASE UNCHANGED vars
  BY <1>1 DEF vars, bufferVars, clientVars, coordVars, writerVars, Attended, SomeoneIn, EmptyChunk
<1> QED
  BY <1>1, AttendedClient, AttendedWriter DEF SessionNext

\* The initial ring is empty, and no context is there.
LEMMA AttendedInit == SessionInit => Attended
BY DEF SessionInit, Init, Attended

\* When nobody attends and no writer runs, all is clean.
LEMMA AttendedIsClean == Owned /\ Held /\ Attended => QuiescentClean
<1> SUFFICES ASSUME Owned, Held, Attended,
                    \A c \in Clients : cpc[c] \in {"idle", "ready", "gone"}, Running = {}
             PROVE  /\ \A i \in Positions : slot[i] = EmptyChunk
                    /\ WriterCtx = 0 /\ LBResultOnWrite = 0 /\ concurrency = 0
                    /\ starts > 0 => state # "active"
  BY DEF QuiescentClean
<1>1. ~SomeoneIn(Attending) /\ ~SomeoneIn(Present) /\ ~SomeoneIn(Keeping)
  BY DEF SomeoneIn, Attending, Present, Keeping
<1>2. LBResultOnWrite = 0
  BY StartsBound DEF Held, Running, Writers
<1> QED
  BY <1>1, <1>2 DEF Attended, Held

-----------------------------------------------------------------------------
(* The remaining types, and the theorems about the session.                *)

\* A nonempty set of positions in a sequence has a last one.
LEMMA LastOfSet ==
    ASSUME NEW n \in Nat, NEW S \in SUBSET (1 .. n), S # {}
    PROVE  \E j \in S : \A k \in S : k <= j
<1> DEFINE T == {n - j : j \in S}
<1>0. \A j \in S : j \in Nat /\ n - j \in Nat
  OBVIOUS
<1>1. T \subseteq Nat /\ T # {}
  BY <1>0
<1>2. PICK x \in T : \A y \in T : ~(<<y, x>> \in OpToRel(<, Nat))
  BY <1>1, NatLessThanWellFounded, WFMin
<1>3. \A y \in T : ~(y < x)
  BY <1>1, <1>2 DEF OpToRel
<1>4. PICK j \in S : x = n - j
  BY <1>2
<1>5. \A k \in S : ~(n - k < n - j)
  BY <1>3, <1>4
<1>6. \A k \in S : k <= j
  BY <1>0, <1>5
<1> QED
  BY <1>6

\* HandleStream returns the status of an error chunk it was given.
LEMMA LastErrorType ==
    ASSUME TypeOK, NEW c \in Clients, Errors(c) # {}
    PROVE  LastErrorOf(c) \in ErrorStatus
<1>1. last[c].got \in Seq(Chunk)
  BY DEF TypeOK, Reports, Clients
<1>2. Len(last[c].got) \in Nat /\ Errors(c) \in SUBSET (1 .. Len(last[c].got))
  BY <1>1 DEF Errors
<1>3. \E j \in Errors(c) : \A k \in Errors(c) : k <= j
  BY <1>2, LastOfSet
<1>4. \A j \in Errors(c) : last[c].got[j].value \in ErrorStatus
  BY DEF Errors
<1> QED
  BY <1>3, <1>4 DEF LastErrorOf

\* The types that the other parts of the invariant do not give.
Typed ==
    /\ want \in [Clients -> BOOLEAN]
    /\ lb \in [Clients -> {"none", "fresh", "borrowed"}]
    /\ result \in [Clients -> {"none"} \cup ErrorStatus]
    /\ WriterCtx \in 0 .. MaxStarts
    /\ cancelled \subseteq Writers
    /\ wctx \in [Writers -> 0 .. MaxStarts]
    /\ wbody \in [Writers -> {"open", "closed"}]

\* A client's step keeps them.
LEMMA TypedClient ==
    ASSUME TypeOK, Owned, Typed, NEW c \in Clients,
           Disconnect(c) \/ Balance(c) \/ GiveUp(c) \/ ClientStep(c)
    PROVE  Typed'
<1> USE DEF Go, coordVars, clientVars, writerVars, Typed
<1>1. CASE Disconnect(c) \/ ReadStep(c) \/ Balance(c) \/ GiveUp(c) \/ Exit(c)
  BY <1>1 DEF Disconnect, ReadStep, Balance, GiveUp, Exit
<1>2. CASE JoinWriter(c) \/ RegisterClient(c) \/ EnterLoop(c) \/ ResetState(c)
  BY <1>2 DEF JoinWriter, RegisterClient, EnterLoop, ResetState
<1>3. CASE ClaimWriter(c)
  <2>1. starts + 1 \in 0 .. MaxStarts
    BY <1>3, StartsBound DEF ClaimWriter, Owned
  <2> QED
    BY <1>3, <2>1 DEF ClaimWriter
<1>4. CASE SpawnWriter(c)
  BY <1>4 DEF SpawnWriter
<1>5. CASE ReturnDone(c) \/ ReturnCancelled(c) \/ ReturnUnwritten(c)
  BY <1>5 DEF ReturnDone, ReturnCancelled, ReturnUnwritten, Return, ErrorStatus
<1>6. CASE ReturnError(c)
  BY <1>6, LastErrorType DEF ReturnError, Return
<1>7. CASE Uncount(c) \/ Drain(c) \/ ClearLast(c) \/ NotifyLast(c) \/ Recount(c) \/ ClearAgain(c)
  BY <1>7 DEF Uncount, Drain, ClearLast, NotifyLast, Recount, ClearAgain
<1>8. CASE CancelWriter(c)
  <2>1. {WriterCtx} \ {0} \subseteq Writers /\ 0 \in 0 .. MaxStarts
    BY StartsBound DEF Writers
  <2> QED
    BY <1>8, <2>1 DEF CancelWriter
<1> QED
  BY <1>1, <1>2, <1>3, <1>4, <1>5, <1>6, <1>7, <1>8 DEF ClientStep, EntryStep, LoopStep, CleanupStep

\* So does a writer's.
LEMMA TypedWriter ==
    ASSUME Typed, NEW w \in Writers, WriterStepOf(w)
    PROVE  Typed'
<1> USE DEF GoW, coordVars, clientVars, Typed
<1>1. CASE WriterBegin(w) \/ LoopEnds(w) \/ LoopPanics(w) \/ LoopFails(w) \/ LoopReads(w)
  BY <1>1 DEF WriterBegin, LoopEnds, LoopPanics, LoopFails, LoopReads
<1>2. CASE ReadReturns(w)
  BY <1>2 DEF ReadReturns, ReadData, ReadRetry, ReadEmpty
<1>3. CASE WriterNotify(w) \/ PutError(w) \/ ErrorNotify(w) \/ CloseState(w) \/ ReleaseWriter(w)
  BY <1>3 DEF WriterNotify, PutError, ErrorNotify, CloseState, ReleaseWriter
<1>4. CASE WriterEnds(w)
  <2>1. 0 \in 0 .. MaxStarts
    BY StartsBound
  <2> QED
    BY <1>4, <2>1 DEF WriterEnds
<1> QED
  BY <1>1, <1>2, <1>3, <1>4 DEF WriterStepOf

\* Every step keeps them.
LEMMA TypedInv == TypeOK /\ Owned /\ Typed /\ [SessionNext]_vars => Typed'
<1> SUFFICES ASSUME TypeOK, Owned, Typed, [SessionNext]_vars PROVE Typed'
  OBVIOUS
<1>1. CASE UNCHANGED vars
  BY <1>1 DEF vars, clientVars, coordVars, writerVars, Typed
<1> QED
  BY <1>1, TypedClient, TypedWriter DEF SessionNext

\* The initial types.
LEMMA TypedInit == SessionInit => Typed
BY StartsBound DEF SessionInit, Typed

\* The inductive invariant of the session.
SessionInv == Owned /\ Counted /\ Held /\ Attended /\ Typed

\* It holds in every reachable state.
THEOREM SessionInvariance == SessionSpec => [](SessionInv /\ TypeOK /\ WriterHasStatus)
<1>1. SessionInit => SessionInv
  BY OwnedInit, CountedInit, HeldInit, AttendedInit, TypedInit DEF SessionInv
<1>2. TypeOK /\ SessionInv /\ [SessionNext]_vars => SessionInv'
  BY OwnedInv, CountedInv, HeldInv, AttendedInv, TypedInv DEF SessionInv
<1>3. SessionSpec => []TypeOK
  BY SessionImplementsBuffer, TypeCorrect, PTL DEF ImplementsBuffer
<1>4. SessionInit => WriterHasStatus
  BY StatusInit
<1>5. WriterHasStatus /\ [SessionNext]_vars => WriterHasStatus'
  BY StatusInv
<1> QED
  BY <1>1, <1>2, <1>3, <1>4, <1>5, PTL DEF SessionSpec

\* Every variable of the session keeps its type; the client counter is never negative.
THEOREM SessionTypes == SessionSpec => []SessionTypeOK
<1>1. SessionInv /\ TypeOK /\ WriterHasStatus => SessionTypeOK
  <2> SUFFICES ASSUME SessionInv, TypeOK, WriterHasStatus PROVE SessionTypeOK
    OBVIOUS
  <2>1. ClientCount \in Nat
    BY FS_CardinalityType DEF SessionInv, Counted, CountExact
  <2>2. concurrency \in Nat
    BY DEF SessionInv, Held
  <2> QED
    BY <2>1, <2>2
       DEF SessionTypeOK, SessionInv, Owned, Held, Typed, WriterHasStatus, ClientPcs, WriterPcs
<1> QED
  BY <1>1, SessionInvariance, PTL

\* However clients come, go and restart the stream, at most one writer goroutine
\* serves the ring, and WriterActive says whether there is one.
THEOREM OneWriter == SessionSpec => []SingleWriter
<1>1. SessionInv => SingleWriter
  <2> SUFFICES ASSUME SessionInv PROVE SingleWriter
    OBVIOUS
  <2>1. Running = {} \/ \E w \in Running : Running = {w}
    BY DEF SessionInv, Owned
  <2>2. Cardinality(Running) <= 1
    BY <2>1, FS_EmptySet, FS_Singleton
  <2> QED
    BY <2>2 DEF SessionInv, Owned, SingleWriter
<1> QED
  BY <1>1, SessionInvariance, PTL

\* ClientCount is exact: no path through HandleStream forgets to unregister a client.
THEOREM ClientsCounted == SessionSpec => []CountExact
BY SessionInvariance, PTL DEF SessionInv, Counted

\* The connection a writer holds is counted once, and given back on every way out.
THEOREM ConnectionCounted == SessionSpec => []ConcurrencyExact
<1>1. SessionInv => ConcurrencyExact
  BY HeldCounts DEF SessionInv
<1> QED
  BY <1>1, SessionInvariance, PTL

\* A stream that all clients and its writer have left is clean.
THEOREM LeftClean == SessionSpec => []QuiescentClean
<1>1. SessionInv => QuiescentClean
  BY AttendedIsClean DEF SessionInv
<1> QED
  BY <1>1, SessionInvariance, PTL

-----------------------------------------------------------------------------
(* A stream that nobody watches.                                           *)

\* The steps a writer has left, at most, when nobody attends its stream.
StepsLeft ==
    [p \in WriterPcs |->
        CASE p = "start" -> 7 [] p \in {"read", "notify"} -> 6 [] p \in {"loop", "put"} -> 5
          [] p = "errnotify" -> 4 [] p = "close" -> 3 [] p = "release" -> 2 [] p = "flag" -> 1
          [] OTHER -> 0]

\* WriterStops, as far as single steps can show it: from the last client's Drain on,
\* for as long as no new client registers, every step of the writer brings it nearer
\* to its end, and no step of a client takes it back.
WindsDown ==
    [][\A w \in Running :
          ~SomeoneIn(Attending) /\ (WriterStepOf(w) \/ wpc'[w] # wpc[w]) =>
              StepsLeft[wpc'[w]] < StepsLeft[wpc[w]]]_vars

\* A writer whose stream is not active runs to its end: it may not read again, nor
\* write a chunk (the loop condition of readAndWriteStream, Write).
LEMMA WriterWindsDown ==
    ASSUME Owned, state # "active", NEW w \in Writers, WriterStepOf(w)
    PROVE  StepsLeft[wpc'[w]] < StepsLeft[wpc[w]]
<1> USE DEF GoW, WriterPcs, StepsLeft
<1>0. wpc \in [Writers -> WriterPcs]
  BY DEF Owned
<1>1. CASE WriterBegin(w) \/ LoopEnds(w)
  BY <1>0, <1>1 DEF WriterBegin, LoopEnds
<1>2. ~(LoopPanics(w) \/ LoopFails(w) \/ LoopReads(w))
  BY DEF LoopPanics, LoopFails, LoopReads
<1>3. CASE ReadReturns(w)
  BY <1>0, <1>3 DEF ReadReturns, ReadData, ReadRetry, ReadEmpty
<1>4. CASE WriterNotify(w) \/ PutError(w) \/ ErrorNotify(w)
  BY <1>0, <1>4 DEF WriterNotify, PutError, ErrorNotify
<1>5. CASE CloseState(w) \/ ReleaseWriter(w) \/ WriterEnds(w)
  BY <1>0, <1>5 DEF CloseState, ReleaseWriter, WriterEnds
<1> QED
  BY <1>1, <1>2, <1>3, <1>4, <1>5 DEF WriterStepOf

\* Only a writer that runs takes steps.
LEMMA WriterRuns ==
    ASSUME Owned, NEW w \in Writers, WriterStepOf(w)
    PROVE  w \in Running
<1> USE DEF GoW, Running
<1>1. CASE WriterEnds(w)
  BY <1>1 DEF WriterEnds
<1> QED
  BY <1>1, WriterWorks DEF Owned, Works

\* An unwatched stream is given up within seven steps of its writer.
THEOREM UnwatchedWriterEnds == SessionSpec => WindsDown
<1>1. ASSUME SessionInv, [SessionNext]_vars, NEW w \in Running, ~SomeoneIn(Attending),
             WriterStepOf(w) \/ wpc'[w] # wpc[w]
      PROVE  StepsLeft[wpc'[w]] < StepsLeft[wpc[w]]
  <2>1. Owned /\ Attended /\ w \in Writers /\ wpc[w] # "off"
    BY <1>1 DEF SessionInv, Running
  <2>2. starts > 0
    BY <2>1, StartsBound DEF Owned, Writers
  <2>3. state # "active"
    BY <1>1, <2>1, <2>2 DEF Attended
  <2>4. CASE WriterStepOf(w)
    BY <2>1, <2>3, <2>4, WriterWindsDown
  <2>5. CASE wpc' = wpc
    BY <1>1, <2>4, <2>5
  <2>6. ASSUME NEW c \in Clients, Disconnect(c) \/ Balance(c) \/ GiveUp(c) \/ ClientStep(c)
        PROVE  StepsLeft[wpc'[w]] < StepsLeft[wpc[w]]
    <3>1. CASE SpawnWriter(c)
      <4>1. Running = {}
        BY <2>1, <3>1 DEF SpawnWriter, Go, Owned
      <4> QED
        BY <4>1
    <3>2. CASE ClaimWriter(c)
      BY <2>5, <3>2 DEF ClaimWriter, writerVars
    <3>3. CASE ~SpawnWriter(c) /\ ~ClaimWriter(c)
      BY <2>1, <2>5, <2>6, <3>3, ClientMoves DEF Owned, Moves
    <3> QED
      BY <3>1, <3>2, <3>3
  <2>7. ASSUME NEW v \in Writers, WriterStepOf(v), v # w
        PROVE  StepsLeft[wpc'[w]] < StepsLeft[wpc[w]]
    <3>1. v \in Running
      BY <2>1, <2>7, WriterRuns
    <3> QED
      BY <1>1, <2>1, <2>7, <3>1 DEF Owned
  <2>8. CASE UNCHANGED vars
    BY <2>5, <2>8 DEF vars, writerVars
  <2> QED
    BY <1>1, <2>4, <2>6, <2>7, <2>8 DEF SessionNext
<1>2. SessionInv /\ [SessionNext]_vars =>
        [\A w \in Running :
            ~SomeoneIn(Attending) /\ (WriterStepOf(w) \/ wpc'[w] # wpc[w]) =>
                StepsLeft[wpc'[w]] < StepsLeft[wpc[w]]]_vars
  BY <1>1
<1> QED
  BY <1>2, SessionInvariance, PTL DEF SessionSpec, WindsDown

=============================================================================
