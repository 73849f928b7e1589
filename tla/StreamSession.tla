--------------------------- MODULE StreamSession ---------------------------
(***************************************************************************)
(* The life of one StreamCoordinator under the clients and writers that    *)
(* share it: StreamHandler.HandleStream (proxy/stream/media_stream.go),    *)
(* RegisterClient, UnregisterClient and writeError (coordinator.go),       *)
(* StartMediaWriter and its read loop (coordinator_media.go), and the      *)
(* retry loop of handleStream (handlers/stream_http.go) around them.       *)
(*                                                                         *)
(* A client is one HTTP request for the stream; its goroutine walks        *)
(* through HandleStream.  A writer is one goroutine started by some        *)
(* client; writer w is the w-th one started.  Steps are cut where another  *)
(* goroutine can observe the difference: at lock boundaries and atomics.   *)
(* WriterChan is left out (nothing ever receives from it), and so are the  *)
(* response headers.                                                       *)
(***************************************************************************)
EXTENDS SharedBuffer

CONSTANTS MaxStarts,  \* bound: writers started over a behaviour
          MaxData     \* bound: no data chunk is written beyond this number

ASSUME StartsBound == MaxStarts \in Nat \ {0}
ASSUME DataBound == MaxData \in Nat /\ MaxData + MaxStarts <= MaxSeq

VARIABLES cpc,              \* where each client is in handleStream / HandleStream
          want,             \* the client's request is alive (its ctx is not done)
          lb,               \* the load balancer result the client holds
          result,           \* the status HandleStream returns to this client
          ClientCount,
          WriterActive,
          WriterCtx,        \* c.WriterCtx with c.WriterCancel: 0 is nil, else an id
          cancelled,        \* the ids of cancelled contexts
          LBResultOnWrite,  \* 0 is nil, else the writer that stored its result
          starts,           \* number of writers started
          wpc,              \* where each writer is
          wctx,             \* the context the writer was called with
          wbody,            \* whether its response body is still open upstream
          wstatus,          \* the exit status it is about to write, or "none"
          concurrency       \* ConcurrencyManager's count for the stream's source

clientVars == <<cpc, want, lb, result>>
coordVars == <<ClientCount, WriterActive, WriterCtx, cancelled, LBResultOnWrite>>
writerVars == <<starts, wpc, wctx, wbody, wstatus, concurrency>>
vars == <<bufferVars, clientVars, coordVars, writerVars>>

Clients == Readers
Writers == 1 .. MaxStarts

\* handleExitCode: on these statuses handleStream goes round its loop again.
RetryStatus == {"ServerError", "EOF"}

\* InitializationMu is held from the test of WriterActive to the end of RegisterClient.
HoldsInit == {"init", "register", "count"}
InitFree == \A c \in Clients : cpc[c] \notin HoldsInit

\* Clients counted in ClientCount.
Registered == {c \in Clients : cpc[c] \in {"start", "reading", "unreg"}}

\* Writer goroutines that exist.
Running == {w \in Writers : wpc[w] \notin {"off", "done"}}

Go(c, from_, to) == cpc[c] = from_ /\ cpc' = [cpc EXCEPT ![c] = to]
GoW(w, from_, to) == wpc[w] = from_ /\ wpc' = [wpc EXCEPT ![w] = to]

SessionInit ==
    /\ Init
    /\ cpc = [c \in Clients |-> "idle"]
    /\ want = [c \in Clients |-> TRUE]
    /\ lb = [c \in Clients |-> "none"]
    /\ result = [c \in Clients |-> "none"]
    /\ ClientCount = 0
    /\ WriterActive = FALSE
    /\ WriterCtx = 0
    /\ cancelled = {}
    /\ LBResultOnWrite = 0
    /\ starts = 0
    /\ wpc = [w \in Writers |-> "off"]
    /\ wctx = [w \in Writers |-> 0]
    /\ wbody = [w \in Writers |-> "closed"]
    /\ wstatus = [w \in Writers |-> "none"]
    /\ concurrency = 0

-----------------------------------------------------------------------------
(* A request, up to HandleStream.                                          *)

\* The HTTP client goes away: ctx is done.
Disconnect(c) ==
    /\ want[c] /\ cpc[c] # "idle"
    /\ want' = [want EXCEPT ![c] = FALSE]
    /\ UNCHANGED <<bufferVars, cpc, lb, result, coordVars, writerVars>>

\* One round of handleStream's loop: take the result of the running writer, or
\* ask the load balancer for a new one (external here: LoadBalancer models it).
Balance(c) ==
    /\ Go(c, "idle", "ready")
    /\ lb' = [lb EXCEPT ![c] = IF LBResultOnWrite = 0 THEN "fresh" ELSE "borrowed"]
    /\ UNCHANGED <<bufferVars, want, result, coordVars, writerVars>>

\* The load balancer fails, or ctx is done between two rounds: handleStream returns.
GiveUp(c) ==
    /\ Go(c, "idle", "gone")
    /\ want' = [want EXCEPT ![c] = FALSE]
    /\ UNCHANGED <<bufferVars, lb, result, coordVars, writerVars>>

-----------------------------------------------------------------------------
(* HandleStream: start a writer if there is none, then register.           *)

\* Lock InitializationMu; a writer is there already, and the result goes unused.
JoinWriter(c) ==
    /\ InitFree
    /\ WriterActive
    /\ Go(c, "ready", "register")
    /\ lb' = [lb EXCEPT ![c] = "none"]
    /\ UNCHANGED <<bufferVars, want, result, coordVars, writerVars>>

\* Mutant of ClaimWriter: WriterActive is not tested.
ClaimWriterUnchecked(c) ==
    /\ InitFree
    /\ starts < MaxStarts
    /\ Go(c, "ready", "init")
    /\ WriterActive' = TRUE
    /\ WriterCtx' = IF WriterCtx = 0 THEN starts + 1 ELSE WriterCtx
    /\ UNCHANGED <<bufferVars, want, lb, result, ClientCount, cancelled, LBResultOnWrite, writerVars>>

\* Lock InitializationMu; no writer: claim the flag and make sure there is a context.
ClaimWriter(c) ==
    /\ InitFree
    /\ ~WriterActive
    /\ starts < MaxStarts
    /\ Go(c, "ready", "init")
    /\ WriterActive' = TRUE
    /\ WriterCtx' = IF WriterCtx = 0 THEN starts + 1 ELSE WriterCtx
    /\ UNCHANGED <<bufferVars, want, lb, result, ClientCount, cancelled, LBResultOnWrite, writerVars>>

\* ClearBuffer, then the go statement.  A borrowed result belongs to a writer that
\* has ended, so its response body is closed.
SpawnWriter(c) ==
    /\ Go(c, "init", "register")
    /\ ClearBuffer
    /\ starts' = starts + 1
    /\ wpc' = [wpc EXCEPT ![starts + 1] = "start"]
    /\ wbody' = [wbody EXCEPT ![starts + 1] = IF lb[c] = "fresh" THEN "open" ELSE "closed"]
    /\ lb' = [lb EXCEPT ![c] = "none"]
    /\ UNCHANGED <<want, result, coordVars, wctx, wstatus, concurrency>>

\* Mutant of ResetState: a stream that is restarted also restarts its numbering.
ResetStateRenumbers(c) ==
    /\ Go(c, "register", "count")
    /\ IF state # "active" /\ ClientCount = 0
       THEN state' = "active" /\ writeSeq' = 0 /\ UNCHANGED <<slot, Buffer, readerVars>>
       ELSE UNCHANGED bufferVars
    /\ UNCHANGED <<want, lb, result, coordVars, writerVars>>

\* RegisterClient's reset: a stream that is not active becomes active again, but
\* only while no client is counted.
ResetState(c) ==
    /\ Go(c, "register", "count")
    /\ IF state # "active" /\ ClientCount = 0
       THEN SetState("active")
       ELSE UNCHANGED bufferVars
    /\ UNCHANGED <<want, lb, result, coordVars, writerVars>>

\* Mutant of RegisterClient: a client of a stream that is not active is not counted.
RegisterClientActiveOnly(c) ==
    /\ Go(c, "count", "start")
    /\ ClientCount' = IF state = "active" THEN ClientCount + 1 ELSE ClientCount
    /\ UNCHANGED <<bufferVars, want, lb, result, WriterActive, WriterCtx, cancelled,
                   LBResultOnWrite, writerVars>>

\* RegisterClient's counter, then unlock InitializationMu.
RegisterClient(c) ==
    /\ Go(c, "count", "start")
    /\ ClientCount' = ClientCount + 1
    /\ UNCHANGED <<bufferVars, want, lb, result, WriterActive, WriterCtx, cancelled,
                   LBResultOnWrite, writerVars>>

-----------------------------------------------------------------------------
(* HandleStream's reader loop.  rpc says where in ReadChunks the client is. *)

EnterLoop(c) ==
    /\ Go(c, "start", "reading")
    /\ JoinReader(c)
    /\ UNCHANGED <<want, lb, result, coordVars, writerVars>>

HasData(c) == \E j \in DOMAIN last[c].got : last[c].got[j].value = "data"

\* The select on readerCtx.Done() at the head of the loop comes first, so a client
\* whose ctx is done does not call ReadChunks again; inside it, ctx is not looked at.
ReadStep(c) ==
    /\ cpc[c] = "reading"
    /\ \/ want[c] /\ ReadChunks(c)
       \/ subscribe(c)
       \/ Resume(c)
       \/ Continue(c) /\ (want[c] \/ ~HasData(c))
    /\ UNCHANGED <<clientVars, coordVars, writerVars>>

Return(c, status) ==
    /\ Go(c, "reading", "unreg")
    /\ LeaveReader(c)
    /\ result' = [result EXCEPT ![c] = status]
    /\ UNCHANGED <<lb, coordVars, writerVars>>

\* ctx is done at the head of the loop.
ReturnDone(c) ==
    /\ rpc[c] = "read" /\ ~want[c]
    /\ Return(c, "ClientClosed")
    /\ UNCHANGED want

\* ctx is done before a chunk is written.
ReturnCancelled(c) ==
    /\ rpc[c] = "deliver" /\ HasData(c) /\ ~want[c]
    /\ Return(c, "ClientClosed")
    /\ UNCHANGED want

\* Writing or flushing a chunk fails: the connection is broken.
ReturnUnwritten(c) ==
    /\ rpc[c] = "deliver" /\ HasData(c) /\ want[c]
    /\ Return(c, "ClientClosed")
    /\ want' = [want EXCEPT ![c] = FALSE]

\* An error chunk was read: return the status of the last one.
LastErrorOf(c) == last[c].got[CHOOSE j \in Errors(c) : \A k \in Errors(c) : k <= j].value
ReturnError(c) ==
    /\ rpc[c] = "deliver" /\ Errors(c) # {}
    /\ want[c] \/ ~HasData(c)
    /\ Return(c, LastErrorOf(c))
    /\ UNCHANGED want

-----------------------------------------------------------------------------
(* The deferred cleanup of HandleStream.  UnregisterClient does not take   *)
(* InitializationMu, so a registration may fall between any two steps.     *)

\* Mutant of Uncount: the client is taken off the counter twice.
UncountTwice(c) ==
    /\ Go(c, "unreg", IF ClientCount = 1 THEN "drain" ELSE "recount")
    /\ ClientCount' = ClientCount - 2
    /\ UNCHANGED <<bufferVars, want, lb, result, WriterActive, WriterCtx, cancelled,
                   LBResultOnWrite, writerVars>>

\* UnregisterClient's counter; the rest of it is for the one who reaches zero.
Uncount(c) ==
    /\ Go(c, "unreg", IF ClientCount = 1 THEN "drain" ELSE "recount")
    /\ ClientCount' = ClientCount - 1
    /\ UNCHANGED <<bufferVars, want, lb, result, WriterActive, WriterCtx, cancelled,
                   LBResultOnWrite, writerVars>>

\* Mutant of Drain: the last client leaves the stream active.
DrainForgotten(c) ==
    /\ Go(c, "drain", "clear")
    /\ UNCHANGED <<bufferVars, want, lb, result, coordVars, writerVars>>

\* The last client's store of state.
Drain(c) ==
    /\ Go(c, "drain", "clear")
    /\ SetState("draining")
    /\ UNCHANGED <<want, lb, result, coordVars, writerVars>>

ClearLast(c) ==
    /\ Go(c, "clear", "notify")
    /\ ClearBuffer
    /\ UNCHANGED <<want, lb, result, coordVars, writerVars>>

NotifyLast(c) ==
    /\ Go(c, "notify", "recount")
    /\ notifySubscribers
    /\ UNCHANGED <<want, lb, result, coordVars, writerVars>>

\* Back in HandleStream: the counter is read a second time.
Recount(c) ==
    /\ Go(c, "recount", IF ClientCount = 0 THEN "cancel" ELSE "leave")
    /\ UNCHANGED <<bufferVars, want, lb, result, coordVars, writerVars>>

\* Under WriterCtxMu: cancel the writer's context and forget it.
CancelWriter(c) ==
    /\ Go(c, "cancel", "reclear")
    /\ cancelled' = cancelled \cup ({WriterCtx} \ {0})
    /\ WriterCtx' = 0
    /\ UNCHANGED <<bufferVars, want, lb, result, ClientCount, WriterActive, LBResultOnWrite, writerVars>>

ClearAgain(c) ==
    /\ Go(c, "reclear", "leave")
    /\ ClearBuffer
    /\ UNCHANGED <<want, lb, result, coordVars, writerVars>>

\* handleExitCode on the returned status: retry, or end the request.
Exit(c) ==
    /\ \/ Go(c, "leave", "idle") /\ want[c] /\ result[c] \in RetryStatus /\ UNCHANGED want
       \/ /\ Go(c, "leave", "gone") /\ ~(want[c] /\ result[c] \in RetryStatus)
          /\ want' = [want EXCEPT ![c] = FALSE]
    /\ result' = [result EXCEPT ![c] = "none"]
    /\ UNCHANGED <<bufferVars, lb, coordVars, writerVars>>

-----------------------------------------------------------------------------
(* The writer goroutine: StartMediaWriter and readAndWriteStream.          *)

\* UpdateConcurrency(index, false), which never goes below zero.
Disconnected == concurrency' = IF concurrency > 0 THEN concurrency - 1 ELSE concurrency

\* The goroutine reads h.coordinator.WriterCtx (not under WriterCtxMu), stores its
\* result and counts the connection.
WriterBegin(w) ==
    /\ GoW(w, "start", "loop")
    /\ wctx' = [wctx EXCEPT ![w] = WriterCtx]
    /\ LBResultOnWrite' = w
    /\ concurrency' = concurrency + 1
    /\ UNCHANGED <<bufferVars, clientVars, ClientCount, WriterActive, WriterCtx, cancelled,
                   starts, wbody, wstatus>>

\* Mutant of LoopEnds: the loop goes on whatever the state is.
LoopNeverEnds(w) ==
    /\ state # "active"
    /\ GoW(w, "loop", "read")
    /\ UNCHANGED <<bufferVars, clientVars, coordVars, starts, wctx, wbody, wstatus, concurrency>>

\* The loop condition fails: the loop ends without an error.
LoopEnds(w) ==
    /\ state # "active"
    /\ GoW(w, "loop", "release")
    /\ UNCHANGED <<bufferVars, clientVars, coordVars, starts, wctx, wbody, wstatus, concurrency>>

\* Mutant of LoopPanics: the connection is given back only on a normal return.
LoopPanicsHolding(w) ==
    /\ state = "active" /\ wctx[w] = 0
    /\ GoW(w, "loop", "put")
    /\ wstatus' = [wstatus EXCEPT ![w] = "ServerError"]
    /\ wbody' = [wbody EXCEPT ![w] = "closed"]
    /\ LBResultOnWrite' = 0
    /\ UNCHANGED <<bufferVars, clientVars, ClientCount, WriterActive, WriterCtx, cancelled, starts,
                   wctx, concurrency>>

\* The loop body is entered with a nil context: ctx.Done() panics, the deferred
\* functions give the connection back, and the recovery writes a server error.
LoopPanics(w) ==
    /\ state = "active" /\ wctx[w] = 0
    /\ GoW(w, "loop", "put")
    /\ wstatus' = [wstatus EXCEPT ![w] = "ServerError"]
    /\ Disconnected
    /\ wbody' = [wbody EXCEPT ![w] = "closed"]
    /\ LBResultOnWrite' = 0
    /\ UNCHANGED <<bufferVars, clientVars, ClientCount, WriterActive, WriterCtx, cancelled, starts, wctx>>

\* The context is cancelled, or the time since the last successful read is too long.
LoopFails(w) ==
    /\ state = "active" /\ wctx[w] # 0
    /\ GoW(w, "loop", "put")
    /\ \/ wctx[w] \in cancelled /\ wstatus' = [wstatus EXCEPT ![w] = "ClientClosed"]
       \/ wctx[w] \notin cancelled /\ wstatus' = [wstatus EXCEPT ![w] = "ServerError"]
    /\ UNCHANGED <<bufferVars, clientVars, coordVars, starts, wctx, wbody, concurrency>>

\* The writer calls body.Read.
LoopReads(w) ==
    /\ state = "active" /\ wctx[w] # 0 /\ wctx[w] \notin cancelled
    /\ GoW(w, "loop", "read")
    /\ UNCHANGED <<bufferVars, clientVars, coordVars, starts, wctx, wbody, wstatus, concurrency>>

\* Read returns bytes, with or without io.EOF: Write, which drops the chunk if the
\* stream is no longer active.
ReadData(w) ==
    /\ wbody[w] = "open" /\ writeSeq < MaxData
    /\ wstatus' \in {wstatus, [wstatus EXCEPT ![w] = "EOF"]}
    /\ GoW(w, "read", IF state = "active" THEN "notify"
                      ELSE IF wstatus'[w] = "EOF" THEN "put" ELSE "loop")
    /\ Write("data")
    /\ UNCHANGED <<clientVars, coordVars, starts, wctx, wbody, concurrency>>

\* Read returns nothing, or an error with bytes that are then discarded: wait, retry.
ReadRetry(w) ==
    /\ GoW(w, "read", "loop")
    /\ UNCHANGED <<bufferVars, clientVars, coordVars, starts, wctx, wbody, wstatus, concurrency>>

\* More than ten empty reads in a row count as the end of the stream.
ReadEmpty(w) ==
    /\ GoW(w, "read", "put")
    /\ wstatus' = [wstatus EXCEPT ![w] = "EOF"]
    /\ UNCHANGED <<bufferVars, clientVars, coordVars, starts, wctx, wbody, concurrency>>

\* Write's notification, after Mu was released.
WriterNotify(w) ==
    /\ GoW(w, "notify", IF wstatus[w] = "none" THEN "loop" ELSE "put")
    /\ notifySubscribers
    /\ UNCHANGED <<clientVars, coordVars, starts, wctx, wbody, wstatus, concurrency>>

\* writeError: Write the error chunk, which is dropped if the stream is not active.
\* (By DataBound the bound of SharedBuffer is never in its way.)
PutError(w) ==
    /\ writeSeq < MaxSeq
    /\ GoW(w, "put", IF state = "active" THEN "errnotify" ELSE "close")
    /\ Write(wstatus[w])
    /\ UNCHANGED <<clientVars, coordVars, starts, wctx, wbody, wstatus, concurrency>>

ErrorNotify(w) ==
    /\ GoW(w, "errnotify", "close")
    /\ notifySubscribers
    /\ UNCHANGED <<clientVars, coordVars, starts, wctx, wbody, wstatus, concurrency>>

\* writeError's last store, whatever the state is by now.
CloseState(w) ==
    /\ GoW(w, "close", IF LBResultOnWrite = w THEN "release" ELSE "flag")
    /\ SetState("closed")
    /\ UNCHANGED <<clientVars, coordVars, starts, wctx, wbody, wstatus, concurrency>>

\* The deferred functions of StartMediaWriter.
ReleaseWriter(w) ==
    /\ GoW(w, "release", "flag")
    /\ Disconnected
    /\ wbody' = [wbody EXCEPT ![w] = "closed"]
    /\ LBResultOnWrite' = 0
    /\ UNCHANGED <<bufferVars, clientVars, ClientCount, WriterActive, WriterCtx, cancelled,
                   starts, wctx, wstatus>>

\* The deferred function of the goroutine: clear WriterActive under InitializationMu.
WriterEnds(w) ==
    /\ InitFree
    /\ GoW(w, "flag", "done")
    /\ WriterActive' = FALSE
    /\ wctx' = [wctx EXCEPT ![w] = 0]
    /\ wstatus' = [wstatus EXCEPT ![w] = "none"]
    /\ UNCHANGED <<bufferVars, clientVars, ClientCount, WriterCtx, cancelled, LBResultOnWrite,
                   starts, wbody, concurrency>>

-----------------------------------------------------------------------------
EntryStep(c) ==
    JoinWriter(c) \/ ClaimWriter(c) \/ SpawnWriter(c) \/ ResetState(c) \/ RegisterClient(c) \/ EnterLoop(c)
LoopStep(c) == ReadStep(c) \/ ReturnDone(c) \/ ReturnCancelled(c) \/ ReturnError(c)
CleanupStep(c) ==
    \/ Uncount(c) \/ Drain(c) \/ ClearLast(c) \/ NotifyLast(c)
    \/ Recount(c) \/ CancelWriter(c) \/ ClearAgain(c) \/ Exit(c)
ClientStep(c) == EntryStep(c) \/ LoopStep(c) \/ ReturnUnwritten(c) \/ CleanupStep(c)

ReadReturns(w) == ReadData(w) \/ ReadRetry(w) \/ ReadEmpty(w)
WriterStepOf(w) ==
    \/ WriterBegin(w) \/ LoopEnds(w) \/ LoopPanics(w) \/ LoopFails(w) \/ LoopReads(w) \/ ReadReturns(w)
    \/ WriterNotify(w) \/ PutError(w) \/ ErrorNotify(w) \/ CloseState(w)
    \/ ReleaseWriter(w) \/ WriterEnds(w)

SessionNext ==
    \/ \E c \in Clients : Disconnect(c) \/ Balance(c) \/ GiveUp(c) \/ ClientStep(c)
    \/ \E w \in Writers : WriterStepOf(w)

SessionSpec == SessionInit /\ [][SessionNext]_vars

\* Goroutines that can run do run: the Go scheduler is fair, and Mu and
\* InitializationMu are held for a bounded number of steps.  body.Read returning is
\* an assumption on the upstream server and its connection.  Clients need not come,
\* go, or fail to write.
Fairness ==
    /\ \A c \in Clients : WF_vars(EntryStep(c)) /\ WF_vars(LoopStep(c)) /\ WF_vars(CleanupStep(c))
    /\ \A w \in Writers : WF_vars(WriterStepOf(w)) /\ SF_vars(WriterEnds(w))

FairSession == SessionSpec /\ Fairness

-----------------------------------------------------------------------------
(* Properties.                                                             *)

\* Types of the session's state.
SessionTypeOK ==
    /\ TypeOK
    /\ cpc \in [Clients -> {"idle", "gone", "ready", "init", "register", "count", "start", "reading",
                            "unreg", "drain", "clear", "notify", "recount", "cancel",
                            "reclear", "leave"}]
    /\ want \in [Clients -> BOOLEAN]
    /\ lb \in [Clients -> {"none", "fresh", "borrowed"}]
    /\ result \in [Clients -> {"none"} \cup ErrorStatus]
    /\ ClientCount \in Nat
    /\ WriterActive \in BOOLEAN
    /\ WriterCtx \in 0 .. MaxStarts
    /\ cancelled \subseteq Writers
    /\ LBResultOnWrite \in 0 .. MaxStarts
    /\ starts \in 0 .. MaxStarts
    /\ wpc \in [Writers -> {"off", "start", "loop", "read", "notify", "put", "errnotify",
                            "close", "release", "flag", "done"}]
    /\ wctx \in [Writers -> 0 .. MaxStarts]
    /\ wbody \in [Writers -> {"open", "closed"}]
    /\ wstatus \in [Writers -> {"none"} \cup ErrorStatus]
    /\ concurrency \in Nat

\* However clients come and go, at most one writer goroutine serves the ring, and
\* WriterActive says whether there is one (or one is about to be started).
SingleWriter ==
    /\ Cardinality(Running) <= 1
    /\ WriterActive <=> (Running # {} \/ \E c \in Clients : cpc[c] = "init")

\* ClientCount is the number of clients between RegisterClient and UnregisterClient:
\* no path out of HandleStream forgets to unregister or does it twice.
CountExact == ClientCount = Cardinality(Registered)

\* The connection count goes up and down with the writer that holds the connection,
\* on every way out of the writer, the recovered panic included.
ConcurrencyExact ==
    concurrency = Cardinality({w \in Writers : wpc[w] # "off" /\ LBResultOnWrite = w})

\* When the last client has left, and its writer too, nothing of the session is left
\* behind that a later client could read: an empty ring, no context, no result.
QuiescentClean ==
    (\A c \in Clients : cpc[c] \in {"idle", "ready", "gone"}) /\ Running = {} =>
        /\ \A i \in Positions : slot[i] = EmptyChunk
        /\ WriterCtx = 0 /\ LBResultOnWrite = 0 /\ concurrency = 0
        /\ starts > 0 => state # "active"

\* Every step of clients and writers is a step that SharedBuffer allows, so what is
\* proved about SharedBuffer holds for the coordinator in use.
ImplementsBuffer == Spec

\* A stream nobody watches is given up: once all clients stay away, the writer stops.
WriterStops ==
    <>[](\A c \in Clients : cpc[c] \in {"idle", "ready", "gone"}) => <>[](Running = {})

\* A reader that has subscribed when a chunk is written is woken for it.
WaitersWoken ==
    \A c \in Clients :
        (rpc[c] = "waiting" /\ \E w \in Writers : wpc[w] \in {"notify", "errnotify"})
            ~> rpc[c] # "waiting"

(* A statement of the repository that the code does not keep.              *)

\* README.md, "How does the shared buffer work?": a reader that sees "a plate with a
\* warning flag (error)" knows "to stop eating": once the writer has put its error
\* chunk into the ring, every client reading the stream then leaves its loop.
ErrorEndsReading ==
    \A c \in Clients :
        (cpc[c] = "reading" /\ \E w \in Writers : wpc[w] = "errnotify") ~> cpc[c] # "reading"

=============================================================================
