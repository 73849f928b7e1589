----------------------------- MODULE HLSSession -----------------------------
(***************************************************************************)
(* A StreamCoordinator whose upstream is an HLS playlist: StartHLSWriter   *)
(* and its segments (buffer/coordinator_m3u8.go), the content-type check   *)
(* of HandleStream, and what ProxyStream (stream_instance.go) does with    *)
(* the load balancer result: it closes the body whenever a client leaves,  *)
(* or hands the playlist over line by line (failovers/m3u8.go) once the    *)
(* URL, one for all results here, is known to be incompatible.             *)
(*                                                                         *)
(* A result is shared by the writer that was started with it and by the    *)
(* clients that borrowed it.  How clients enter and leave a coordinator    *)
(* step by step, and how they read its ring, is in StreamSession and       *)
(* SharedBuffer: here both are one step, and a reader may find any chunk   *)
(* that is in the ring.                                                    *)
(***************************************************************************)
EXTENDS Integers, FiniteSets

CONSTANTS Clients,
          MaxStarts,   \* bound: writers started
          MaxResults,  \* bound: results of the load balancer
          Segments     \* segments of a playlist

ASSUME HLSBounds == {MaxStarts, MaxResults, Segments} \subseteq Nat \ {0}

VARIABLES
    cpc,      \* where each client is: "idle", "ready" with a result, "reading",
              \* "closing" once its request is over, "left" and "hung" after
              \* HandleStream returned to the one or the other, "gone"
    held,     \* the result its ProxyStream was called with; 0 is none
    status,   \* the status HandleStream returned to it
    body,     \* the response body of each result
    ClientCount, state, ring, header, WriterActive, WriterCtx, cancelled,
    LBResultOnWrite, \* the writer whose result it is; 0 is nil
    Invalid,  \* the URL is in ConcurrencyManager.Invalid
    concurrency,
    writer,   \* each writer goroutine
    excused   \* history: the latest writer may have ended without a word

clientVars == <<cpc, held, status>>
coordVars == <<ClientCount, state, ring, header, WriterActive, WriterCtx, cancelled, excused>>
vars == <<clientVars, body, coordVars, LBResultOnWrite, Invalid, concurrency, writer>>

Results == 1 .. MaxResults
Writers == 1 .. MaxStarts
Errors == {"ClientClosed", "ServerError", "EOF"}
NoWriter == [pc |-> "off", ctx |-> 0, res |-> 0, seg |-> 0, list |-> "none", lastErr |-> FALSE,
             exit |-> "none"]

Running == {w \in Writers : writer[w].pc \notin {"off", "done"}}

Init ==
    /\ cpc = [c \in Clients |-> "idle"] /\ held = [c \in Clients |-> 0] /\ status = [c \in Clients |-> "none"]
    /\ body = [r \in Results |-> "none"]
    /\ ClientCount = 0 /\ state = "active" /\ ring = {} /\ header = "nil"
    /\ WriterActive = FALSE /\ WriterCtx = 0 /\ cancelled = {}
    /\ LBResultOnWrite = 0 /\ Invalid = FALSE /\ concurrency = 0
    /\ writer = [w \in Writers |-> NoWriter] /\ excused = FALSE

-----------------------------------------------------------------------------
(* A request: one round of handleStream after the other.                   *)

(* The end of a request is seen while HandleStream waits or reads, or      *)
(* between two rounds.                                                     *)
Disconnect(c) ==
    /\ cpc[c] = "reading" /\ cpc' = [cpc EXCEPT ![c] = "closing"]
    /\ UNCHANGED <<held, status, body, coordVars, LBResultOnWrite, Invalid, concurrency, writer>>

(* The load balancer fails, or the request has ended between two rounds.   *)
GiveUp(c) ==
    /\ cpc[c] = "idle"
    /\ cpc' = [cpc EXCEPT ![c] = "gone"]
    /\ UNCHANGED <<held, status, body, coordVars, LBResultOnWrite, Invalid, concurrency, writer>>

BorrowResult(c) ==
    /\ cpc[c] = "idle" /\ LBResultOnWrite # 0
    /\ cpc' = [cpc EXCEPT ![c] = "ready"]
    /\ held' = [held EXCEPT ![c] = writer[LBResultOnWrite].res]
    /\ UNCHANGED <<status, body, coordVars, LBResultOnWrite, Invalid, concurrency, writer>>

FreshResult(c, r) ==
    /\ cpc[c] = "idle" /\ LBResultOnWrite = 0
    /\ body[r] = "none" /\ \A q \in 1 .. r - 1 : body[q] # "none"
    /\ cpc' = [cpc EXCEPT ![c] = "ready"]
    /\ held' = [held EXCEPT ![c] = r]
    /\ body' = [body EXCEPT ![r] = "open"]
    /\ UNCHANGED <<status, coordVars, LBResultOnWrite, Invalid, concurrency, writer>>

(* The URL is marked: HandleStream is not called.                          *)
SkipSession(c) ==
    /\ cpc[c] = "ready" /\ Invalid
    /\ cpc' = [cpc EXCEPT ![c] = "left"] /\ status' = [status EXCEPT ![c] = "Incompatible"]
    /\ UNCHANGED <<held, body, coordVars, LBResultOnWrite, Invalid, concurrency, writer>>

(* HandleStream up to RegisterClient: a client that finds no writer starts *)
(* one with its result.                                                    *)
Enter(c) ==
    /\ cpc[c] = "ready" /\ ~Invalid
    /\ cpc' = [cpc EXCEPT ![c] = "reading"]
    /\ ClientCount' = ClientCount + 1
    /\ state' = IF ClientCount = 0 THEN "active" ELSE state
    /\ WriterActive' = TRUE
    /\ \/ WriterActive /\ UNCHANGED <<WriterCtx, ring, writer, excused>>
       \/ /\ ~WriterActive
          /\ \E w \in Writers :
                /\ writer[w] = NoWriter /\ \A v \in 1 .. w - 1 : writer[v] # NoWriter
                /\ WriterCtx' = IF WriterCtx = 0 THEN w ELSE WriterCtx
                /\ writer' = [writer EXCEPT ![w].pc = "start", ![w].res = held[c]]
          /\ ring' = {} /\ excused' = (ClientCount > 0 /\ state # "active")
    /\ UNCHANGED <<held, status, body, header, cancelled, LBResultOnWrite, Invalid, concurrency>>

(* HandleStream returns: UnregisterClient, and for the last client the     *)
(* end of the context.                                                     *)
Leave(c, s) ==
    /\ cpc[c] \in {"reading", "closing"}
    /\ cpc' = [cpc EXCEPT ![c] = IF @ = "reading" THEN "left" ELSE "hung"]
    /\ status' = [status EXCEPT ![c] = s]
    /\ ClientCount' = ClientCount - 1
    /\ IF ClientCount = 1
       THEN /\ state' = "draining" /\ ring' = {}
            /\ cancelled' = cancelled \cup ({WriterCtx} \ {0}) /\ WriterCtx' = 0
            /\ excused' = (excused \/ WriterActive)
       ELSE UNCHANGED <<state, ring, cancelled, WriterCtx, excused>>
    /\ UNCHANGED <<held, body, header, WriterActive, LBResultOnWrite, Invalid, concurrency, writer>>

ReturnDone(c) == cpc[c] = "closing" /\ Leave(c, "ClientClosed")

ReturnUnwritten(c) ==
    /\ "data" \in ring /\ header = "safe"
    /\ Leave(c, "ClientClosed")

ReturnError(c, s) == s \in ring /\ Leave(c, s)

(* The type is not safe to concatenate.  Without a header only a client    *)
(* that is gone gets here: WaitHeaders waits for one of the two.           *)
ReturnIncompatible(c) ==
    /\ "data" \in ring
    /\ header = "unsafe" \/ (header = "nil" /\ cpc[c] = "closing")
    /\ Leave(c, "Incompatible")

-----------------------------------------------------------------------------
(* The end of ProxyStream, and handleExitCode.                             *)

(* Mutant: ProxyStream leaves the body to the writer.                      *)
ProxyReturnsOpen(c) ==
    /\ cpc[c] \in {"left", "hung"} /\ status[c] # "Incompatible"
    /\ cpc' = [cpc EXCEPT ![c] = IF @ = "left" /\ status[c] # "ClientClosed" THEN "idle" ELSE "gone"]
    /\ held' = [held EXCEPT ![c] = 0] /\ status' = [status EXCEPT ![c] = "none"]
    /\ UNCHANGED <<body, coordVars, LBResultOnWrite, Invalid, concurrency, writer>>

(* The body is closed, whoever else uses it; the writer's copy in memory   *)
(* has no Close.                                                           *)
ProxyReturns(c) ==
    /\ cpc[c] \in {"left", "hung"} /\ status[c] # "Incompatible"
    /\ cpc' = [cpc EXCEPT ![c] = IF @ = "left" /\ status[c] # "ClientClosed" THEN "idle" ELSE "gone"]
    /\ held' = [held EXCEPT ![c] = 0] /\ status' = [status EXCEPT ![c] = "none"]
    /\ body' = [body EXCEPT ![held[c]] = IF @ = "open" THEN "closed" ELSE @]
    /\ UNCHANGED <<coordVars, LBResultOnWrite, Invalid, concurrency, writer>>

(* What may become of a body, or the writer's copy, read to its end or not. *)
AfterScan(b, whole) ==
    CASE b = "open"   -> {IF whole THEN "drained" ELSE "cut"}
      [] b = "cut"    -> {IF whole THEN "drained" ELSE "cut"}
      [] b = "copied" -> IF whole THEN {"spent"} ELSE {"copied", "spent"}
      [] OTHER        -> {b}

(* ProcessM3U8Stream reads the body and does not close it.                 *)
Scans(c, whole) ==
    /\ cpc[c] \in {"left", "hung"} /\ status[c] = "Incompatible"
    /\ held' = [held EXCEPT ![c] = 0] /\ status' = [status EXCEPT ![c] = "none"]
    /\ Invalid' = TRUE
    /\ \E b \in AfterScan(body[held[c]], whole) : body' = [body EXCEPT ![held[c]] = b]
    /\ UNCHANGED <<coordVars, LBResultOnWrite, concurrency, writer>>

(* The list is handed over, to its end or to a line that is too long for   *)
(* the scanner, whose error nobody looks at.                               *)
Fallback(c) ==
    /\ \E whole \in BOOLEAN : Scans(c, whole)
    /\ cpc' = [cpc EXCEPT ![c] = "gone"]

(* A line cannot be written: the rest of the body stays unread, and the    *)
(* status makes handleStream go round again.                               *)
FallbackFails(c) ==
    /\ Scans(c, FALSE)
    /\ cpc' = [cpc EXCEPT ![c] = IF @ = "left" THEN "idle" ELSE "gone"]

-----------------------------------------------------------------------------
(* StartHLSWriter.                                                         *)

coordRest == <<ClientCount, WriterActive, WriterCtx, cancelled, excused>>
writerRest == <<clientVars, Invalid>>

At(w, pc) == writer[w].pc = pc
Goes(w, pc) == writer' = [writer EXCEPT ![w].pc = pc]
Fails(w, s) == writer' = [writer EXCEPT ![w].pc = "put", ![w].exit = s]
Cancelled(w) == writer[w].ctx \in cancelled
Body(w) == body[writer[w].res]

Begin(w) ==
    /\ At(w, "start")
    /\ writer' = [writer EXCEPT ![w].pc = "loop", ![w].ctx = WriterCtx]
    /\ LBResultOnWrite' = w /\ concurrency' = concurrency + 1 /\ header' = "nil"
    /\ UNCHANGED <<writerRest, body, coordRest, state, ring>>

LoopEnds(w) ==
    /\ At(w, "loop") /\ state # "active"
    /\ Goes(w, "release")
    /\ UNCHANGED <<writerRest, body, coordVars, LBResultOnWrite, concurrency>>

(* The state is looked at here only, not again when the select comes to    *)
(* its choice.                                                             *)
LoopHead(w) ==
    /\ At(w, "loop") /\ state = "active"
    /\ Goes(w, "select")
    /\ UNCHANGED <<writerRest, body, coordVars, LBResultOnWrite, concurrency>>

(* A nil context panics in the select: the connection is given back, then  *)
(* the recovery writes the error.                                          *)
LoopPanics(w) ==
    /\ At(w, "select") /\ writer[w].ctx = 0
    /\ Fails(w, "ServerError")
    /\ LBResultOnWrite' = 0 /\ concurrency' = concurrency - 1
    /\ UNCHANGED <<writerRest, body, coordVars>>

Polls(w) == At(w, "select") /\ writer[w].ctx # 0

(* The select takes ctx.Done(): with a remembered error it says nothing.   *)
PollCancelled(w) ==
    /\ Polls(w) /\ Cancelled(w)
    /\ IF writer[w].lastErr THEN Goes(w, "release") ELSE Fails(w, "ClientClosed")
    /\ UNCHANGED <<writerRest, body, coordVars, LBResultOnWrite, concurrency>>

(* Mutant: the writer that times out returns without writeError.           *)
PollTimeoutSilent(w) ==
    /\ Polls(w) /\ Goes(w, "release")
    /\ UNCHANGED <<writerRest, body, coordVars, LBResultOnWrite, concurrency>>

(* A tick, long after the last new media sequence.                         *)
PollTimeout(w) ==
    /\ Polls(w) /\ Fails(w, "EOF")
    /\ UNCHANGED <<writerRest, body, coordVars, LBResultOnWrite, concurrency>>

(* A tick copies the body.  The first one takes the upstream's, closes it  *)
(* and leaves the copy in its place, so that later ones see the same list. *)
CopyFails(w) ==
    /\ Polls(w) /\ Body(w) = "closed"
    /\ Fails(w, "ServerError")
    /\ UNCHANGED <<writerRest, body, coordVars, LBResultOnWrite, concurrency>>

(* Nothing is left of a list that a fallback has read; of one that it gave *)
(* up there may be.                                                        *)
Copied(w, empty) ==
    /\ Polls(w)
    /\ Body(w) \in IF empty THEN {"drained", "spent", "cut"} ELSE {"open", "copied", "cut"}
    /\ body' = [body EXCEPT ![writer[w].res] = IF empty THEN "spent" ELSE "copied"]

(* It cannot be parsed, or is a master playlist.                           *)
PollBad(w) ==
    /\ Copied(w, FALSE) /\ writer[w].list = "none"
    /\ Fails(w, "ServerError")
    /\ UNCHANGED <<writerRest, coordVars, LBResultOnWrite, concurrency>>

(* A media sequence not seen yet, or #EXT-X-ENDLIST: on to its segments.   *)
(* What the upstream's list is shows when it is first parsed.              *)
PollNew(w) ==
    /\ Copied(w, FALSE) /\ writer[w].list = "none"
    /\ \E k \in {"live", "ended"} :
          writer' = [writer EXCEPT ![w].pc = "list", ![w].list = k]
    /\ UNCHANGED <<writerRest, coordVars, LBResultOnWrite, concurrency>>

(* The empty list has sequence 0 and no segments.                          *)
PollEmpty(w) ==
    /\ Copied(w, TRUE)
    /\ writer' = [writer EXCEPT ![w].pc = "loop", ![w].list = "live"]
    /\ UNCHANGED <<writerRest, coordVars, LBResultOnWrite, concurrency>>

(* The same list again: no later media sequence, so nothing is fetched.    *)
PollSame(w) ==
    /\ Copied(w, FALSE) /\ writer[w].list # "none"
    /\ Goes(w, "loop")
    /\ UNCHANGED <<writerRest, coordVars, LBResultOnWrite, concurrency>>

(* processSegments returns; a live playlist remembers an error.            *)
ListReturns(w, failed) ==
    writer' = [writer EXCEPT
        ![w].pc = IF writer[w].list = "ended" \/ (failed /\ Cancelled(w)) THEN "put" ELSE "loop",
        ![w].exit = IF writer[w].list = "ended" THEN "EOF"
                    ELSE IF failed /\ Cancelled(w) THEN "ServerError" ELSE @,
        ![w].lastErr = @ \/ failed]

ListDone(w) ==
    /\ At(w, "list") /\ writer[w].seg = Segments
    /\ ListReturns(w, FALSE)
    /\ UNCHANGED <<writerRest, body, coordVars, LBResultOnWrite, concurrency>>

(* The context is done, a segment cannot be fetched, or its read times     *)
(* out: the segments after it are given up.                                *)
SegmentFails(w) ==
    /\ \/ At(w, "list") /\ writer[w].seg < Segments
       \/ At(w, "segment") /\ state = "active"
    /\ ListReturns(w, TRUE)
    /\ UNCHANGED <<writerRest, body, coordVars, LBResultOnWrite, concurrency>>

(* The first segment of a writer gives the response header.                *)
SegmentOpens(w) ==
    /\ At(w, "list") /\ writer[w].seg < Segments /\ ~Cancelled(w)
    /\ Goes(w, "segment")
    /\ IF header = "nil" THEN header' \in {"safe", "unsafe"} ELSE UNCHANGED header
    /\ UNCHANGED <<writerRest, body, coordRest, state, ring, LBResultOnWrite, concurrency>>

(* readAndWriteStream: a chunk; Write drops it if the stream is inactive.  *)
SegmentData(w) ==
    /\ At(w, "segment") /\ state = "active" /\ "data" \notin ring
    /\ ring' = ring \cup {"data"}
    /\ UNCHANGED <<writerRest, body, coordRest, state, header, LBResultOnWrite, concurrency, writer>>

(* The end of the segment, or of readAndWriteStream's loop by the state.   *)
SegmentEnds(w) ==
    /\ At(w, "segment")
    /\ writer' = [writer EXCEPT ![w].pc = "list", ![w].seg = @ + 1]
    /\ UNCHANGED <<writerRest, body, coordVars, LBResultOnWrite, concurrency>>

(* writeError.                                                             *)
PutError(w) ==
    /\ At(w, "put")
    /\ ring' = IF state = "active" THEN ring \cup {writer[w].exit} ELSE ring
    /\ state' = "closed"
    /\ Goes(w, IF LBResultOnWrite = w THEN "release" ELSE "flag")
    /\ UNCHANGED <<writerRest, body, coordRest, header, LBResultOnWrite, concurrency>>

(* Mutant: the connection is given back only if the context still lives.   *)
ReleaseUnlessCancelled(w) ==
    /\ At(w, "release")
    /\ Goes(w, "flag")
    /\ LBResultOnWrite' = 0
    /\ concurrency' = IF Cancelled(w) THEN concurrency ELSE concurrency - 1
    /\ UNCHANGED <<writerRest, body, coordVars>>

(* The deferred functions of StartHLSWriter.                               *)
Release(w) ==
    /\ At(w, "release")
    /\ Goes(w, "flag")
    /\ LBResultOnWrite' = 0 /\ concurrency' = concurrency - 1
    /\ UNCHANGED <<writerRest, body, coordVars>>

(* The deferred function of the goroutine.  Its context is nobody's now.   *)
WriterEnds(w) ==
    /\ At(w, "flag")
    /\ writer' = [writer EXCEPT ![w] = [NoWriter EXCEPT !.pc = "done"]]
    /\ WriterActive' = FALSE /\ cancelled' = {}
    /\ UNCHANGED <<writerRest, body, ClientCount, state, ring, header, WriterCtx, excused,
                   LBResultOnWrite, concurrency>>

-----------------------------------------------------------------------------
WriterStep(w) ==
    \/ Begin(w) \/ LoopEnds(w) \/ LoopHead(w) \/ LoopPanics(w) \/ PollCancelled(w) \/ PollTimeout(w)
    \/ CopyFails(w) \/ PollBad(w) \/ PollNew(w) \/ PollEmpty(w) \/ PollSame(w)
    \/ ListDone(w) \/ SegmentFails(w) \/ SegmentOpens(w) \/ SegmentData(w) \/ SegmentEnds(w)
    \/ PutError(w) \/ Release(w) \/ WriterEnds(w)

Next ==
    \/ \E c \in Clients :
          \/ Disconnect(c) \/ GiveUp(c) \/ BorrowResult(c) \/ SkipSession(c) \/ Enter(c)
          \/ \E r \in Results : FreshResult(c, r)
          \/ ReturnDone(c) \/ ReturnUnwritten(c) \/ ReturnIncompatible(c)
          \/ \E s \in Errors : ReturnError(c, s)
          \/ ProxyReturns(c) \/ Fallback(c) \/ FallbackFails(c)
    \/ \E w \in Writers : WriterStep(w)

Spec == Init /\ [][Next]_vars

-----------------------------------------------------------------------------
(* Whatever way StartHLSWriter takes out of its loop, the panic included,  *)
(* the connection it counted is given back once, before the next writer,   *)
(* which is alone, counts its own.                                         *)
HLSConnectionExact ==
    /\ concurrency = IF LBResultOnWrite = 0 THEN 0 ELSE 1
    /\ WriterActive <=> Running # {}
    /\ Cardinality(Running) <= 1
    /\ Running = {} => concurrency = 0

(* Every response body is closed or read to its end once the clients that  *)
(* held it are gone and no writer runs, also the body of a result that     *)
(* lost against another writer.  Only a fallback that cannot write to its  *)
(* client, or meets a line too long for its scanner, leaves one open       *)
(* ("cut").                                                                *)
BodiesReleased ==
    (\A c \in Clients : held[c] = 0) /\ Running = {} =>
        \A r \in Results : body[r] # "open"

(* Clients are not left with a dead stream: whatever way a writer ends     *)
(* while somebody watches, it leaves an error in the ring that ends the    *)
(* reading (or makes it try again).  Excused are a writer whose last       *)
(* client left during its life, whom a later client may have joined, and   *)
(* one that was started on a stream which RegisterClient left inactive,    *)
(* because a client of the writer before it was still counted.             *)
ClientsTold == Running = {} /\ ClientCount > 0 /\ ~excused => ring \cap Errors # {}

=============================================================================
