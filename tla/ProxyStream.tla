----------------------------- MODULE ProxyStream ----------------------------
(***************************************************************************)
(* The rounds of a stream request (handleStream in handlers/stream_http.go)*)
(* and its goroutines: every round starts ProxyStream in a goroutine that  *)
(* reports on an unbuffered channel; a VOD (an .mp4 URL) is handed over by *)
(* HandleDirectStream, which starts a goroutine for each read of the body. *)
(* Other media goes through a coordinator, of which this module keeps only *)
(* who owns the response body: StreamSession has its steps, HLSSession     *)
(* those of playlists.  Segment requests (handleSegmentStream) are here    *)
(* too.                                                                    *)
(***************************************************************************)
EXTENDS Integers, Sequences

CONSTANTS Clients,
          MaxResults,  \* bound: responses of upstreams
          Chunks       \* reads that it takes to get a VOD

ASSUME ProxyBounds == {MaxResults, Chunks} \subseteq Nat \ {0}

VARIABLES
    handler,   \* handleStream: "idle", "wait", "pause", "segment", "returned"
    want,      \* its context is not done
    proxy,     \* the ProxyStream goroutine: "off", "begin", "direct", "write",
               \* "session" in HandleStream, "waiting" in its ReadChunks, "send"
    held,      \* the result of its last round; 0 is none
    status,    \* the status it reports
    reader,    \* the goroutine of a direct read: "off", "reading", or the result
               \* it has to send: "data", "last" (data and io.EOF), "EOF", "error"
    readChan,  \* the channel for it: "empty" or a result
    buffer,    \* the buffer that reads fill and writes send: a chunk's number
    got,       \* the chunks of a VOD written to the client in this round
    header,    \* the result whose header was sent; 0 before HeadersSent
    kind, body, pos, \* of each result: what it is, its body, the chunks read
    writer,    \* the coordinator's writer goroutine: "off", "start", "run", "end"
    writes,    \* the result it was started with
    lost       \* history: results that lost against another writer

clientVars == <<handler, want, proxy, held, status, reader, readChan, buffer, got, header>>
resultVars == <<kind, body, pos>>
writerVars == <<writer, writes, lost>>
vars == <<clientVars, resultVars, writerVars>>

Results == 1 .. MaxResults
Statuses == {"EOF", "ServerError", "ClientClosed"}

Init ==
    /\ handler = [c \in Clients |-> "idle"] /\ want = [c \in Clients |-> TRUE]
    /\ proxy = [c \in Clients |-> "off"] /\ held = [c \in Clients |-> 0]
    /\ status = [c \in Clients |-> "none"]
    /\ reader = [c \in Clients |-> "off"] /\ readChan = [c \in Clients |-> "empty"]
    /\ buffer = [c \in Clients |-> 0] /\ got = [c \in Clients |-> <<>>]
    /\ header = [c \in Clients |-> 0]
    /\ kind = [r \in Results |-> "none"] /\ body = [r \in Results |-> "none"]
    /\ pos = [r \in Results |-> 0]
    /\ writer = "off" /\ writes = 0 /\ lost = {}

-----------------------------------------------------------------------------
(* handleStream.                                                           *)

(* net/http ends the context of a request when its handler returns, too.   *)
Returns(c) ==
    /\ handler' = [handler EXCEPT ![c] = "returned"]
    /\ want' = [want EXCEPT ![c] = FALSE]

Disconnect(c) ==
    /\ want[c] /\ want' = [want EXCEPT ![c] = FALSE]
    /\ UNCHANGED <<handler, proxy, held, status, reader, readChan, buffer, got, header,
                   resultVars, writerVars>>

(* The load balancer fails, or the segment cannot be fetched.              *)
LoadBalancerFails(c) ==
    /\ handler[c] = "idle" /\ Returns(c)
    /\ UNCHANGED <<proxy, held, status, reader, readChan, buffer, got, header,
                   resultVars, writerVars>>

StartProxy(c, r) ==
    /\ handler' = [handler EXCEPT ![c] = "wait"]
    /\ proxy' = [proxy EXCEPT ![c] = "begin"]
    /\ held' = [held EXCEPT ![c] = r]
    /\ UNCHANGED <<want, status, reader, readChan, buffer, got, header, pos, writerVars>>

(* LBResultOnWrite is set between the start and the end of a writer.       *)
BorrowResult(c) ==
    /\ handler[c] = "idle" /\ writer = "run"
    /\ StartProxy(c, writes)
    /\ UNCHANGED <<kind, body>>

NextResult(r) == body[r] = "none" /\ \A q \in 1 .. r - 1 : body[q] # "none"

FreshResult(c, r, k) ==
    /\ handler[c] = "idle" /\ writer # "run" /\ NextResult(r)
    /\ StartProxy(c, r)
    /\ kind' = [kind EXCEPT ![r] = k] /\ body' = [body EXCEPT ![r] = "open"]

(* The select of a round, and that of the pause after it.                  *)
HandlerDone(c) ==
    /\ handler[c] \in {"wait", "pause"} /\ ~want[c] /\ Returns(c)
    /\ UNCHANGED <<proxy, held, status, reader, readChan, buffer, got, header,
                   resultVars, writerVars>>

(* handleExitCode: the status is taken only while the select waits for it. *)
ReportStatus(c) ==
    /\ proxy[c] = "send" /\ handler[c] = "wait"
    /\ proxy' = [proxy EXCEPT ![c] = "off"]
    /\ status' = [status EXCEPT ![c] = "none"]
    /\ IF status[c] = "ClientClosed" THEN Returns(c)
       ELSE handler' = [handler EXCEPT ![c] = "pause"] /\ UNCHANGED want
    /\ UNCHANGED <<held, reader, readChan, buffer, got, header, resultVars, writerVars>>

Retry(c) ==
    /\ handler[c] = "pause" /\ handler' = [handler EXCEPT ![c] = "idle"]
    /\ UNCHANGED <<want, proxy, held, status, reader, readChan, buffer, got, header,
                   resultVars, writerVars>>

-----------------------------------------------------------------------------
(* HandleDirectStream.                                                     *)

(* StreamClient.WriteHeader: only the first call sends something.          *)
WriteHeader(c, r) == header' = [header EXCEPT ![c] = IF @ = 0 THEN r ELSE @]

(* Every round of the loop starts a read.                                  *)
StartRead(c) ==
    /\ proxy' = [proxy EXCEPT ![c] = "direct"]
    /\ reader' = [reader EXCEPT ![c] = "reading"]

DirectBegin(c) ==
    /\ proxy[c] = "begin" /\ kind[held[c]] = "vod"
    /\ StartRead(c) /\ WriteHeader(c, held[c])
    /\ readChan' = [readChan EXCEPT ![c] = "empty"]
    /\ got' = [got EXCEPT ![c] = <<>>]
    /\ UNCHANGED <<handler, want, held, status, buffer, resultVars, writerVars>>

(* body.Read: a chunk, the last one possibly together with io.EOF; an      *)
(* error may come at any time, and does from a closed body.                *)
Read(c, x) ==
    LET r == held[c]
        n == IF x \in {"data", "last"} THEN 1 ELSE 0
    IN /\ reader[c] = "reading"
       /\ CASE x = "data" -> pos[r] < Chunks
            [] x \in {"last", "EOF"} -> pos[r] + n = Chunks
            [] OTHER -> TRUE
       /\ body[r] = "open" \/ x = "error"
       /\ reader' = [reader EXCEPT ![c] = x]
       /\ pos' = [pos EXCEPT ![r] = @ + n]
       /\ buffer' = [buffer EXCEPT ![c] = IF n = 1 THEN pos[r] + 1 ELSE @]
       /\ UNCHANGED <<handler, want, proxy, held, status, readChan, got, header, kind, body,
                      writerVars>>

(* Mutant: the channel has no room.                                        *)
SendUnbuffered(c) ==
    /\ reader[c] \notin {"off", "reading"} /\ proxy[c] = "direct"
    /\ reader' = [reader EXCEPT ![c] = "off"]
    /\ readChan' = [readChan EXCEPT ![c] = reader[c]]
    /\ UNCHANGED <<handler, want, proxy, held, status, buffer, got, header,
                   resultVars, writerVars>>

(* The reader's send; there is room, whether or not the loop still waits.  *)
Send(c) ==
    /\ reader[c] \notin {"off", "reading"} /\ readChan[c] = "empty"
    /\ reader' = [reader EXCEPT ![c] = "off"]
    /\ readChan' = [readChan EXCEPT ![c] = reader[c]]
    /\ UNCHANGED <<handler, want, proxy, held, status, buffer, got, header,
                   resultVars, writerVars>>

(* Mutant: the body is left open.                                          *)
DirectReturnsOpen(c, s) ==
    /\ proxy' = [proxy EXCEPT ![c] = "send"] /\ status' = [status EXCEPT ![c] = s]
    /\ UNCHANGED body

(* The deferred Body.Close, which ends a read that is under way.           *)
DirectReturns(c, s) ==
    /\ proxy' = [proxy EXCEPT ![c] = "send"] /\ status' = [status EXCEPT ![c] = s]
    /\ body' = [body EXCEPT ![held[c]] = "closed"]

DirectDone(c) ==
    /\ proxy[c] = "direct" /\ ~want[c] /\ DirectReturns(c, "ClientClosed")
    /\ UNCHANGED <<handler, want, held, reader, readChan, buffer, got, header, kind, pos, writerVars>>

(* The bytes that came with io.EOF are counted and not written.            *)
DirectFails(c) ==
    /\ proxy[c] = "direct" /\ readChan[c] \in {"last", "EOF", "error"}
    /\ readChan' = [readChan EXCEPT ![c] = "empty"]
    /\ DirectReturns(c, IF readChan[c] = "error" THEN "ServerError" ELSE "EOF")
    /\ UNCHANGED <<handler, want, held, reader, buffer, got, header, kind, pos, writerVars>>

(* Mutant: the next read is started before the chunk is written.           *)
DirectTakesReading(c) ==
    /\ proxy[c] = "direct" /\ readChan[c] = "data"
    /\ readChan' = [readChan EXCEPT ![c] = "empty"]
    /\ proxy' = [proxy EXCEPT ![c] = "write"]
    /\ reader' = [reader EXCEPT ![c] = "reading"]
    /\ UNCHANGED <<handler, want, held, status, buffer, got, header, resultVars, writerVars>>

DirectTakes(c) ==
    /\ proxy[c] = "direct" /\ readChan[c] = "data"
    /\ readChan' = [readChan EXCEPT ![c] = "empty"]
    /\ proxy' = [proxy EXCEPT ![c] = "write"]
    /\ UNCHANGED <<handler, want, held, status, reader, buffer, got, header,
                   resultVars, writerVars>>

(* The write, also after handleStream has returned.                        *)
DirectWrites(c) ==
    /\ proxy[c] = "write" /\ StartRead(c)
    /\ got' = [got EXCEPT ![c] = Append(@, buffer[c])]
    /\ UNCHANGED <<handler, want, held, status, readChan, buffer, header, resultVars, writerVars>>

(* The client is gone, or the chunk is more than the Content-Length that   *)
(* an earlier round sent.                                                  *)
DirectUnwritten(c) ==
    /\ proxy[c] = "write" /\ (~want[c] \/ header[c] # held[c])
    /\ DirectReturns(c, "ClientClosed")
    /\ UNCHANGED <<handler, want, held, reader, readChan, buffer, got, header, kind, pos, writerVars>>

-----------------------------------------------------------------------------
(* HandleStream, and the writer of the coordinator.                        *)

(* A client that finds no writer starts one with its result; a fresh       *)
(* result that comes too late is dropped as it is.                         *)
SessionBegin(c) ==
    /\ proxy[c] = "begin" /\ kind[held[c]] = "media"
    /\ proxy' = [proxy EXCEPT ![c] = "session"]
    /\ IF writer = "off"
       THEN writer' = "start" /\ writes' = held[c] /\ UNCHANGED lost
       ELSE /\ lost' = IF held[c] = writes \/ body[held[c]] = "closed" THEN lost
                       ELSE lost \cup {held[c]}
            /\ UNCHANGED <<writer, writes>>
    /\ UNCHANGED <<handler, want, held, status, reader, readChan, buffer, got, header, resultVars>>

(* The client has caught up with the writer: ReadChunks receives from a    *)
(* notification channel, without the context.                              *)
SessionWaits(c) ==
    /\ proxy[c] = "session" /\ want[c] /\ proxy' = [proxy EXCEPT ![c] = "waiting"]
    /\ UNCHANGED <<handler, want, held, status, reader, readChan, buffer, got, header,
                   resultVars, writerVars>>

(* The writer notifies it of a chunk, or of its error.                     *)
SessionWoken(c) ==
    /\ proxy[c] = "waiting" /\ proxy' = [proxy EXCEPT ![c] = "session"]
    /\ UNCHANGED <<handler, want, held, status, reader, readChan, buffer, got, header,
                   resultVars, writerVars>>

(* The client leaves, between two calls of ReadChunks or at a failed       *)
(* write, or reads the error of the writer.                                *)
SessionReturns(c, s) ==
    /\ proxy[c] = "session"
    /\ s = "ClientClosed" \/ writer \in {"end", "off"}
    /\ proxy' = [proxy EXCEPT ![c] = "send"] /\ status' = [status EXCEPT ![c] = s]
    /\ UNCHANGED <<handler, want, held, reader, readChan, buffer, got, header,
                   resultVars, writerVars>>

(* The first chunk a client gets sends the writer's header.                *)
SessionWrites(c) ==
    /\ proxy[c] = "session" /\ writer = "run" /\ header[c] = 0
    /\ WriteHeader(c, writes)
    /\ UNCHANGED <<handler, want, proxy, held, status, reader, readChan, buffer, got,
                   resultVars, writerVars>>

WriterBegins ==
    /\ writer = "start" /\ writer' = "run"
    /\ UNCHANGED <<clientVars, resultVars, writes, lost>>

(* StartMediaWriter returns: its deferred functions.                       *)
WriterReturns ==
    /\ writer = "run" /\ writer' = "end"
    /\ body' = [body EXCEPT ![writes] = "closed"]
    /\ UNCHANGED <<clientVars, kind, pos, writes, lost>>

WriterOff ==
    /\ writer = "end" /\ writer' = "off"
    /\ UNCHANGED <<clientVars, resultVars, writes, lost>>

-----------------------------------------------------------------------------
(* handleSegmentStream: one fetch, and io.Copy.  Nothing of it looks at    *)
(* the context, so the copy ends with the upstream or at a failed write.   *)

SegmentFetched(c, r) ==
    /\ handler[c] = "idle" /\ held[c] = 0 /\ NextResult(r)
    /\ handler' = [handler EXCEPT ![c] = "segment"]
    /\ held' = [held EXCEPT ![c] = r] /\ WriteHeader(c, r)
    /\ kind' = [kind EXCEPT ![r] = "segment"] /\ body' = [body EXCEPT ![r] = "open"]
    /\ UNCHANGED <<want, proxy, status, reader, readChan, buffer, got, pos, writerVars>>

SegmentCopied(c) ==
    /\ handler[c] = "segment" /\ Returns(c)
    /\ body' = [body EXCEPT ![held[c]] = "closed"]
    /\ UNCHANGED <<proxy, held, status, reader, readChan, buffer, got, header, kind, pos, writerVars>>

-----------------------------------------------------------------------------
HandlerStep(c) == HandlerDone(c) \/ ReportStatus(c)

ProxyStep(c) ==
    \/ DirectBegin(c) \/ DirectDone(c) \/ DirectFails(c) \/ DirectTakes(c)
    \/ DirectWrites(c) \/ DirectUnwritten(c) \/ SessionBegin(c)

WriterStep == WriterBegins \/ WriterReturns \/ WriterOff

Next ==
    \/ WriterStep
    \/ \E c \in Clients :
          \/ Disconnect(c) \/ LoadBalancerFails(c) \/ BorrowResult(c) \/ Retry(c)
          \/ HandlerStep(c) \/ ProxyStep(c) \/ Send(c)
          \/ \E x \in {"data", "last", "EOF", "error"} : Read(c, x)
          \/ \E s \in Statuses : SessionReturns(c, s)
          \/ SessionWaits(c) \/ SessionWoken(c) \/ SessionWrites(c) \/ SegmentCopied(c)
          \/ \E r \in Results : \/ SegmentFetched(c, r)
                               \/ \E k \in {"media", "vod"} : FreshResult(c, r, k)

(* Goroutines that can run do, and the read of a closed body returns.  An  *)
(* upstream may stall: then the read of an open body waits for ever, and   *)
(* so does ReadChunks for a notification, also one that it has missed.     *)
Fairness ==
    \A c \in Clients :
        /\ WF_vars(HandlerStep(c)) /\ WF_vars(ProxyStep(c)) /\ WF_vars(Send(c))
        /\ WF_vars(Read(c, "error") /\ body[held[c]] = "closed")
        /\ WF_vars(~want[c] /\ SessionReturns(c, "ClientClosed"))

Spec == Init /\ [][Next]_vars /\ Fairness

-----------------------------------------------------------------------------
Runs(c) == proxy[c] \in {"begin", "direct", "write"}

(* Every open response body has one owner that will close it: the writer   *)
(* it was given to, the direct stream or the segment request it was        *)
(* fetched for.  The only one without is a result that was fetched while   *)
(* another request started the writer: nobody closes it.                   *)
BodiesOwned ==
    \A r \in Results : body[r] = "open" =>
        \/ r \in lost
        \/ writer # "off" /\ writes = r
        \/ \E c \in Clients : held[c] = r /\ (Runs(c) \/ handler[c] = "segment")

(* A VOD is written in order and without a gap though reads and writes     *)
(* share one buffer, and what a round lacks when it ends with io.EOF is at *)
(* most the chunk that came with it.  The next round starts over.          *)
DirectInOrder ==
    \A c \in Clients :
        /\ \A i \in DOMAIN got[c] : got[c][i] = i
        /\ status[c] = "EOF" /\ kind[held[c]] = "vod" => Len(got[c]) >= Chunks - 1

(* When a request is over its reader ends, also one that waits for a       *)
(* stalled upstream, and so does its ProxyStream, but for two places where *)
(* it may stay for ever: in the send of a status that nobody takes, and in *)
(* ReadChunks, which does not look at the context, while no notification   *)
(* comes (the run error_ends_reading of StreamSession misses one).         *)
GoroutinesEnd ==
    \A c \in Clients :
        /\ handler[c] = "returned" ~>
             [](reader[c] = "off" /\ proxy[c] \in {"off", "session", "waiting", "send"})
        /\ handler[c] = "returned" /\ proxy[c] = "session" ~> proxy[c] = "send"

=============================================================================
