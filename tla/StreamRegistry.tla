--------------------------- MODULE StreamRegistry ---------------------------
(***************************************************************************)
(* Which coordinator serves which request: StreamRegistry                  *)
(* (proxy/stream/buffer/registry.go) with its cleanup ticker, the loop of  *)
(* handleStream (handlers/stream_http.go) that picks a coordinator and a   *)
(* load balancer result, and actualURL, which ties a coordinator to the    *)
(* first upstream URL it streamed from.                                    *)
(*                                                                         *)
(* A coordinator is reduced to what the registry and handleStream see of   *)
(* it: its client count and its writer; StreamSession has the rest.  The   *)
(* load balancer gives any URL of the stream (LoadBalancer has the rest).  *)
(***************************************************************************)
EXTENDS Integers, Sequences, FiniteSets

CONSTANTS Requests,    \* clients; each makes requests, one after the other
          Streams,
          UrlsOf,      \* the upstream URLs of a stream
          MaxCoords,   \* bound: coordinators created over a behaviour
          MaxResults   \* bound: upstream connections opened by the load balancer

ASSUME StreamsHaveUrls == \A s \in Streams : UrlsOf[s] # {}
ASSUME RegistryBounds == MaxCoords \in Nat /\ MaxResults \in Nat

VARIABLES coordinators,     \* the registry's map: stream to coordinator, 0 if none
          owner,            \* the stream of each coordinator created so far
          actualURL, ClientCount,
          writer,           \* the coordinator's writer goroutine
          using,            \* the result it was started with
          LBResultOnWrite,  \* 0 is nil, else a result
          results,          \* the URL of every result the load balancer gave
          pc, stream,       \* handleStream: where it is, the stream asked for,
          coord, res,       \* the coordinator and the result it holds
          told,             \* an error chunk was put while the request was watching
          cleaning          \* the key cleanup is about to remove, or NoStream

coordVars == <<owner, actualURL, ClientCount, writer, using, LBResultOnWrite>>
requestVars == <<pc, stream, coord, res, told>>
vars == <<coordinators, coordVars, results, requestVars, cleaning>>

NoStream == "no stream"
NoUrl == "no url"
Urls == UNION {UrlsOf[s] : s \in Streams}
(* "" is the URL of no result: a request to it fails.                      *)
ASSUME UrlsAreGiven == NoUrl \notin Urls
Coords == DOMAIN owner
WriterActive(c) == writer[c] # "off"
Mapped(c) == coordinators[owner[c]] = c

Goto(r, p) == pc' = [pc EXCEPT ![r] = p]

Init ==
    /\ coordinators = [s \in Streams |-> 0]
    /\ owner = <<>> /\ actualURL = <<>> /\ ClientCount = <<>>
    /\ writer = <<>> /\ using = <<>> /\ LBResultOnWrite = <<>>
    /\ results = <<>>
    /\ pc = [r \in Requests |-> "idle"]
    /\ stream = [r \in Requests |-> NoStream]
    /\ coord = [r \in Requests |-> 0]
    /\ res = [r \in Requests |-> 0]
    /\ told = [r \in Requests |-> FALSE]
    /\ cleaning = NoStream

-----------------------------------------------------------------------------
(* The registry.                                                           *)

\* NewStreamCoordinator, stored under its stream.
Create(s, url) ==
    /\ Len(owner) < MaxCoords
    /\ owner' = Append(owner, s)
    /\ actualURL' = Append(actualURL, url)
    /\ ClientCount' = Append(ClientCount, 0)
    /\ writer' = Append(writer, "off")
    /\ using' = Append(using, 0)
    /\ LBResultOnWrite' = Append(LBResultOnWrite, 0)
    /\ coordinators' = [coordinators EXCEPT ![s] = Len(owner) + 1]

\* SetActualURL: only the first URL is kept.
SetActualURL(c, url) ==
    actualURL' = [actualURL EXCEPT ![c] = IF @ = NoUrl THEN url ELSE @]

\* The second half of GetOrCreateCoordinator: load by stream, or create.
LoadOrCreate(r, s, url) ==
    \/ /\ coordinators[s] # 0
       /\ coord' = [coord EXCEPT ![r] = coordinators[s]]
       /\ SetActualURL(coordinators[s], url)
       /\ UNCHANGED <<coordinators, owner, ClientCount, writer, using, LBResultOnWrite>>
    \/ /\ coordinators[s] = 0
       /\ Create(s, url)
       /\ coord' = [coord EXCEPT ![r] = Len(owner) + 1]

\* cleanup finds a coordinator without clients ...
CleanupFinds(s) ==
    /\ cleaning = NoStream
    /\ coordinators[s] # 0 /\ ClientCount[coordinators[s]] = 0
    /\ cleaning' = s
    /\ UNCHANGED <<coordinators, coordVars, results, requestVars>>

\* ... and then removes whatever its key holds.
CleanupRemoves ==
    /\ cleaning # NoStream
    /\ coordinators' = [coordinators EXCEPT ![cleaning] = 0]
    /\ cleaning' = NoStream
    /\ UNCHANGED <<coordVars, results, requestVars>>

-----------------------------------------------------------------------------
(* handleStream.                                                           *)

\* A request comes (again): the coordinator is looked up once, by stream.
Lookup(r) ==
    /\ pc[r] = "idle"
    /\ Goto(r, "round")
    /\ \E s \in Streams : LoadOrCreate(r, s, NoUrl) /\ stream' = [stream EXCEPT ![r] = s]
    /\ UNCHANGED <<results, res, told, cleaning>>

\* No writer has a result: the load balancer opens a connection.
AskBalancer(r) ==
    /\ pc[r] = "round" /\ LBResultOnWrite[coord[r]] = 0
    /\ Len(results) < MaxResults
    /\ \E u \in UrlsOf[stream[r]] : results' = Append(results, u)
    /\ res' = [res EXCEPT ![r] = Len(results) + 1]
    /\ Goto(r, "enter")
    /\ UNCHANGED <<coordinators, coordVars, stream, coord, told, cleaning>>

\* The running writer's result is taken.  If the coordinator is tied to another URL,
\* a coordinator of that URL is looked for.
BorrowResult(r) == LET c == coord[r] IN LET n == LBResultOnWrite[c] IN
    /\ pc[r] = "round" /\ n # 0
    /\ res' = [res EXCEPT ![r] = n]
    /\ SetActualURL(c, results[n])
    /\ Goto(r, IF actualURL[c] \in {NoUrl, results[n]} THEN "enter" ELSE "redirect")
    /\ UNCHANGED <<coordinators, owner, ClientCount, writer, using, LBResultOnWrite,
                   results, stream, coord, told, cleaning>>

\* Mutant of TiedTo: coordinators that were removed are found as well.
TiedToEver(url) == {c \in Coords : actualURL[c] = url}
\* Mutant of TiedTo: any coordinator that is tied to a URL will do.
TiedToAny(url) == {c \in Coords : Mapped(c) /\ actualURL[c] # NoUrl}
\* The first half of GetOrCreateCoordinator: the coordinators of the map with the URL.
TiedTo(url) == {c \in Coords : Mapped(c) /\ actualURL[c] = url}

RedirectFound(r) ==
    /\ pc[r] = "redirect"
    /\ \E c \in TiedTo(results[res[r]]) : coord' = [coord EXCEPT ![r] = c]
    /\ Goto(r, "enter")
    /\ UNCHANGED <<coordinators, coordVars, results, stream, res, told, cleaning>>

RedirectMissed(r) ==
    /\ pc[r] = "redirect" /\ TiedTo(results[res[r]]) = {}
    /\ Goto(r, "enter")
    /\ LoadOrCreate(r, stream[r], results[res[r]])
    /\ UNCHANGED <<stream, results, res, told, cleaning>>

\* handleStream returns, and its locals are gone.
Finish(r) ==
    /\ Goto(r, "idle")
    /\ stream' = [stream EXCEPT ![r] = NoStream]
    /\ coord' = [coord EXCEPT ![r] = 0]

\* The load balancer fails or ctx is done: the request ends.
GiveUp(r) ==
    /\ pc[r] = "round"
    /\ Finish(r)
    /\ UNCHANGED <<coordinators, coordVars, results, res, told, cleaning>>

\* HandleStream: start a writer unless there is one, and register.
Enter(r) == LET c == coord[r] IN
    /\ pc[r] = "enter"
    /\ Goto(r, "watching")
    /\ ClientCount' = [ClientCount EXCEPT ![c] = @ + 1]
    /\ writer' = [writer EXCEPT ![c] = IF WriterActive(c) THEN @ ELSE "starting"]
    /\ using' = [using EXCEPT ![c] = IF WriterActive(c) THEN @ ELSE res[r]]
    /\ res' = [res EXCEPT ![r] = 0]
    /\ UNCHANGED <<coordinators, owner, actualURL, LBResultOnWrite, results, stream, coord, told, cleaning>>

\* Mutant of Return: a client that retries was not counted out.
ReturnKeeping(r) ==
    /\ pc[r] = "watching"
    /\ \/ told[r] /\ Goto(r, "round") /\ UNCHANGED <<stream, coord, ClientCount>>
       \/ /\ Finish(r)
          /\ ClientCount' = [ClientCount EXCEPT ![coord[r]] = @ - 1]
    /\ told' = [told EXCEPT ![r] = FALSE]
    /\ UNCHANGED <<coordinators, owner, actualURL, writer, using, LBResultOnWrite, results,
                   res, cleaning>>

\* HandleStream returns: the client is unregistered.  With an error that handleExitCode
\* retries, another round follows with the same coordinator.
Return(r) ==
    /\ pc[r] = "watching"
    /\ \/ told[r] /\ Goto(r, "round") /\ UNCHANGED <<stream, coord>>
       \/ Finish(r)
    /\ ClientCount' = [ClientCount EXCEPT ![coord[r]] = @ - 1]
    /\ told' = [told EXCEPT ![r] = FALSE]
    /\ UNCHANGED <<coordinators, owner, actualURL, writer, using, LBResultOnWrite, results,
                   res, cleaning>>

-----------------------------------------------------------------------------
(* The writer of a coordinator.                                            *)

GotoW(c, from_, to) == writer[c] = from_ /\ writer' = [writer EXCEPT ![c] = to]

WriterBegins(c) ==
    /\ GotoW(c, "starting", "running")
    /\ LBResultOnWrite' = [LBResultOnWrite EXCEPT ![c] = using[c]]
    /\ UNCHANGED <<coordinators, owner, actualURL, ClientCount, using, results, requestVars, cleaning>>

\* The writer fails, or its context is cancelled: the error chunk reaches the clients.
\* (Where the loop ends without one, or a client misses it, Return leaves the client
\* the same choice minus the retry.)
WriterErrs(c) ==
    /\ GotoW(c, "running", "closing")
    /\ told' = [r \in Requests |-> told[r] \/ (pc[r] = "watching" /\ coord[r] = c)]
    /\ UNCHANGED <<coordinators, owner, actualURL, ClientCount, using, LBResultOnWrite, results,
                   pc, stream, coord, res, cleaning>>

\* StartMediaWriter returns; the goroutine then ties the coordinator to the URL.
WriterReturns(c) ==
    /\ GotoW(c, "closing", "returned")
    /\ LBResultOnWrite' = [LBResultOnWrite EXCEPT ![c] = 0]
    /\ UNCHANGED <<coordinators, owner, actualURL, ClientCount, using, results, requestVars, cleaning>>

WriterEnds(c) ==
    /\ GotoW(c, "returned", "off")
    /\ SetActualURL(c, results[using[c]])
    /\ using' = [using EXCEPT ![c] = 0]
    /\ UNCHANGED <<coordinators, owner, ClientCount, LBResultOnWrite, results, requestVars, cleaning>>

-----------------------------------------------------------------------------
RequestStep(r) ==
    \/ Lookup(r) \/ AskBalancer(r) \/ BorrowResult(r) \/ RedirectFound(r) \/ RedirectMissed(r)
    \/ GiveUp(r) \/ Enter(r) \/ Return(r)
WriterStep(c) == WriterBegins(c) \/ WriterErrs(c) \/ WriterReturns(c) \/ WriterEnds(c)
CleanupStep == CleanupRemoves \/ \E s \in Streams : CleanupFinds(s)

Next ==
    \/ \E r \in Requests : RequestStep(r)
    \/ \E c \in Coords : WriterStep(c)
    \/ CleanupStep

Spec == Init /\ [][Next]_vars

-----------------------------------------------------------------------------
(* Properties.                                                             *)

\* Types of the registry's state.
RegistryTypeOK ==
    /\ coordinators \in [Streams -> 0 .. Len(owner)]
    /\ owner \in Seq(Streams)
    /\ \A c \in Coords :
          /\ actualURL[c] \in Urls \cup {NoUrl} /\ ClientCount[c] \in Nat
          /\ writer[c] \in {"off", "starting", "running", "closing", "returned"}
          /\ {using[c], LBResultOnWrite[c]} \subseteq 0 .. Len(results)
    /\ results \in Seq(Urls)
    /\ pc \in [Requests -> {"idle", "round", "redirect", "enter", "watching"}]
    /\ stream \in [Requests -> Streams \cup {NoStream}]
    /\ coord \in [Requests -> 0 .. Len(owner)] /\ res \in [Requests -> 0 .. Len(results)]
    /\ told \in [Requests -> BOOLEAN] /\ cleaning \in Streams \cup {NoStream}

Holds(r, c) == coord[r] = c
Disjoint == \A s, t \in Streams : s # t => UrlsOf[s] \cap UrlsOf[t] = {}

\* If no URL is listed under two streams, a request is only ever led to coordinators of
\* its own stream, and what they stream is of that stream: neither the search by URL nor
\* a borrowed result nor a retry crosses over.
OwnStream ==
    Disjoint =>
        /\ \A r \in Requests, c \in Coords : Holds(r, c) => owner[c] = stream[r]
        /\ \A c \in Coords : using[c] # 0 => results[using[c]] \in UrlsOf[owner[c]]

\* A coordinator that left the registry and that no request holds is never found again:
\* its ring and its writer are garbage.
DeadStaysDead ==
    [][\A c \in Coords :
          ~Mapped(c) /\ (\A r \in Requests : ~Holds(r, c))
              => (~Mapped(c) /\ \A r \in Requests : ~Holds(r, c))']_vars

\* A coordinator's client count is the number of requests watching it, over all rounds and
\* redirections; cleanup relies on it.
CountsWatchers ==
    \A c \in Coords : ClientCount[c] = Cardinality({r \in Requests : pc[r] = "watching" /\ coord[r] = c})

\* README.md: the proxy is there "to distribute single input stream of data to multiple
\* clients": a stream is read from one upstream connection at a time.
SingleInput ==
    \A c, d \in Coords :
        c # d /\ owner[c] = owner[d] => ~(writer[c] = "running" /\ writer[d] = "running")

=============================================================================
