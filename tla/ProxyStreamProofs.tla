------------------------- MODULE ProxyStreamProofs --------------------------
(***************************************************************************)
(* Who closes a response body, and in which order a VOD is written, for    *)
(* any number of requests, upstream responses and chunks.                  *)
(*                                                                         *)
(* Both rest on what a round of handleStream leaves to the next one        *)
(* (Round): a round that may be followed by another has no read under way  *)
(* and nothing in its channel, so that a read never lands in the buffer of *)
(* a later round; and on what is known of a result (Known): a VOD's body   *)
(* is read by one request only, and a result in use is never fetched anew. *)
(* The last part bounds what a request leaves running when it returns.     *)
(***************************************************************************)
EXTENDS ProxyStream, TLAPS

ReadResults == {"data", "last", "EOF", "error"}

\* Types of the variables.
ProxyTypes ==
    /\ handler \in [Clients -> {"idle", "wait", "pause", "segment", "returned"}]
    /\ want \in [Clients -> BOOLEAN]
    /\ proxy \in [Clients -> {"off", "begin", "direct", "write", "session", "waiting", "send"}]
    /\ held \in [Clients -> 0 .. MaxResults]
    /\ status \in [Clients -> {"none"} \cup Statuses]
    /\ reader \in [Clients -> {"off", "reading"} \cup ReadResults]
    /\ readChan \in [Clients -> {"empty"} \cup ReadResults]
    /\ buffer \in [Clients -> Nat]
    /\ got \in [Clients -> Seq(Nat)]
    /\ header \in [Clients -> 0 .. MaxResults]
    /\ kind \in [Results -> {"none", "media", "vod", "segment"}]
    /\ body \in [Results -> {"none", "open", "closed"}]
    /\ pos \in [Results -> Nat]
    /\ writer \in {"off", "start", "run", "end"}
    /\ writes \in 0 .. MaxResults
    /\ lost \subseteq Results

\* The goroutines of one request.
Round(c) ==
    /\ handler[c] \in {"idle", "pause", "segment"} => proxy[c] = "off"
    /\ handler[c] = "returned" => ~want[c]
    /\ proxy[c] = "send" <=> status[c] # "none"
    /\ \/ proxy[c] \in {"begin", "session", "waiting", "write"}
       \/ proxy[c] = "off" /\ handler[c] # "returned"
       \/ proxy[c] = "send" /\ status[c] # "ClientClosed"
       => reader[c] = "off" /\ readChan[c] = "empty"
    /\ proxy[c] = "direct" => (reader[c] = "off" <=> readChan[c] # "empty")
    /\ proxy[c] # "off" \/ reader[c] # "off" \/ handler[c] = "segment" => held[c] # 0

\* What its result is.
Kinds(c) ==
    /\ proxy[c] \in {"direct", "write"} \/ reader[c] # "off" => kind[held[c]] = "vod"
    /\ proxy[c] \in {"session", "waiting"} => kind[held[c]] = "media"

\* The results of the requests and of the writer.
Known ==
    /\ \A c \in Clients : held[c] # 0 => body[held[c]] # "none"
    /\ \A c, d \in Clients : held[c] # 0 /\ held[c] = held[d] /\ kind[held[c]] = "vod" => c = d
    /\ writer # "off" => writes # 0 /\ body[writes] # "none" /\ kind[writes] = "media"
    /\ writer = "end" => body[writes] = "closed"
    /\ \A r \in Results : body[r] = "none" => pos[r] = 0

\* A direct stream has written what it read, but for the chunk that is on its way
\* from the reader to the client.
Ordered(c) ==
    LET n == Len(got[c])
        ahead == buffer[c] = n + 1 /\ pos[held[c]] = n + 1
        ends(x) == /\ x = "last" => n + 1 = Chunks
                   /\ x = "EOF" => n = Chunks
    IN /\ \A i \in DOMAIN got[c] : got[c][i] = i
       /\ proxy[c] = "begin" /\ kind[held[c]] = "vod" => pos[held[c]] = 0
       /\ proxy[c] = "direct" =>
             /\ reader[c] = "reading" => pos[held[c]] = n
             /\ "data" \in {reader[c], readChan[c]} => ahead
             /\ ends(reader[c]) /\ ends(readChan[c])
       /\ proxy[c] = "write" => ahead
       /\ status[c] = "EOF" /\ kind[held[c]] = "vod" => n >= Chunks - 1

ProxyInv ==
    /\ ProxyTypes /\ Known /\ BodiesOwned
    /\ \A c \in Clients : Round(c) /\ Kinds(c) /\ Ordered(c)

-----------------------------------------------------------------------------
\* Nothing runs initially.
LEMMA ProxyInit == Init => ProxyInv
<1> SUFFICES ASSUME Init PROVE ProxyInv
  OBVIOUS
<1>1. ProxyTypes
  <2>1. 0 \in 0 .. MaxResults /\ <<>> \in Seq(Nat)
    BY ProxyBounds
  <2>2. /\ held \in [Clients -> 0 .. MaxResults] /\ header \in [Clients -> 0 .. MaxResults]
        /\ got \in [Clients -> Seq(Nat)] /\ writes \in 0 .. MaxResults
    BY <2>1 DEF Init
  <2> QED
    BY <2>2 DEF Init, ProxyTypes
<1>2. Known /\ BodiesOwned
  BY DEF Init, Known, BodiesOwned
<1>3. \A c \in Clients : Round(c) /\ Kinds(c)
  BY DEF Init, Round, Kinds
<1>4. \A c \in Clients : got[c] = <<>> /\ proxy[c] = "off" /\ status[c] = "none"
  BY DEF Init
<1>5. DOMAIN <<>> = {}
  OBVIOUS
<1>6. \A c \in Clients : Ordered(c)
  BY <1>4, <1>5 DEF Ordered
<1> QED
  BY <1>1, <1>2, <1>3, <1>6 DEF ProxyInv

\* A result that is in use is one of the results.
LEMMA InUse ==
    ASSUME ProxyTypes
    PROVE  /\ \A c \in Clients : held[c] # 0 => held[c] \in Results
           /\ writes # 0 => writes \in Results
           /\ 0 \notin Results
           /\ \A r \in Results : r \in 0 .. MaxResults
BY ProxyBounds DEF ProxyTypes, Results

\* The types are kept.
LEMMA TypesInv ==
    ASSUME ProxyInv, [Next]_vars
    PROVE  ProxyTypes'
<1> USE DEF ProxyTypes, clientVars, resultVars, writerVars
<1>0. ProxyTypes
  BY DEF ProxyInv
<1>1. CASE UNCHANGED vars
  BY <1>0, <1>1 DEF vars
<1>2. CASE WriterStep
  BY <1>0, <1>2 DEF WriterStep, WriterBegins, WriterReturns, WriterOff
<1>3. ASSUME NEW c \in Clients, Disconnect(c) \/ LoadBalancerFails(c) \/ Retry(c) \/ HandlerDone(c)
      PROVE  ProxyTypes'
  BY <1>0, <1>3 DEF Disconnect, LoadBalancerFails, Retry, HandlerDone, Returns
<1>4. ASSUME NEW c \in Clients, ReportStatus(c) PROVE ProxyTypes'
  BY <1>0, <1>4 DEF ReportStatus, Returns
<1>5. ASSUME NEW c \in Clients, BorrowResult(c) PROVE ProxyTypes'
  BY <1>0, <1>5 DEF BorrowResult, StartProxy
<1>6. ASSUME NEW c \in Clients, NEW r \in Results, NEW k \in {"media", "vod"}, FreshResult(c, r, k)
      PROVE  ProxyTypes'
  BY <1>0, <1>6, InUse DEF FreshResult, StartProxy
<1>7. ASSUME NEW c \in Clients, DirectBegin(c) PROVE ProxyTypes'
  <2>1. <<>> \in Seq(Nat)
    OBVIOUS
  <2> QED
    BY <1>0, <1>7, <2>1 DEF DirectBegin, StartRead, WriteHeader
<1>8. ASSUME NEW c \in Clients, NEW x \in ReadResults, Read(c, x) PROVE ProxyTypes'
  <2>1. held[c] \in Results
    BY <1>0, <1>8, InUse DEF ProxyInv, Round, Read
  <2>2. pos[held[c]] \in Nat
    BY <1>0, <2>1
  <2>3. /\ reader' = [reader EXCEPT ![c] = x]
        /\ \E n \in {0, 1} : pos' = [pos EXCEPT ![held[c]] = @ + n]
        /\ \E b \in {pos[held[c]] + 1, buffer[c]} : buffer' = [buffer EXCEPT ![c] = b]
        /\ UNCHANGED <<handler, want, proxy, held, status, readChan, got, header, kind, body,
                      writerVars>>
    BY <1>8 DEF Read
  <2> QED
    BY <1>0, <2>1, <2>2, <2>3
<1>9. ASSUME NEW c \in Clients, Send(c) \/ DirectTakes(c) PROVE ProxyTypes'
  <2>1. reader[c] \notin {"off", "reading"} => reader[c] \in ReadResults
    BY <1>0
  <2> QED
    BY <1>0, <1>9, <2>1 DEF Send, DirectTakes
<1>10. ASSUME NEW c \in Clients, DirectDone(c) \/ DirectFails(c) \/ DirectUnwritten(c)
       PROVE  ProxyTypes'
  BY <1>0, <1>10 DEF DirectDone, DirectFails, DirectUnwritten, DirectReturns, Statuses
<1>11. ASSUME NEW c \in Clients, DirectWrites(c) PROVE ProxyTypes'
  <2>1. Append(got[c], buffer[c]) \in Seq(Nat)
    BY <1>0
  <2> QED
    BY <1>0, <1>11, <2>1 DEF DirectWrites, StartRead
<1>12. ASSUME NEW c \in Clients, SessionBegin(c) PROVE ProxyTypes'
  <2>1. held[c] \in Results
    BY <1>0, <1>12, InUse DEF ProxyInv, Round, SessionBegin
  <2> QED
    BY <1>0, <1>12, <2>1 DEF SessionBegin
<1>13. ASSUME NEW c \in Clients, NEW s \in Statuses, SessionReturns(c, s) PROVE ProxyTypes'
  BY <1>0, <1>13 DEF SessionReturns
<1>20. ASSUME NEW c \in Clients, SessionWaits(c) \/ SessionWoken(c) PROVE ProxyTypes'
  BY <1>0, <1>20 DEF SessionWaits, SessionWoken
<1>14. ASSUME NEW c \in Clients, SessionWrites(c) PROVE ProxyTypes'
  BY <1>0, <1>14 DEF SessionWrites, WriteHeader
<1>15. ASSUME NEW c \in Clients, NEW r \in Results, SegmentFetched(c, r) PROVE ProxyTypes'
  BY <1>0, <1>15, InUse DEF SegmentFetched, WriteHeader
<1>16. ASSUME NEW c \in Clients, SegmentCopied(c) PROVE ProxyTypes'
  BY <1>0, <1>16 DEF SegmentCopied, Returns
<1> QED
  BY <1>1, <1>2, <1>3, <1>4, <1>5, <1>6, <1>7, <1>8, <1>9, <1>10, <1>11, <1>12, <1>13, <1>14, <1>15,
     <1>16, <1>20 DEF Next, HandlerStep, ProxyStep, ReadResults

\* The goroutines of every request stay in step with its handler.
LEMMA RoundInv ==
    ASSUME ProxyInv, [Next]_vars, NEW d \in Clients
    PROVE  Round(d)'
<1> USE DEF Round, clientVars, resultVars, writerVars
<1>0. ProxyTypes /\ Round(d)
  BY DEF ProxyInv
<1>z. 0 \notin Results /\ (writer = "run" => writes # 0)
  BY <1>0, InUse DEF ProxyInv, Known
<1> USE DEF ProxyTypes
<1>1. CASE UNCHANGED vars
  BY <1>0, <1>1 DEF vars
<1>2. CASE WriterStep
  BY <1>0, <1>2 DEF WriterStep, WriterBegins, WriterReturns, WriterOff
<1>3. ASSUME NEW c \in Clients, Disconnect(c) \/ LoadBalancerFails(c) \/ Retry(c) \/ HandlerDone(c)
      PROVE  Round(d)'
  BY <1>0, <1>3 DEF Disconnect, LoadBalancerFails, Retry, HandlerDone, Returns
<1>4. ASSUME NEW c \in Clients, ReportStatus(c) PROVE Round(d)'
  BY <1>0, <1>4 DEF ReportStatus, Returns
<1>5. ASSUME NEW c \in Clients, NEW r, r # 0, StartProxy(c, r), handler[c] = "idle" PROVE Round(d)'
  BY <1>0, <1>5 DEF StartProxy
<1>6. ASSUME NEW c \in Clients,
             BorrowResult(c) \/ \E r \in Results, k \in {"media", "vod"} : FreshResult(c, r, k)
      PROVE  Round(d)'
  BY <1>5, <1>6, <1>z DEF BorrowResult, FreshResult
<1>7. ASSUME NEW c \in Clients, DirectBegin(c) PROVE Round(d)'
  BY <1>0, <1>7 DEF DirectBegin, StartRead, WriteHeader
<1>8. ASSUME NEW c \in Clients, NEW x \in ReadResults, Read(c, x) PROVE Round(d)'
  <2>1. /\ reader[c] = "reading" /\ reader' = [reader EXCEPT ![c] = x] /\ x # "off"
        /\ UNCHANGED <<handler, want, proxy, held, status, readChan>>
    BY <1>8 DEF Read, ReadResults
  <2> QED
    BY <1>0, <2>1
<1>9. ASSUME NEW c \in Clients, Send(c) \/ DirectTakes(c) PROVE Round(d)'
  <2>1. CASE Send(c)
    <3>1. reader[c] # "empty" /\ reader[c] # "off"
      BY <1>0, <2>1 DEF Send, ReadResults
    <3> QED
      BY <1>0, <2>1, <3>1 DEF Send
  <2>2. CASE DirectTakes(c)
    BY <1>0, <2>2 DEF DirectTakes
  <2> QED
    BY <1>9, <2>1, <2>2
<1>10. ASSUME NEW c \in Clients, DirectDone(c) \/ DirectFails(c) \/ DirectUnwritten(c)
       PROVE  Round(d)'
  BY <1>0, <1>10 DEF DirectDone, DirectFails, DirectUnwritten, DirectReturns
<1>11. ASSUME NEW c \in Clients, DirectWrites(c) PROVE Round(d)'
  BY <1>0, <1>11 DEF DirectWrites, StartRead
<1>12. ASSUME NEW c \in Clients, SessionBegin(c) \/ SessionWrites(c) PROVE Round(d)'
  BY <1>0, <1>12 DEF SessionBegin, SessionWrites
<1>20. ASSUME NEW c \in Clients, SessionWaits(c) \/ SessionWoken(c) PROVE Round(d)'
  BY <1>0, <1>20 DEF SessionWaits, SessionWoken
<1>13. ASSUME NEW c \in Clients, NEW s \in Statuses, SessionReturns(c, s) PROVE Round(d)'
  BY <1>0, <1>13 DEF SessionReturns, Statuses
<1>15. ASSUME NEW c \in Clients, NEW r \in Results, SegmentFetched(c, r) PROVE Round(d)'
  BY <1>0, <1>15, <1>z DEF SegmentFetched
<1>16. ASSUME NEW c \in Clients, SegmentCopied(c) PROVE Round(d)'
  BY <1>0, <1>16 DEF SegmentCopied, Returns
<1> QED
  BY <1>1, <1>2, <1>3, <1>4, <1>6, <1>7, <1>8, <1>9, <1>10, <1>11, <1>12, <1>13, <1>15,
     <1>16, <1>20 DEF Next, HandlerStep, ProxyStep, ReadResults

\* The results in use stay what they are.
LEMMA KnownInv ==
    ASSUME ProxyInv, [Next]_vars
    PROVE  Known'
<1> USE DEF Known, clientVars, resultVars, writerVars
<1>0. ProxyTypes /\ Known
  BY DEF ProxyInv
<1>z. /\ \A c \in Clients : held[c] # 0 => held[c] \in Results
      /\ writes # 0 => writes \in Results
      /\ 0 \notin Results
  BY <1>0, InUse
<1> USE DEF ProxyTypes
<1>1. CASE UNCHANGED <<held, kind, pos, body, writer, writes>>
  BY <1>0, <1>1
<1>2. CASE WriterStep
  BY <1>0, <1>2, <1>z DEF WriterStep, WriterBegins, WriterReturns, WriterOff
<1>5. ASSUME NEW c \in Clients, BorrowResult(c) PROVE Known'
  BY <1>0, <1>5, <1>z DEF BorrowResult, StartProxy
<1>6. ASSUME NEW c \in Clients, NEW r \in Results, NEW k \in {"media", "vod", "segment"},
             held' = [held EXCEPT ![c] = r], kind' = [kind EXCEPT ![r] = k],
             body' = [body EXCEPT ![r] = "open"], body[r] = "none",
             UNCHANGED <<pos, writer, writes>>
      PROVE  Known'
  <2>1. /\ held'[c] = r /\ \A d \in Clients : d # c => held'[d] = held[d]
        /\ kind'[r] = k /\ body'[r] = "open"
        /\ \A q \in Results : q # r => kind'[q] = kind[q] /\ body'[q] = body[q]
    BY <1>0, <1>6
  <2>2. \A d \in Clients : held[d] # r
    BY <1>0, <1>6, <1>z
  <2>3. writer # "off" => writes # r /\ writes \in Results
    BY <1>0, <1>6, <1>z
  <2>4. \A d \in Clients : d # c /\ held[d] # 0 => held[d] # r /\ held[d] \in Results
    BY <2>2, <1>z
  <2> QED
    BY <1>0, <1>6, <1>z, <2>1, <2>3, <2>4
<1>7. ASSUME NEW c \in Clients,
             \/ \E r \in Results, k \in {"media", "vod"} : FreshResult(c, r, k)
             \/ \E r \in Results : SegmentFetched(c, r)
      PROVE  Known'
  BY <1>6, <1>7 DEF FreshResult, SegmentFetched, StartProxy, NextResult
<1>8. ASSUME NEW c \in Clients, NEW x \in ReadResults, Read(c, x) PROVE Known'
  <2>1. held[c] # 0
    BY <1>8 DEF Read, ProxyInv, Round
  <2>2. body[held[c]] # "none" /\ held[c] \in Results
    BY <1>0, <1>z, <2>1
  <2>3. /\ \A r \in Results : r # held[c] => pos'[r] = pos[r]
        /\ UNCHANGED <<held, kind, body, writer, writes>>
    BY <1>8, <2>2 DEF Read
  <2> QED
    BY <1>0, <2>2, <2>3
<1>10. ASSUME NEW c \in Clients, held[c] # 0, body' = [body EXCEPT ![held[c]] = "closed"],
              UNCHANGED <<held, kind, pos, writer, writes>>
       PROVE  Known'
  BY <1>0, <1>10, <1>z
<1>11. ASSUME NEW c \in Clients,
              DirectDone(c) \/ DirectFails(c) \/ DirectUnwritten(c) \/ SegmentCopied(c)
       PROVE  Known'
  <2>1. held[c] # 0
    BY <1>11 DEF DirectDone, DirectFails, DirectUnwritten, SegmentCopied, ProxyInv, Round
  <2> QED
    BY <1>10, <1>11, <2>1 DEF DirectDone, DirectFails, DirectUnwritten, DirectReturns, SegmentCopied
<1>12. ASSUME NEW c \in Clients, SessionBegin(c) PROVE Known'
  <2>1. held[c] # 0
    BY <1>12 DEF SessionBegin, ProxyInv, Round
  <2> QED
    BY <1>0, <1>12, <1>z, <2>1 DEF SessionBegin
<1>13. ASSUME NEW c \in Clients,
              \/ Disconnect(c) \/ LoadBalancerFails(c) \/ Retry(c) \/ HandlerDone(c) \/ ReportStatus(c)
              \/ DirectBegin(c) \/ Send(c) \/ DirectTakes(c) \/ DirectWrites(c) \/ SessionWrites(c)
              \/ SessionWaits(c) \/ SessionWoken(c)
              \/ \E s \in Statuses : SessionReturns(c, s)
       PROVE  Known'
  BY <1>1, <1>13 DEF Disconnect, LoadBalancerFails, Retry, HandlerDone, ReportStatus, DirectBegin, Send,
                    DirectTakes, DirectWrites, SessionWrites, SessionWaits, SessionWoken, SessionReturns
<1> QED
  BY <1>1, <1>2, <1>5, <1>7, <1>8, <1>11, <1>12, <1>13 DEF Next, HandlerStep, ProxyStep, ReadResults, vars

\* A request that reads or writes a VOD has one; one in a session has none.
LEMMA KindsInv ==
    ASSUME ProxyInv, [Next]_vars, NEW d \in Clients
    PROVE  Kinds(d)'
<1> USE DEF Kinds, clientVars, resultVars, writerVars
<1>0. ProxyTypes /\ Known /\ Round(d) /\ Kinds(d)
  BY DEF ProxyInv
<1>z. 0 \notin Results /\ \A c \in Clients : held[c] # 0 => held[c] \in Results
  BY <1>0, InUse
<1> USE DEF ProxyTypes
<1>1. CASE UNCHANGED <<proxy, reader, held, kind>>
  BY <1>0, <1>1
<1>2. ASSUME NEW c \in Clients, UNCHANGED <<proxy, reader, held, kind>> PROVE Kinds(d)'
  BY <1>0, <1>2
<1>3. ASSUME NEW c \in Clients, ReportStatus(c) \/ (\E s \in Statuses : SessionReturns(c, s))
                \/ DirectDone(c) \/ DirectFails(c) \/ DirectUnwritten(c)
      PROVE  Kinds(d)'
  BY <1>0, <1>3 DEF ReportStatus, SessionReturns, DirectDone, DirectFails, DirectUnwritten, DirectReturns
<1>20. ASSUME NEW c \in Clients, SessionWaits(c) \/ SessionWoken(c) PROVE Kinds(d)'
  BY <1>0, <1>20 DEF SessionWaits, SessionWoken
<1>5. ASSUME NEW c \in Clients, NEW r, StartProxy(c, r), handler[c] = "idle",
             kind' = kind \/ (r \in Results /\ body[r] = "none" /\ \E k : kind' = [kind EXCEPT ![r] = k])
      PROVE  Kinds(d)'
  <2>1. CASE d = c
    BY <1>0, <1>5, <2>1 DEF StartProxy, Round
  <2>2. CASE d # c
    <3>1. held'[d] = held[d] /\ proxy'[d] = proxy[d] /\ reader'[d] = reader[d]
      BY <1>0, <1>5, <2>2 DEF StartProxy
    <3>2. held[d] # 0 => kind'[held[d]] = kind[held[d]]
      BY <1>0, <1>5, <1>z DEF Known
    <3> QED
      BY <1>0, <3>1, <3>2 DEF Round
  <2> QED
    BY <2>1, <2>2
<1>6. ASSUME NEW c \in Clients,
             BorrowResult(c) \/ \E r \in Results, k \in {"media", "vod"} : FreshResult(c, r, k)
      PROVE  Kinds(d)'
  BY <1>5, <1>6 DEF BorrowResult, FreshResult, NextResult
<1>7. ASSUME NEW c \in Clients, DirectBegin(c) \/ DirectTakes(c) \/ DirectWrites(c) \/ Send(c)
      PROVE  Kinds(d)'
  BY <1>0, <1>7 DEF DirectBegin, StartRead, DirectTakes, DirectWrites, Send
<1>8. ASSUME NEW c \in Clients, NEW x \in ReadResults, Read(c, x) PROVE Kinds(d)'
  <2>1. /\ reader[c] = "reading" /\ reader' = [reader EXCEPT ![c] = x]
        /\ UNCHANGED <<proxy, held, kind>>
    BY <1>8 DEF Read
  <2> QED
    BY <1>0, <2>1
<1>9. ASSUME NEW c \in Clients, SessionBegin(c) PROVE Kinds(d)'
  BY <1>0, <1>9 DEF SessionBegin, Round
<1>10. ASSUME NEW c \in Clients, NEW r \in Results, SegmentFetched(c, r) PROVE Kinds(d)'
  <2>1. proxy' = proxy /\ reader' = reader /\ body[r] = "none" /\ held[c] = 0
        /\ held' = [held EXCEPT ![c] = r] /\ kind' = [kind EXCEPT ![r] = "segment"]
        /\ handler[c] = "idle"
    BY <1>10 DEF SegmentFetched, NextResult
  <2>2. CASE d = c
    BY <1>0, <2>1, <2>2 DEF Round
  <2>3. CASE d # c
    <3>1. held'[d] = held[d] /\ (held[d] # 0 => kind'[held[d]] = kind[held[d]])
      BY <1>0, <1>z, <2>1, <2>3 DEF Known
    <3> QED
      BY <1>0, <2>1, <3>1 DEF Round
  <2> QED
    BY <2>2, <2>3
<1>11. ASSUME WriterStep \/ \E c \in Clients : Disconnect(c) \/ LoadBalancerFails(c) \/ Retry(c)
                 \/ HandlerDone(c) \/ SessionWrites(c) \/ SegmentCopied(c)
       PROVE  Kinds(d)'
  BY <1>1, <1>11 DEF WriterStep, WriterBegins, WriterReturns, WriterOff, Disconnect, LoadBalancerFails,
                    Retry, HandlerDone, SessionWrites, SegmentCopied
<1> QED
  BY <1>1, <1>3, <1>6, <1>7, <1>8, <1>9, <1>10, <1>11, <1>20 DEF Next, HandlerStep, ProxyStep, ReadResults, vars

-----------------------------------------------------------------------------
(* Owners of bodies.                                                       *)

\* A request that will close the body of result r.
Owner(c, r) == held[c] = r /\ (Runs(c) \/ handler[c] = "segment")

\* Steps that keep every owner and open no body.
LEMMA OwnersStay ==
    ASSUME ProxyTypes, BodiesOwned, lost \subseteq lost',
           writer # "off" /\ writer' = "off" => body[writes] # "open",
           writes' = writes \/ writer = "off",
           \A r \in Results : body'[r] = "open" => body[r] = "open",
           \A c \in Clients, r \in Results :
              Owner(c, r) /\ body'[r] = "open" =>
                 Owner(c, r)' \/ r \in lost' \/ (writer' # "off" /\ writes' = r)
    PROVE  BodiesOwned'
<1> SUFFICES ASSUME NEW r \in Results, body'[r] = "open"
             PROVE  r \in lost' \/ (writer' # "off" /\ writes' = r) \/ \E c \in Clients : Owner(c, r)'
  BY DEF BodiesOwned, Owner
<1>1. body[r] = "open"
  OBVIOUS
<1>2. r \in lost \/ (writer # "off" /\ writes = r) \/ \E c \in Clients : Owner(c, r)
  BY <1>1 DEF BodiesOwned, Owner
<1> QED
  BY <1>1, <1>2

\* Every open body keeps an owner, or is that of a result that lost.
LEMMA OwnedInv ==
    ASSUME ProxyInv, [Next]_vars
    PROVE  BodiesOwned'
<1> USE DEF clientVars, resultVars, writerVars, Owner, Runs
<1>0. ProxyTypes /\ Known /\ BodiesOwned /\ \A c \in Clients : Round(c)
  BY DEF ProxyInv
<1>z. /\ \A c \in Clients : held[c] # 0 => held[c] \in Results
      /\ writes # 0 => writes \in Results
      /\ 0 \notin Results
  BY <1>0, InUse
<1> USE DEF ProxyTypes
<1>1. CASE UNCHANGED vars
  BY <1>0, <1>1 DEF vars, BodiesOwned
<1>2. CASE WriterStep
  <2>1. \A r \in Results : body'[r] = "open" => body[r] = "open"
    BY <1>0, <1>2 DEF WriterStep, WriterBegins, WriterReturns, WriterOff
  <2>2. UNCHANGED <<held, proxy, handler, lost, writes>>
    BY <1>2 DEF WriterStep, WriterBegins, WriterReturns, WriterOff
  <2>3. writer # "off" /\ writer' = "off" => body[writes] # "open"
    BY <1>0, <1>2 DEF WriterStep, WriterBegins, WriterReturns, WriterOff, Known
  <2> QED
    BY <1>0, <2>1, <2>2, <2>3, OwnersStay
<1>3. ASSUME NEW c \in Clients,
             \/ Disconnect(c) \/ LoadBalancerFails(c) \/ Retry(c) \/ HandlerDone(c) \/ ReportStatus(c)
             \/ DirectBegin(c) \/ Send(c) \/ DirectTakes(c) \/ DirectWrites(c) \/ SessionWrites(c)
             \/ SessionWaits(c) \/ SessionWoken(c)
             \/ (\E s \in Statuses : SessionReturns(c, s)) \/ \E x \in ReadResults : Read(c, x)
      PROVE  BodiesOwned'
  <2>1. UNCHANGED <<held, body, writer, writes, lost>>
    BY <1>3 DEF Disconnect, LoadBalancerFails, Retry, HandlerDone, ReportStatus, DirectBegin, Send,
                DirectTakes, DirectWrites, SessionWrites, SessionWaits, SessionWoken, SessionReturns, Read
  <2>2. \A e \in Clients : Runs(e) => Runs(e)'
    BY <1>0, <1>3 DEF Disconnect, LoadBalancerFails, Retry, HandlerDone, ReportStatus, DirectBegin, Send,
                StartRead, DirectTakes, DirectWrites, SessionWrites, SessionWaits, SessionWoken,
                SessionReturns, Read
  <2>3. \A e \in Clients : handler[e] = "segment" => handler'[e] = "segment"
    BY <1>0, <1>3 DEF Disconnect, LoadBalancerFails, Retry, HandlerDone, ReportStatus, DirectBegin, Send,
                Returns, DirectTakes, DirectWrites, SessionWrites, SessionWaits, SessionWoken,
                SessionReturns, Read
  <2> QED
    BY <1>0, <2>1, <2>2, <2>3, OwnersStay
<1>5. ASSUME NEW c \in Clients, BorrowResult(c) PROVE BodiesOwned'
  <2>1. /\ UNCHANGED <<body, writer, writes, lost>> /\ handler[c] = "idle"
        /\ proxy' = [proxy EXCEPT ![c] = "begin"] /\ handler' = [handler EXCEPT ![c] = "wait"]
        /\ held' = [held EXCEPT ![c] = writes]
    BY <1>5 DEF BorrowResult, StartProxy
  <2>2. \A r \in Results : ~Owner(c, r)
    BY <1>0, <2>1 DEF Round
  <2>3. \A e \in Clients, r \in Results : Owner(e, r) => Owner(e, r)'
    BY <1>0, <2>1, <2>2
  <2> QED
    BY <1>0, <2>1, <2>3, OwnersStay
<1>6. ASSUME NEW c \in Clients, NEW r \in Results, handler[c] = "idle",
             UNCHANGED <<writer, writes, lost>>, held' = [held EXCEPT ![c] = r],
             body' = [body EXCEPT ![r] = "open"], Owner(c, r)',
             \A e \in Clients : e # c => proxy'[e] = proxy[e] /\ handler'[e] = handler[e]
      PROVE  BodiesOwned'
  <2> SUFFICES ASSUME NEW q \in Results, body'[q] = "open", q # r
               PROVE  q \in lost \/ (writer # "off" /\ writes = q) \/ \E e \in Clients : Owner(e, q)'
    BY <1>6 DEF BodiesOwned
  <2>1. body[q] = "open"
    BY <1>0, <1>6
  <2>2. \A e \in Clients : Owner(e, q) => e # c
    BY <1>0, <1>6 DEF Round
  <2>3. \A e \in Clients : Owner(e, q) => Owner(e, q)'
    BY <1>0, <1>6, <2>2
  <2> QED
    BY <1>0, <2>1, <2>3 DEF BodiesOwned
<1>7. ASSUME NEW c \in Clients, NEW r \in Results,
             SegmentFetched(c, r) \/ \E k \in {"media", "vod"} : FreshResult(c, r, k)
      PROVE  BodiesOwned'
  <2>1. /\ handler[c] = "idle" /\ UNCHANGED <<writer, writes, lost>>
        /\ held' = [held EXCEPT ![c] = r] /\ body' = [body EXCEPT ![r] = "open"]
        /\ \E x \in {"wait", "segment"} : handler' = [handler EXCEPT ![c] = x]
        /\ proxy' = proxy \/ proxy' = [proxy EXCEPT ![c] = "begin"]
    BY <1>7 DEF SegmentFetched, FreshResult, StartProxy
  <2>2. Owner(c, r)'
    BY <1>0, <1>7 DEF SegmentFetched, FreshResult, StartProxy
  <2> QED
    BY <1>0, <1>6, <2>1, <2>2
<1>8. ASSUME NEW c \in Clients,
             DirectDone(c) \/ DirectFails(c) \/ DirectUnwritten(c) \/ SegmentCopied(c)
      PROVE  BodiesOwned'
  <2>1. /\ held[c] \in Results /\ body' = [body EXCEPT ![held[c]] = "closed"]
        /\ UNCHANGED <<held, writer, writes, lost>>
        /\ \A e \in Clients : e # c => proxy'[e] = proxy[e] /\ handler'[e] = handler[e]
    BY <1>0, <1>8, <1>z DEF DirectDone, DirectFails, DirectUnwritten, DirectReturns, SegmentCopied,
                           Returns, Round
  <2> QED
    BY <1>0, <2>1, OwnersStay
<1>9. ASSUME NEW c \in Clients, SessionBegin(c) PROVE BodiesOwned'
  <2>1. /\ UNCHANGED <<held, body, handler>> /\ held[c] \in Results
        /\ proxy' = [proxy EXCEPT ![c] = "session"] /\ handler[c] # "segment"
    BY <1>0, <1>9, <1>z DEF SessionBegin, Round
  <2>2. /\ lost \subseteq lost' /\ (writes' = writes \/ writer = "off")
        /\ writer # "off" => writer' = writer
    BY <1>9 DEF SessionBegin
  <2>3. body[held[c]] = "open" => held[c] \in lost' \/ (writer' # "off" /\ writes' = held[c])
    BY <1>9 DEF SessionBegin
  <2>4. \A e \in Clients, r \in Results : Owner(e, r) /\ e # c => Owner(e, r)'
    BY <1>0, <2>1
  <2>5. \A e \in Clients, r \in Results : Owner(e, r) /\ e = c => held[c] = r
    OBVIOUS
  <2> SUFFICES ASSUME NEW r \in Results, body[r] = "open"
               PROVE  \/ r \in lost' \/ (writer' # "off" /\ writes' = r)
                      \/ \E e \in Clients : Owner(e, r)'
    BY <2>1 DEF BodiesOwned
  <2>6. CASE r \in lost \/ (writer # "off" /\ writes = r)
    BY <2>2, <2>6
  <2>7. CASE \E e \in Clients : Owner(e, r)
    BY <2>3, <2>4, <2>5, <2>7
  <2> QED
    BY <1>0, <2>6, <2>7 DEF BodiesOwned
<1> QED
  BY <1>1, <1>2, <1>3, <1>5, <1>7, <1>8, <1>9 DEF Next, HandlerStep, ProxyStep, ReadResults

-----------------------------------------------------------------------------
(* The chunks of a VOD.                                                    *)

\* Appending its number to a gapless sequence keeps it gapless.
LEMMA Appended ==
    ASSUME NEW q \in Seq(Nat), \A i \in DOMAIN q : q[i] = i
    PROVE  LET p == Append(q, Len(q) + 1) IN
           Len(p) = Len(q) + 1 /\ \A i \in DOMAIN p : p[i] = i
OBVIOUS

\* A request whose own state, and the chunks of whose VOD, do not change stays ordered.
LEMMA OrderedStays ==
    ASSUME NEW d \in Clients, Ordered(d),
           proxy'[d] = proxy[d], held'[d] = held[d], got'[d] = got[d], status'[d] = status[d],
           reader'[d] = reader[d], readChan'[d] = readChan[d], buffer'[d] = buffer[d],
           proxy[d] \in {"begin", "direct", "write"} \/ status[d] = "EOF" =>
              kind'[held[d]] = kind[held[d]],
           proxy[d] \in {"direct", "write"} \/ (proxy[d] = "begin" /\ kind[held[d]] = "vod") =>
              pos'[held[d]] = pos[held[d]]
    PROVE  Ordered(d)'
<1>1. \A i \in DOMAIN got[d] : got[d][i] = i
  BY DEF Ordered
<1>2. proxy[d] = "begin" /\ kind[held[d]] = "vod" => pos[held[d]] = 0
  BY DEF Ordered
<1>3. status[d] = "EOF" /\ kind[held[d]] = "vod" => Len(got[d]) >= Chunks - 1
  BY DEF Ordered
<1>4. proxy[d] = "write" => buffer[d] = Len(got[d]) + 1 /\ pos[held[d]] = Len(got[d]) + 1
  BY DEF Ordered
<1>5. proxy[d] = "direct" =>
         /\ reader[d] = "reading" => pos[held[d]] = Len(got[d])
         /\ "data" \in {reader[d], readChan[d]} =>
               buffer[d] = Len(got[d]) + 1 /\ pos[held[d]] = Len(got[d]) + 1
         /\ "last" \in {reader[d], readChan[d]} => Len(got[d]) + 1 = Chunks
         /\ "EOF" \in {reader[d], readChan[d]} => Len(got[d]) = Chunks
  BY DEF Ordered
<1> QED
  BY <1>1, <1>2, <1>3, <1>4, <1>5 DEF Ordered

\* A step of another request disturbs nothing: a VOD's body is read by one request only.
LEMMA OrderedElsewhere ==
    ASSUME ProxyInv, NEW d \in Clients,
           proxy'[d] = proxy[d], held'[d] = held[d], got'[d] = got[d], status'[d] = status[d],
           reader'[d] = reader[d], readChan'[d] = readChan[d], buffer'[d] = buffer[d],
           \A q \in Results : body[q] # "none" => kind'[q] = kind[q],
           \A q \in Results : pos'[q] = pos[q] \/
              \E c \in Clients : c # d /\ reader[c] # "off" /\ held[c] = q
    PROVE  Ordered(d)'
<1>0. ProxyTypes /\ Known /\ Ordered(d) /\ \A c \in Clients : Round(c) /\ Kinds(c)
  BY DEF ProxyInv
<1>1. proxy[d] \in {"begin", "direct", "write"} \/ status[d] = "EOF" => held[d] # 0
  BY <1>0 DEF Round
<1>2. held[d] # 0 => held[d] \in Results /\ body[held[d]] # "none"
  BY <1>0, InUse DEF Known
<1>3. proxy[d] \in {"begin", "direct", "write"} \/ status[d] = "EOF" => kind'[held[d]] = kind[held[d]]
  BY <1>1, <1>2
<1>4. ASSUME proxy[d] \in {"direct", "write"} \/ (proxy[d] = "begin" /\ kind[held[d]] = "vod")
      PROVE  pos'[held[d]] = pos[held[d]]
  <2>1. held[d] # 0 /\ held[d] \in Results /\ kind[held[d]] = "vod"
    BY <1>0, <1>1, <1>2, <1>4 DEF Kinds
  <2>2. \A c \in Clients : held[c] = held[d] => c = d
    BY <1>0, <2>1 DEF Known
  <2> QED
    BY <2>1, <2>2
<1> QED
  BY <1>0, <1>3, <1>4, OrderedStays

\* A request that is in no direct stream, and has no status, stays ordered.
LEMMA OrderedIdle ==
    ASSUME NEW d \in Clients, Ordered(d), got'[d] = got[d], status'[d] = "none",
           proxy'[d] \notin {"begin", "direct", "write"}
    PROVE  Ordered(d)'
BY DEF Ordered

\* A request whose direct stream returns.
LEMMA OrderedReturned ==
    ASSUME NEW d \in Clients, Ordered(d), got'[d] = got[d], proxy'[d] = "send",
           held'[d] = held[d], kind' = kind,
           status'[d] = "EOF" /\ kind[held[d]] = "vod" => Len(got[d]) >= Chunks - 1
    PROVE  Ordered(d)'
BY DEF Ordered

\* The chunks of a VOD are read and written in turn.
LEMMA OrderedInv ==
    ASSUME ProxyInv, [Next]_vars, NEW d \in Clients
    PROVE  Ordered(d)'
<1> USE DEF clientVars, resultVars, writerVars
<1>0. ProxyTypes /\ Known /\ Ordered(d) /\ Round(d) /\ Kinds(d)
  BY DEF ProxyInv
<1>z. /\ \A c \in Clients : held[c] # 0 => held[c] \in Results
      /\ writes # 0 => writes \in Results
      /\ 0 \notin Results
  BY <1>0, InUse
<1>1. CASE UNCHANGED vars \/ WriterStep
  <2>1. UNCHANGED <<proxy, held, got, status, reader, readChan, buffer, kind, pos>>
    BY <1>1 DEF vars, WriterStep, WriterBegins, WriterReturns, WriterOff
  <2> QED
    BY <2>1, OrderedElsewhere
<1>2. ASSUME NEW c \in Clients,
             Disconnect(c) \/ LoadBalancerFails(c) \/ Retry(c) \/ HandlerDone(c) \/ SessionWrites(c)
                \/ SegmentCopied(c)
      PROVE  Ordered(d)'
  <2>1. UNCHANGED <<proxy, held, got, status, reader, readChan, buffer, kind, pos>>
    BY <1>2 DEF Disconnect, LoadBalancerFails, Retry, HandlerDone, SessionWrites, SegmentCopied
  <2> QED
    BY <2>1, OrderedElsewhere
<1>3. ASSUME NEW c \in Clients, ReportStatus(c) PROVE Ordered(d)'
  <2>1. CASE c # d
    BY <1>0, <1>3, <2>1, OrderedElsewhere DEF ReportStatus, ProxyTypes
  <2>2. CASE c = d
    BY <1>0, <1>3, <2>2, OrderedIdle DEF ReportStatus, ProxyTypes
  <2> QED
    BY <2>1, <2>2
<1>4. ASSUME NEW c \in Clients, BorrowResult(c) PROVE Ordered(d)'
  <2>0. /\ handler[c] = "idle" /\ writer = "run" /\ held' = [held EXCEPT ![c] = writes]
        /\ proxy' = [proxy EXCEPT ![c] = "begin"]
        /\ UNCHANGED <<got, status, reader, readChan, buffer, kind, pos>>
    BY <1>4 DEF BorrowResult, StartProxy
  <2>1. CASE c # d
    BY <1>0, <2>0, <2>1, OrderedElsewhere DEF ProxyTypes
  <2>2. CASE c = d
    <3>1. kind[writes] = "media" /\ status[d] = "none" /\ held'[d] = writes /\ proxy'[d] = "begin"
      BY <1>0, <2>0, <2>2 DEF ProxyTypes, Known, Round
    <3> QED
      BY <1>0, <2>0, <3>1 DEF Ordered
  <2> QED
    BY <2>1, <2>2
<1>5. ASSUME NEW c \in Clients, NEW r \in Results, NEW k \in {"media", "vod"}, FreshResult(c, r, k)
      PROVE  Ordered(d)'
  <2>0. /\ handler[c] = "idle" /\ body[r] = "none" /\ held' = [held EXCEPT ![c] = r]
        /\ proxy' = [proxy EXCEPT ![c] = "begin"] /\ kind' = [kind EXCEPT ![r] = k]
        /\ UNCHANGED <<got, status, reader, readChan, buffer, pos>>
    BY <1>5 DEF FreshResult, StartProxy, NextResult
  <2>1. CASE c # d
    BY <1>0, <2>0, <2>1, OrderedElsewhere DEF ProxyTypes
  <2>2. CASE c = d
    <3>1. pos[r] = 0 /\ status[d] = "none" /\ held'[d] = r /\ proxy'[d] = "begin"
      BY <1>0, <2>0, <2>2 DEF ProxyTypes, Known, Round
    <3> QED
      BY <1>0, <2>0, <3>1 DEF Ordered
  <2> QED
    BY <2>1, <2>2
<1>6. ASSUME NEW c \in Clients, NEW r \in Results, SegmentFetched(c, r) PROVE Ordered(d)'
  <2>0. /\ handler[c] = "idle" /\ body[r] = "none" /\ held' = [held EXCEPT ![c] = r]
        /\ kind' = [kind EXCEPT ![r] = "segment"]
        /\ UNCHANGED <<proxy, got, status, reader, readChan, buffer, pos>>
    BY <1>6 DEF SegmentFetched, NextResult
  <2>1. CASE c # d
    BY <1>0, <2>0, <2>1, OrderedElsewhere DEF ProxyTypes
  <2>2. CASE c = d
    <3>1. status[d] = "none" /\ proxy[d] = "off"
      BY <1>0, <2>0, <2>2 DEF ProxyTypes, Round
    <3> QED
      BY <1>0, <2>0, <3>1, OrderedIdle
  <2> QED
    BY <2>1, <2>2
<1>7. ASSUME NEW c \in Clients, SessionBegin(c) PROVE Ordered(d)'
  <2>1. CASE c # d
    BY <1>0, <1>7, <2>1, OrderedElsewhere DEF SessionBegin, ProxyTypes
  <2>2. CASE c = d
    BY <1>0, <1>7, <2>2, OrderedIdle DEF SessionBegin, ProxyTypes, Round
  <2> QED
    BY <2>1, <2>2
<1>20. ASSUME NEW c \in Clients, SessionWaits(c) \/ SessionWoken(c) PROVE Ordered(d)'
  <2>1. CASE c # d
    BY <1>0, <1>20, <2>1, OrderedElsewhere DEF SessionWaits, SessionWoken, ProxyTypes
  <2>2. CASE c = d
    BY <1>0, <1>20, <2>2, OrderedIdle DEF SessionWaits, SessionWoken, ProxyTypes, Round
  <2> QED
    BY <2>1, <2>2
<1>8. ASSUME NEW c \in Clients, NEW s \in Statuses, SessionReturns(c, s) PROVE Ordered(d)'
  <2>1. CASE c # d
    BY <1>0, <1>8, <2>1, OrderedElsewhere DEF SessionReturns, ProxyTypes
  <2>2. CASE c = d
    BY <1>0, <1>8, <2>2, OrderedReturned DEF SessionReturns, ProxyTypes, Kinds
  <2> QED
    BY <2>1, <2>2
<1>9. ASSUME NEW c \in Clients, DirectBegin(c) PROVE Ordered(d)'
  <2>1. CASE c # d
    BY <1>0, <1>9, <2>1, OrderedElsewhere DEF DirectBegin, StartRead, ProxyTypes
  <2>2. CASE c = d
    <3>1. /\ proxy'[d] = "direct" /\ reader'[d] = "reading" /\ readChan'[d] = "empty"
          /\ got'[d] = <<>> /\ status'[d] = "none"
      BY <1>0, <1>9, <2>2 DEF DirectBegin, StartRead, ProxyTypes, Round
    <3>2. held'[d] = held[d] /\ pos'[held[d]] = 0
      BY <1>0, <1>9, <2>2 DEF DirectBegin, Ordered
    <3>3. Len(<<>>) = 0 /\ DOMAIN <<>> = {}
      OBVIOUS
    <3> QED
      BY <3>1, <3>2, <3>3 DEF Ordered
  <2> QED
    BY <2>1, <2>2
<1>10. ASSUME NEW c \in Clients, NEW x \in ReadResults, Read(c, x) PROVE Ordered(d)'
  <2>0. /\ reader[c] = "reading" /\ reader' = [reader EXCEPT ![c] = x]
        /\ UNCHANGED <<proxy, held, status, readChan, got, kind>>
    BY <1>10 DEF Read
  <2>3. held[c] # 0 /\ held[c] \in Results
    BY <1>z, <2>0 DEF ProxyInv, Round
  <2>1. CASE c # d
    <3>1. \A q \in Results : q # held[c] => pos'[q] = pos[q]
      BY <1>0, <1>10 DEF Read, ProxyTypes
    <3>2. buffer'[d] = buffer[d]
      BY <1>0, <1>10, <2>1 DEF Read, ProxyTypes
    <3>3. reader'[d] = reader[d] /\ reader[c] # "off"
      BY <1>0, <2>0, <2>1 DEF ProxyTypes
    <3> QED
      BY <2>0, <2>1, <2>3, <3>1, <3>2, <3>3, OrderedElsewhere
  <2>2. CASE c = d
    <3>1. proxy[d] \notin {"begin", "write"} /\ status[d] # "EOF"
      BY <1>0, <2>0, <2>2 DEF Round
    <3>2. CASE proxy[d] = "direct"
      <4>1. pos[held[d]] = Len(got[d]) /\ readChan[d] = "empty" /\ Len(got[d]) \in Nat
        BY <1>0, <2>0, <2>2, <3>2 DEF Ordered, Round, ProxyTypes
      <4>2. /\ x = "data" => pos'[held[d]] = pos[held[d]] + 1 /\ buffer'[d] = pos[held[d]] + 1
            /\ x = "last" => pos[held[d]] + 1 = Chunks
            /\ x = "EOF" => pos[held[d]] + 0 = Chunks
        BY <1>0, <1>10, <2>2, <2>3 DEF Read, ProxyTypes
      <4>3. reader'[d] = x /\ x # "reading"
        BY <1>0, <2>0, <2>2 DEF ProxyTypes, ReadResults
      <4> QED
        BY <1>0, <2>0, <2>2, <3>1, <3>2, <4>1, <4>2, <4>3 DEF Ordered
    <3>3. CASE proxy[d] # "direct"
      BY <1>0, <2>0, <3>1, <3>3 DEF Ordered
    <3> QED
      BY <3>2, <3>3
  <2> QED
    BY <2>1, <2>2
<1>11. ASSUME NEW c \in Clients, Send(c) PROVE Ordered(d)'
  <2>1. CASE c # d
    BY <1>0, <1>11, <2>1, OrderedElsewhere DEF Send, ProxyTypes
  <2>2. CASE c = d
    <3>1. reader'[d] = "off" /\ readChan'[d] = reader[d]
      BY <1>0, <1>11, <2>2 DEF Send, ProxyTypes
    <3>2. UNCHANGED <<proxy, held, status, got, kind, pos, buffer>>
      BY <1>11 DEF Send
    <3> QED
      BY <1>0, <3>1, <3>2 DEF Ordered
  <2> QED
    BY <2>1, <2>2
<1>12. ASSUME NEW c \in Clients, DirectTakes(c) PROVE Ordered(d)'
  <2>1. CASE c # d
    BY <1>0, <1>12, <2>1, OrderedElsewhere DEF DirectTakes, ProxyTypes
  <2>2. CASE c = d
    <3>1. proxy[d] = "direct" /\ readChan[d] = "data" /\ proxy'[d] = "write" /\ status[d] = "none"
      BY <1>0, <1>12, <2>2 DEF DirectTakes, ProxyTypes, Round
    <3>2. UNCHANGED <<held, status, got, kind, pos, buffer>>
      BY <1>12 DEF DirectTakes
    <3> QED
      BY <1>0, <3>1, <3>2 DEF Ordered
  <2> QED
    BY <2>1, <2>2
<1>13. ASSUME NEW c \in Clients, DirectWrites(c) PROVE Ordered(d)'
  <2>1. CASE c # d
    BY <1>0, <1>13, <2>1, OrderedElsewhere DEF DirectWrites, StartRead, ProxyTypes
  <2>2. CASE c = d
    <3>1. /\ proxy[d] = "write" /\ proxy'[d] = "direct" /\ reader'[d] = "reading"
          /\ status[d] = "none" /\ readChan[d] = "empty" /\ got'[d] = Append(got[d], buffer[d])
      BY <1>0, <1>13, <2>2 DEF DirectWrites, StartRead, ProxyTypes, Round
    <3>2. UNCHANGED <<held, status, readChan, kind, pos>>
      BY <1>13 DEF DirectWrites
    <3>3. buffer[d] = Len(got[d]) + 1 /\ pos[held[d]] = Len(got[d]) + 1
      BY <1>0, <3>1 DEF Ordered
    <3>4. got[d] \in Seq(Nat) /\ \A i \in DOMAIN got[d] : got[d][i] = i
      BY <1>0 DEF Ordered, ProxyTypes
    <3>5. Len(got'[d]) = Len(got[d]) + 1 /\ \A i \in DOMAIN got'[d] : got'[d][i] = i
      BY <3>1, <3>3, <3>4, Appended
    <3> QED
      BY <3>1, <3>2, <3>3, <3>5 DEF Ordered
  <2> QED
    BY <2>1, <2>2
<1>14. ASSUME NEW c \in Clients, DirectDone(c) \/ DirectFails(c) \/ DirectUnwritten(c)
       PROVE  Ordered(d)'
  <2>0. /\ UNCHANGED <<held, got, reader, buffer, kind, pos>> /\ proxy' = [proxy EXCEPT ![c] = "send"]
        /\ \/ status' = [status EXCEPT ![c] = "ClientClosed"] /\ UNCHANGED readChan
           \/ /\ proxy[c] = "direct" /\ readChan[c] \in {"last", "EOF", "error"}
              /\ status' = [status EXCEPT ![c] = IF readChan[c] = "error" THEN "ServerError" ELSE "EOF"]
              /\ readChan' = [readChan EXCEPT ![c] = "empty"]
    BY <1>14 DEF DirectDone, DirectFails, DirectUnwritten, DirectReturns
  <2>1. CASE c # d
    <3>1. proxy'[d] = proxy[d] /\ status'[d] = status[d] /\ readChan'[d] = readChan[d]
      BY <1>0, <2>0, <2>1 DEF ProxyTypes
    <3> QED
      BY <2>0, <3>1, OrderedElsewhere
  <2>2. CASE c = d
    <3>1. proxy'[d] = "send"
      BY <1>0, <2>0, <2>2 DEF ProxyTypes
    <3>2. status'[d] = "EOF" => proxy[d] = "direct" /\ readChan[d] \in {"last", "EOF"}
      BY <1>0, <2>0, <2>2 DEF ProxyTypes
    <3>3. status'[d] = "EOF" => Len(got[d]) + 1 = Chunks \/ Len(got[d]) = Chunks
      BY <1>0, <3>2 DEF Ordered
    <3>4. Len(got[d]) \in Nat /\ Chunks \in Nat
      BY <1>0, ProxyBounds DEF ProxyTypes
    <3> QED
      BY <1>0, <2>0, <3>1, <3>3, <3>4, OrderedReturned
  <2> QED
    BY <2>1, <2>2
<1> QED
  BY <1>1, <1>2, <1>3, <1>4, <1>5, <1>6, <1>7, <1>8, <1>9, <1>10, <1>11, <1>12, <1>13, <1>14,
     <1>20
  DEF Next, HandlerStep, ProxyStep, ReadResults

-----------------------------------------------------------------------------
\* ProxyInv is an inductive invariant.
THEOREM ProxyInvariance == Spec => []ProxyInv
<1>1. ProxyInv /\ [Next]_vars => ProxyInv'
  <2> SUFFICES ASSUME ProxyInv, [Next]_vars PROVE ProxyInv'
    OBVIOUS
  <2>1. ProxyTypes' /\ Known' /\ BodiesOwned'
    BY TypesInv, KnownInv, OwnedInv
  <2>2. \A c \in Clients : Round(c)' /\ Kinds(c)' /\ Ordered(c)'
    BY RoundInv, KindsInv, OrderedInv
  <2> QED
    BY <2>1, <2>2 DEF ProxyInv
<1> QED
  BY <1>1, ProxyInit, PTL DEF Spec

\* Every open body has an owner that will close it, unless its result was fetched while
\* another request started the writer (the deferred Body.Close of HandleDirectStream and
\* of StartMediaWriter, and that of handleSegmentStream).
THEOREM BodiesHaveOwners == Spec => []BodiesOwned
<1>1. ProxyInv => BodiesOwned
  BY DEF ProxyInv
<1> QED
  BY <1>1, ProxyInvariance, PTL

\* A VOD reaches its client in order and without a gap, and lacks at most its last chunk
\* when the round ends with io.EOF (HandleDirectStream).
THEOREM VODInOrder == Spec => []DirectInOrder
<1>1. ProxyInv => DirectInOrder
  BY DEF ProxyInv, Ordered, DirectInOrder
<1> QED
  BY <1>1, ProxyInvariance, PTL

-----------------------------------------------------------------------------
(* The goroutines that a request leaves behind.                            *)

\* The steps that the goroutines of a request have left, at most: four for each chunk
\* of a VOD, which may be read and written also after handleStream has returned.
StepsLeft(c) ==
    LET chunks == 4 * (Chunks - pos[held[c]])
    IN CASE proxy[c] = "begin" -> 4 * Chunks + 4
         [] proxy[c] = "write" -> chunks + 4
         [] proxy[c] = "direct" ->
              chunks + (IF reader[c] = "reading" THEN 3
                        ELSE IF reader[c] = "off" THEN IF readChan[c] = "data" THEN 5 ELSE 1
                        ELSE IF reader[c] = "data" THEN 6 ELSE 2)
         [] proxy[c] = "waiting" -> 2
         [] proxy[c] = "session" -> 1
         [] OTHER -> IF reader[c] = "reading" THEN 2 ELSE IF reader[c] = "off" THEN 0 ELSE 1

\* GoroutinesEnd, as far as single steps can show it: a request that has returned stays
\* so, and every step of its ProxyStream or of its reader leaves fewer to be made; none
\* is left exactly when the reader has ended, and ProxyStream has ended or reports its
\* status to nobody.  One that waits in ReadChunks has steps left, which it may never make.
GoroutinesWindDown ==
    [][\A c \in Clients : handler[c] = "returned" =>
          /\ handler'[c] = "returned"
          /\ StepsLeft(c) = 0 <=> reader[c] = "off" /\ proxy[c] \in {"off", "send"}
          /\ \/ StepsLeft(c)' \in 0 .. StepsLeft(c) - 1
             \/ UNCHANGED <<proxy[c], reader[c], readChan[c]>> /\ StepsLeft(c)' = StepsLeft(c)]_vars

\* No more is read of a VOD than it has.
Within == \A r \in Results : pos[r] <= Chunks

\* A read of the body gives data only while there is some (Read).
LEMMA WithinInv ==
    ASSUME ProxyInv, Within, [Next]_vars
    PROVE  Within'
<1> USE DEF Within, clientVars, resultVars, writerVars
<1>0. ProxyTypes /\ \A c \in Clients : Round(c)
  BY DEF ProxyInv
<1>1. CASE UNCHANGED pos
  BY <1>1
<1>2. ASSUME NEW c \in Clients, NEW x \in ReadResults, Read(c, x) PROVE Within'
  <2>1. held[c] \in Results
    BY <1>0, <1>2, InUse DEF Round, Read
  <2>2. pos[held[c]] \in Nat /\ Chunks \in Nat
    BY <1>0, <2>1, ProxyBounds DEF ProxyTypes
  <2>3. pos'[held[c]] <= Chunks
    BY <1>0, <1>2, <2>1, <2>2 DEF Read, ReadResults, ProxyTypes
  <2>4. \A r \in Results : r # held[c] => pos'[r] = pos[r]
    BY <1>0, <1>2, <2>1 DEF Read, ProxyTypes
  <2> QED
    BY <2>3, <2>4
<1>3. CASE ~\E c \in Clients, x \in ReadResults : Read(c, x)
  BY <1>1, <1>3
  DEF Next, vars, WriterStep, WriterBegins, WriterReturns, WriterOff, Disconnect, LoadBalancerFails,
      BorrowResult, FreshResult, StartProxy, Retry, HandlerStep, HandlerDone, ReportStatus, ProxyStep,
      DirectBegin, DirectDone, DirectFails, DirectTakes, DirectWrites, DirectUnwritten, SessionBegin,
      Send, SessionReturns, SessionWaits, SessionWoken, SessionWrites, SegmentFetched, SegmentCopied, ReadResults
<1> QED
  BY <1>2, <1>3

\* The number is a number, and zero when the goroutines are over.
LEMMA StepsTyped ==
    ASSUME ProxyInv, Within, NEW c \in Clients
    PROVE  /\ StepsLeft(c) \in Nat
           /\ StepsLeft(c) = 0 <=> reader[c] = "off" /\ proxy[c] \in {"off", "send"}
<1>0. ProxyTypes /\ Round(c)
  BY DEF ProxyInv
<1>1. Chunks \in Nat
  BY ProxyBounds
<1>2. ASSUME proxy[c] \in {"direct", "write"}
      PROVE  Chunks - pos[held[c]] \in Nat
  <2>1. held[c] \in Results
    BY <1>0, <1>2, InUse DEF Round
  <2> QED
    BY <1>0, <1>1, <2>1 DEF ProxyTypes, Within
<1>3. CASE proxy[c] \in {"direct", "write"}
  <2> DEFINE k == Chunks - pos[held[c]]
  <2>1. k \in Nat
    BY <1>2, <1>3
  <2>2. StepsLeft(c) \in {4 * k + n : n \in 1 .. 6}
    BY <1>3 DEF StepsLeft
  <2> HIDE DEF k
  <2>3. \A n \in 1 .. 6 : 4 * k + n \in Nat /\ 4 * k + n # 0
    BY <2>1
  <2> QED
    BY <1>3, <2>2, <2>3
<1>4. CASE proxy[c] \notin {"direct", "write"}
  BY <1>0, <1>1, <1>4 DEF StepsLeft, ProxyTypes
<1> QED
  BY <1>3, <1>4

\* So it is after a step.
LEMMA StepsTypedNext ==
    (ProxyInv /\ Within)' => (\A c \in Clients : StepsLeft(c) \in Nat)'
<1>1. ProxyInv /\ Within => \A c \in Clients : StepsLeft(c) \in Nat
  BY StepsTyped
<1> QED
  BY <1>1, PTL

\* It depends on the goroutines of the request and on what they have read.
LEMMA StepsSame ==
    ASSUME NEW c \in Clients, UNCHANGED <<proxy[c], reader[c], readChan[c]>>,
           proxy[c] \in {"direct", "write"} => pos'[held'[c]] = pos[held[c]]
    PROVE  StepsLeft(c)' = StepsLeft(c)
BY DEF StepsLeft

\* What the goroutines of a request that has returned do leaves them less to do.
LEMMA StepsFewer ==
    ASSUME ProxyInv, Within, ProxyInv', Within', NEW c \in Clients, handler[c] = "returned",
           \/ DirectBegin(c) \/ DirectDone(c) \/ DirectFails(c) \/ DirectTakes(c) \/ DirectWrites(c)
           \/ DirectUnwritten(c) \/ SessionBegin(c) \/ SessionWoken(c) \/ Send(c)
           \/ \E s \in Statuses : SessionReturns(c, s)
           \/ \E x \in ReadResults : Read(c, x)
    PROVE  handler'[c] = "returned" /\ StepsLeft(c)' < StepsLeft(c)
<1> DEFINE n == StepsLeft(c)
           k == Chunks - pos[held[c]]
<1>0. ProxyTypes /\ Round(c) /\ Round(c)' /\ Kinds(c)
  BY DEF ProxyInv
<1> USE DEF ProxyTypes
<1>1. Chunks \in Nat /\ n \in Nat
  BY ProxyBounds, StepsTyped
<1>2. ASSUME proxy[c] # "off" \/ reader[c] # "off"
      PROVE  held[c] \in Results /\ pos[held[c]] \in Nat /\ k \in Nat /\ k <= Chunks
  <2>1. held[c] \in Results
    BY <1>0, <1>2, InUse DEF Round
  <2> QED
    BY <1>0, <1>1, <2>1 DEF Within
<1>3. CASE DirectBegin(c)
  <2>1. /\ proxy[c] = "begin" /\ proxy'[c] = "direct" /\ reader'[c] = "reading"
        /\ UNCHANGED <<handler, held, pos>>
    BY <1>0, <1>3 DEF DirectBegin, StartRead, resultVars
  <2>2. StepsLeft(c) = 4 * Chunks + 4 /\ StepsLeft(c)' = 4 * k + 3
    BY <2>1 DEF StepsLeft
  <2>3. k \in Nat /\ k <= Chunks
    BY <1>2, <2>1
  <2> HIDE DEF k
  <2> QED
    BY <1>1, <2>1, <2>2, <2>3
<1>4. CASE DirectDone(c) \/ DirectFails(c) \/ DirectUnwritten(c)
  <2>1. /\ proxy[c] \in {"direct", "write"} /\ proxy'[c] = "send" /\ UNCHANGED <<handler, reader>>
        /\ proxy[c] = "write" => reader[c] = "off"
    BY <1>0, <1>4 DEF DirectDone, DirectFails, DirectUnwritten, DirectReturns, Round
  <2>2. StepsLeft(c)' = IF reader[c] = "reading" THEN 2 ELSE IF reader[c] = "off" THEN 0 ELSE 1
    BY <2>1 DEF StepsLeft
  <2>3. k \in Nat
    BY <1>2, <2>1
  <2>4. \/ reader[c] = "reading" /\ StepsLeft(c) = 4 * k + 3
        \/ reader[c] = "off" /\ StepsLeft(c) \in {4 * k + 1, 4 * k + 4, 4 * k + 5}
        \/ reader[c] \notin {"reading", "off"} /\ StepsLeft(c) \in {4 * k + 2, 4 * k + 6}
    BY <2>1 DEF StepsLeft
  <2> HIDE DEF k
  <2> QED
    BY <1>1, <2>1, <2>2, <2>3, <2>4
<1>5. CASE DirectTakes(c)
  <2>1. /\ proxy[c] = "direct" /\ readChan[c] = "data" /\ proxy'[c] = "write" /\ reader[c] = "off"
        /\ UNCHANGED <<handler, held, pos>>
    BY <1>0, <1>5 DEF DirectTakes, Round, resultVars
  <2>2. StepsLeft(c) = 4 * k + 5 /\ StepsLeft(c)' = 4 * k + 4
    BY <2>1 DEF StepsLeft
  <2>3. k \in Nat
    BY <1>2, <2>1
  <2> HIDE DEF k
  <2> QED
    BY <2>1, <2>2, <2>3
<1>6. CASE DirectWrites(c)
  <2>1. /\ proxy[c] = "write" /\ proxy'[c] = "direct" /\ reader'[c] = "reading"
        /\ UNCHANGED <<handler, held, pos>>
    BY <1>0, <1>6 DEF DirectWrites, StartRead, resultVars
  <2>2. StepsLeft(c) = 4 * k + 4 /\ StepsLeft(c)' = 4 * k + 3
    BY <2>1 DEF StepsLeft
  <2>3. k \in Nat
    BY <1>2, <2>1
  <2> HIDE DEF k
  <2> QED
    BY <2>1, <2>2, <2>3
<1>7. CASE SessionBegin(c)
  <2>1. proxy[c] = "begin" /\ proxy'[c] = "session" /\ UNCHANGED handler
    BY <1>0, <1>7 DEF SessionBegin
  <2> QED
    BY <1>1, <2>1 DEF StepsLeft
<1>11. CASE SessionWoken(c)
  <2>1. /\ proxy[c] = "waiting" /\ proxy'[c] = "session" /\ UNCHANGED handler
    BY <1>0, <1>11 DEF SessionWoken
  <2> QED
    BY <2>1 DEF StepsLeft
<1>8. CASE \E s \in Statuses : SessionReturns(c, s)
  <2>1. proxy[c] = "session" /\ proxy'[c] = "send" /\ reader'[c] = "off" /\ UNCHANGED handler
    BY <1>0, <1>8 DEF SessionReturns, Round
  <2> QED
    BY <2>1 DEF StepsLeft
<1>9. CASE Send(c)
  <2>1. /\ reader[c] \notin {"off", "reading"} /\ reader'[c] = "off" /\ readChan'[c] = reader[c]
        /\ UNCHANGED <<handler, proxy, held, pos>> /\ proxy[c] \in {"direct", "send", "off"}
    BY <1>0, <1>9 DEF Send, Round, resultVars
  <2>2. k \in Nat
    BY <1>2, <2>1
  <2>3. CASE proxy[c] = "direct"
    <3>1. \/ reader[c] = "data" /\ StepsLeft(c) = 4 * k + 6 /\ StepsLeft(c)' = 4 * k + 5
          \/ reader[c] # "data" /\ StepsLeft(c) = 4 * k + 2 /\ StepsLeft(c)' = 4 * k + 1
      BY <2>1, <2>3 DEF StepsLeft
    <3> HIDE DEF k
    <3> QED
      BY <2>1, <2>2, <3>1
  <2>4. CASE proxy[c] # "direct"
    BY <2>1, <2>4 DEF StepsLeft
  <2> QED
    BY <2>3, <2>4
<1>10. ASSUME NEW x \in ReadResults, Read(c, x)
       PROVE  handler'[c] = "returned" /\ StepsLeft(c)' < StepsLeft(c)
  <2>1. /\ reader[c] = "reading" /\ reader'[c] = x /\ UNCHANGED <<handler, proxy, held, readChan>>
        /\ proxy[c] \in {"direct", "send", "off"}
    BY <1>0, <1>10 DEF Read, Round
  <2>2. held[c] \in Results /\ k \in Nat
    BY <1>2, <2>1
  <2>3. CASE proxy[c] = "direct"
    <3>1. pos'[held[c]] = pos[held[c]] + (IF x \in {"data", "last"} THEN 1 ELSE 0)
      BY <1>0, <1>10, <2>2 DEF Read
    <3> DEFINE j == Chunks - pos'[held[c]]
    <3>2. j \in Nat
      <4>1. pos'[held[c]] \in Nat
        BY <2>2 DEF ProxyInv
      <4>2. pos'[held[c]] <= Chunks
        BY <2>2 DEF Within
      <4> QED
        BY <1>1, <4>1, <4>2
    <3>3. j = k - (IF x \in {"data", "last"} THEN 1 ELSE 0)
      BY <1>1, <1>2, <2>1, <3>1
    <3>4. StepsLeft(c) = 4 * k + 3
      BY <2>1, <2>3 DEF StepsLeft
    <3>5. StepsLeft(c)' = 4 * j + (IF x = "data" THEN 6 ELSE 2)
      BY <2>1, <2>3 DEF StepsLeft, ReadResults
    <3> HIDE DEF j, k
    <3> QED
      BY <2>1, <2>2, <3>2, <3>3, <3>4, <3>5
  <2>4. CASE proxy[c] # "direct"
    BY <2>1, <2>4 DEF StepsLeft, ReadResults
  <2> QED
    BY <2>3, <2>4
<1> QED
  BY <1>3, <1>4, <1>5, <1>6, <1>7, <1>8, <1>9, <1>10, <1>11

\* What the others do leaves it as it is.
LEMMA StepsElsewhere ==
    ASSUME ProxyInv, NEW c \in Clients, handler[c] = "returned", [Next]_vars,
           ~ \/ DirectBegin(c) \/ DirectDone(c) \/ DirectFails(c) \/ DirectTakes(c) \/ DirectWrites(c)
             \/ DirectUnwritten(c) \/ SessionBegin(c) \/ SessionWoken(c) \/ Send(c)
             \/ \E s \in Statuses : SessionReturns(c, s)
             \/ \E x \in ReadResults : Read(c, x)
    PROVE  /\ handler'[c] = "returned" /\ UNCHANGED <<proxy[c], reader[c], readChan[c]>>
           /\ StepsLeft(c)' = StepsLeft(c)
<1> DEFINE Alike == /\ UNCHANGED <<handler[c], proxy[c], reader[c], readChan[c], held[c]>>
                    /\ proxy[c] \in {"direct", "write"} => pos'[held[c]] = pos[held[c]]
<1>0. ProxyTypes /\ Known /\ \A d \in Clients : Round(d) /\ Kinds(d)
  BY DEF ProxyInv
<1> USE DEF ProxyTypes
<1>1. ASSUME UNCHANGED vars \/ WriterStep
      PROVE  Alike
  BY <1>1 DEF vars, clientVars, resultVars, writerVars, WriterStep, WriterBegins, WriterReturns, WriterOff
<1>2. ASSUME NEW d \in Clients,
             Disconnect(d) \/ LoadBalancerFails(d) \/ Retry(d) \/ SegmentCopied(d) \/ SessionWrites(d)
             \/ HandlerDone(d) \/ ReportStatus(d)
      PROVE  Alike
  BY <1>0, <1>2
  DEF Disconnect, LoadBalancerFails, Retry, SegmentCopied, SessionWrites, HandlerDone, ReportStatus,
      Returns, resultVars
<1>3. ASSUME NEW d \in Clients, NEW r \in Results,
             \/ BorrowResult(d) \/ SegmentFetched(d, r)
             \/ \E k \in {"media", "vod"} : FreshResult(d, r, k)
      PROVE  Alike
  <2>1. handler[d] = "idle" /\ UNCHANGED <<pos, reader, readChan>>
    BY <1>3 DEF BorrowResult, SegmentFetched, FreshResult, StartProxy
  <2>2. c # d
    BY <2>1
  <2> QED
    BY <1>0, <1>3, <2>1, <2>2 DEF BorrowResult, SegmentFetched, FreshResult, StartProxy
<1>4. ASSUME NEW d \in Clients, BorrowResult(d)
      PROVE  Alike
  BY <1>0, <1>4 DEF BorrowResult, StartProxy
<1>5. ASSUME NEW d \in Clients, c # d,
             \/ DirectBegin(d) \/ DirectDone(d) \/ DirectFails(d) \/ DirectTakes(d) \/ DirectWrites(d)
             \/ DirectUnwritten(d) \/ SessionBegin(d) \/ SessionWoken(d) \/ Send(d)
             \/ \E s \in Statuses : SessionReturns(d, s)
      PROVE  Alike
  BY <1>0, <1>5
  DEF DirectBegin, DirectDone, DirectFails, DirectTakes, DirectWrites, DirectUnwritten, SessionBegin, Send,
      SessionWoken, SessionReturns, DirectReturns, StartRead, resultVars
<1>9. ASSUME NEW d \in Clients, SessionWaits(d)
      PROVE  Alike
  BY <1>0, <1>9 DEF SessionWaits, Round, resultVars
<1>6. ASSUME NEW d \in Clients, c # d, NEW x \in ReadResults, Read(d, x)
      PROVE  Alike
  <2>1. proxy[c] \in {"direct", "write"} => held[c] # held[d]
    BY <1>0, <1>6 DEF Read, Round, Kinds, Known
  <2>2. UNCHANGED <<handler, proxy, readChan, held>> /\ reader'[c] = reader[c]
    BY <1>0, <1>6 DEF Read
  <2>3. \A r \in Results : r # held[d] => pos'[r] = pos[r]
    BY <1>0, <1>6 DEF Read
  <2>4. proxy[c] \in {"direct", "write"} => held[c] \in Results
    BY <1>0, InUse DEF Round
  <2> QED
    BY <2>1, <2>2, <2>3, <2>4
<1>7. Alike
  <2> HIDE DEF Alike
  <2>1. CASE UNCHANGED vars \/ WriterStep
    BY <1>1, <2>1
  <2>2. ASSUME NEW d \in Clients,
               \/ Disconnect(d) \/ LoadBalancerFails(d) \/ BorrowResult(d) \/ Retry(d)
               \/ HandlerStep(d) \/ SessionWrites(d) \/ SessionWaits(d) \/ SegmentCopied(d)
               \/ \E r \in Results : \/ SegmentFetched(d, r)
                                    \/ \E k \in {"media", "vod"} : FreshResult(d, r, k)
        PROVE  Alike
    BY <1>2, <1>3, <1>4, <1>9, <2>2 DEF HandlerStep
  <2>3. ASSUME NEW d \in Clients,
               \/ ProxyStep(d) \/ SessionWoken(d) \/ Send(d)
               \/ \E s \in Statuses : SessionReturns(d, s)
               \/ \E x \in ReadResults : Read(d, x)
        PROVE  Alike
    <3>1. d # c
      BY <2>3 DEF ProxyStep
    <3>2. CASE ProxyStep(d) \/ SessionWoken(d) \/ Send(d) \/ \E s \in Statuses : SessionReturns(d, s)
      BY <1>5, <3>1, <3>2 DEF ProxyStep
    <3>3. CASE \E x \in ReadResults : Read(d, x)
      BY <1>6, <3>1, <3>3
    <3> QED
      BY <2>3, <3>2, <3>3
  <2> QED
    BY <2>1, <2>2, <2>3 DEF Next, ReadResults
<1>8. handler'[c] = "returned" /\ UNCHANGED <<proxy[c], reader[c], readChan[c]>>
  BY <1>7
<1> QED
  BY <1>7, <1>8, StepsSame

\* When a request is over its goroutines have a bounded number of steps left, and no step
\* of another request or of the writer adds to them: none goes round for ever, though one
\* may stop for ever in ReadChunks or in ProxyStream's last send (the loop of
\* HandleDirectStream, which looks at the client before each read, and its buffered result
\* channel; the loop of HandleStream, which looks at it before each call of ReadChunks).
THEOREM ReturnedRequestEnds == Spec => GoroutinesWindDown
<1>1. Init => Within
  BY ProxyBounds DEF Init, Within
<1>2. Within /\ ProxyInv /\ [Next]_vars => Within'
  BY WithinInv
<1>3. ASSUME ProxyInv, Within, ProxyInv', Within', [Next]_vars, NEW c \in Clients,
             handler[c] = "returned"
      PROVE  /\ handler'[c] = "returned"
             /\ StepsLeft(c) = 0 <=> reader[c] = "off" /\ proxy[c] \in {"off", "send"}
             /\ \/ StepsLeft(c)' \in 0 .. StepsLeft(c) - 1
                \/ UNCHANGED <<proxy[c], reader[c], readChan[c]>> /\ StepsLeft(c)' = StepsLeft(c)
  <2>1. StepsLeft(c) \in Nat
        /\ (StepsLeft(c) = 0 <=> reader[c] = "off" /\ proxy[c] \in {"off", "send"})
    BY <1>3, StepsTyped
  <2>2. StepsLeft(c)' \in Nat
    BY <1>3, StepsTypedNext
  <2>3. CASE \/ DirectBegin(c) \/ DirectDone(c) \/ DirectFails(c) \/ DirectTakes(c) \/ DirectWrites(c)
             \/ DirectUnwritten(c) \/ SessionBegin(c) \/ SessionWoken(c) \/ Send(c)
             \/ \E s \in Statuses : SessionReturns(c, s)
             \/ \E x \in ReadResults : Read(c, x)
    <3>1. handler'[c] = "returned" /\ StepsLeft(c)' < StepsLeft(c)
      BY <1>3, <2>3, StepsFewer
    <3> QED
      BY <2>1, <2>2, <3>1
  <2>4. CASE ~ \/ DirectBegin(c) \/ DirectDone(c) \/ DirectFails(c) \/ DirectTakes(c) \/ DirectWrites(c)
               \/ DirectUnwritten(c) \/ SessionBegin(c) \/ SessionWoken(c) \/ Send(c)
               \/ \E s \in Statuses : SessionReturns(c, s)
               \/ \E x \in ReadResults : Read(c, x)
    BY <1>3, <2>1, <2>4, StepsElsewhere
  <2> QED
    BY <2>3, <2>4
<1>4. /\ ProxyInv /\ Within /\ ProxyInv' /\ Within' /\ [Next]_vars
      => [\A c \in Clients : handler[c] = "returned" =>
          /\ handler'[c] = "returned"
          /\ StepsLeft(c) = 0 <=> reader[c] = "off" /\ proxy[c] \in {"off", "send"}
          /\ \/ StepsLeft(c)' \in 0 .. StepsLeft(c) - 1
             \/ UNCHANGED <<proxy[c], reader[c], readChan[c]>> /\ StepsLeft(c)' = StepsLeft(c)]_vars
  BY <1>3
<1> QED
  BY <1>1, <1>2, <1>4, ProxyInvariance, PTL DEF Spec, GoroutinesWindDown

=============================================================================
