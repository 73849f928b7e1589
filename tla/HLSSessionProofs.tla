-------------------------- MODULE HLSSessionProofs --------------------------
(***************************************************************************)
(* The connection count and the response bodies of HLSSession, for any     *)
(* number of clients, writers, results and segments.                       *)
(*                                                                         *)
(* HLSConnectionExact needs to know where the writer that stored its       *)
(* result is (Connected); BodiesReleased needs more than it says: at every *)
(* moment, also while writers run, an open body is the body of a result    *)
(* that some client holds (Owned), and a client holds a result exactly     *)
(* while it is on its way through ProxyStream.  The last part bounds the   *)
(* moves of a writer.                                                      *)
(***************************************************************************)
EXTENDS HLSSession, FiniteSetTheorems, TLAPS

ClientPcs == {"idle", "ready", "reading", "closing", "left", "hung", "gone"}
Bodies == {"none", "open", "closed", "copied", "spent", "drained", "cut"}
WriterPcs == {"off", "start", "loop", "select", "list", "segment", "put", "release", "flag", "done"}
WriterStates ==
    [pc : WriterPcs, ctx : 0 .. MaxStarts, res : 0 .. MaxResults, seg : Nat,
     list : {"none", "live", "ended"}, lastErr : BOOLEAN, exit : {"none"} \cup Errors]

\* Types of the variables that the two invariants speak of.
HLSTypes ==
    /\ cpc \in [Clients -> ClientPcs]
    /\ held \in [Clients -> 0 .. MaxResults]
    /\ body \in [Results -> Bodies]
    /\ WriterActive \in BOOLEAN
    /\ WriterCtx \in 0 .. MaxStarts
    /\ LBResultOnWrite \in 0 .. MaxStarts
    /\ writer \in [Writers -> WriterStates]

\* One writer at a time; the result in LBResultOnWrite is that of the writer at work,
\* unless its loop panicked, and its connection is counted while the result is there.
Connected ==
    /\ \A v, w \in Running : v = w
    /\ WriterActive <=> Running # {}
    /\ concurrency = IF LBResultOnWrite = 0 THEN 0 ELSE 1
    /\ LBResultOnWrite # 0 =>
          writer[LBResultOnWrite].pc \in {"loop", "select", "list", "segment", "put", "release"}
    /\ \A w \in Writers : writer[w].pc \in {"loop", "select", "list", "segment", "release"} => LBResultOnWrite = w

\* Results are held by clients inside ProxyStream and by running writers, and every
\* open body is that of a result a client holds.
Owned ==
    /\ \A c \in Clients : held[c] = 0 <=> cpc[c] \in {"idle", "gone"}
    /\ \A w \in Running : writer[w].res # 0
    /\ \A r \in Results : body[r] = "open" => \E c \in Clients : held[c] = r

HLSInv == HLSTypes /\ Connected /\ Owned

-----------------------------------------------------------------------------
\* No client, no writer and no result initially.
LEMMA HLSInit == Init => HLSInv
<1> SUFFICES ASSUME Init PROVE HLSInv
  OBVIOUS
<1>1. NoWriter \in WriterStates /\ NoWriter.pc = "off"
  BY HLSBounds DEF NoWriter, WriterStates, WriterPcs
<1>2. HLSTypes
  <2>1. /\ 0 \in 0 .. MaxResults /\ 0 \in 0 .. MaxStarts /\ "idle" \in ClientPcs
        /\ "none" \in Bodies
    BY HLSBounds DEF ClientPcs, Bodies
  <2>2. cpc \in [Clients -> ClientPcs] /\ held \in [Clients -> 0 .. MaxResults]
    BY <2>1 DEF Init
  <2>3. body \in [Results -> Bodies] /\ writer \in [Writers -> WriterStates]
    BY <1>1, <2>1 DEF Init
  <2> QED
    BY <2>1, <2>2, <2>3 DEF Init, HLSTypes
<1>3. \A w \in Writers : writer[w].pc = "off"
  BY <1>1 DEF Init
<1>4. Running = {}
  BY <1>3 DEF Running
<1>5. Connected
  BY <1>3, <1>4 DEF Init, Connected
<1>6. Owned
  BY <1>4 DEF Init, Owned
<1> QED
  BY <1>2, <1>5, <1>6 DEF HLSInv

-----------------------------------------------------------------------------
(* Clients.                                                                *)

\* A step of a client that touches no result and no writer.
LEMMA QuietClient ==
    ASSUME HLSInv, NEW c \in Clients, NEW x \in ClientPcs, cpc' = [cpc EXCEPT ![c] = x],
           cpc[c] \in {"idle", "gone"} <=> x \in {"idle", "gone"},
           UNCHANGED <<held, body, WriterActive, LBResultOnWrite, concurrency, writer>>,
           WriterCtx' \in 0 .. MaxStarts
    PROVE  HLSInv'
<1>1. HLSTypes'
  BY DEF HLSInv, HLSTypes
<1>2. Running' = Running
  BY DEF Running
<1>3. Connected'
  BY <1>2 DEF HLSInv, Connected
<1>4. Owned'
  BY <1>2 DEF HLSInv, Owned, HLSTypes
<1> QED
  BY <1>1, <1>3, <1>4 DEF HLSInv

\* A client takes a result: a new one, or the running writer's.
LEMMA TakeResult ==
    ASSUME HLSInv, NEW c \in Clients, BorrowResult(c) \/ \E r \in Results : FreshResult(c, r)
    PROVE  HLSInv'
<1>1. PICK r \in Results :
        /\ cpc[c] = "idle" /\ cpc' = [cpc EXCEPT ![c] = "ready"]
        /\ held' = [held EXCEPT ![c] = r]
        /\ body' = body \/ body' = [body EXCEPT ![r] = "open"]
        /\ UNCHANGED <<coordVars, LBResultOnWrite, concurrency, writer>>
  <2>1. CASE BorrowResult(c)
    <3>1. LBResultOnWrite \in Running
      BY <2>1, HLSBounds DEF BorrowResult, HLSInv, HLSTypes, Connected, Running, Writers
    <3>2. writer[LBResultOnWrite].res \in Results
      BY <3>1, HLSBounds DEF HLSInv, Owned, HLSTypes, WriterStates, Results, Running
    <3> QED
      BY <2>1, <3>2 DEF BorrowResult
  <2> QED
    BY <2>1 DEF FreshResult
<1>2. Running' = Running
  BY <1>1 DEF Running
<1>3. HLSTypes'
  BY <1>1, HLSBounds DEF HLSInv, HLSTypes, ClientPcs, Bodies, Results, coordVars
<1>4. Connected'
  BY <1>1, <1>2 DEF HLSInv, Connected, coordVars
<1>5. Owned'
  <2>1. held[c] = 0 /\ r # 0
    BY <1>1, HLSBounds DEF HLSInv, Owned, Results
  <2>2. \A d \in Clients : held'[d] = 0 <=> cpc'[d] \in {"idle", "gone"}
    BY <1>1, <2>1 DEF HLSInv, Owned, HLSTypes
  <2>3. ASSUME NEW q \in Results, body'[q] = "open" PROVE \E d \in Clients : held'[d] = q
    <3>1. CASE q = r
      BY <1>1, <3>1 DEF HLSInv, HLSTypes
    <3>2. CASE q # r
      <4>1. body[q] = "open"
        BY <1>1, <2>3, <3>2 DEF HLSInv, HLSTypes
      <4>2. PICK d \in Clients : held[d] = q
        BY <4>1 DEF HLSInv, Owned
      <4>3. d # c /\ held'[d] = q
        BY <1>1, <2>1, <4>2, HLSBounds DEF HLSInv, HLSTypes, Results
      <4> QED
        BY <4>3
    <3> QED
      BY <3>1, <3>2
  <2> QED
    BY <1>1, <1>2, <2>2, <2>3 DEF HLSInv, Owned
<1> QED
  BY <1>3, <1>4, <1>5 DEF HLSInv

\* A client without a writer starts one with its own result.
LEMMA EnterStarts ==
    ASSUME HLSInv, NEW c \in Clients, Enter(c), ~WriterActive
    PROVE  HLSInv'
<1>1. PICK w \in Writers :
        /\ writer[w] = NoWriter /\ WriterCtx' = IF WriterCtx = 0 THEN w ELSE WriterCtx
        /\ writer' = [writer EXCEPT ![w].pc = "start", ![w].res = held[c]]
  BY DEF Enter
<1>2. /\ cpc[c] = "ready" /\ cpc' = [cpc EXCEPT ![c] = "reading"] /\ WriterActive' = TRUE
      /\ UNCHANGED <<held, body, LBResultOnWrite, concurrency>>
  BY DEF Enter
<1>3. /\ writer'[w].pc = "start" /\ writer'[w].res = held[c]
      /\ writer' \in [Writers -> WriterStates]
      /\ \A v \in Writers : v # w => writer'[v] = writer[v]
  BY <1>1 DEF HLSInv, HLSTypes, WriterStates, WriterPcs
<1>4. Running = {} /\ Running' = {w}
  BY <1>3 DEF HLSInv, Connected, Running
<1>5. HLSTypes'
  BY <1>1, <1>2, <1>3 DEF HLSInv, HLSTypes, ClientPcs, Writers
<1>6. Connected'
  <2>1. LBResultOnWrite = 0
    BY <1>4, HLSBounds DEF HLSInv, HLSTypes, Connected, Running, Writers
  <2>2. \A v \in Writers : writer'[v].pc \notin {"loop", "select", "list", "segment", "release"}
    BY <1>3, <1>4 DEF Running
  <2>3. \A u, v \in Running' : u = v
    BY <1>4
  <2>4. WriterActive' <=> Running' # {}
    BY <1>2, <1>4
  <2> QED
    BY <1>2, <2>1, <2>2, <2>3, <2>4 DEF HLSInv, Connected
<1>7. Owned'
  <2>1. held[c] # 0
    BY <1>2 DEF HLSInv, Owned
  <2> QED
    BY <1>2, <1>3, <1>4, <2>1 DEF HLSInv, Owned, HLSTypes
<1> QED
  BY <1>5, <1>6, <1>7 DEF HLSInv

\* A client that lets its result go leaves its body closed, read or cut.
LEMMA DropResult ==
    ASSUME HLSInv, NEW c \in Clients, ProxyReturns(c) \/ Fallback(c) \/ FallbackFails(c)
    PROVE  HLSInv'
<1> DEFINE r == held[c]
<1>1. /\ cpc[c] \in {"left", "hung"} /\ held' = [held EXCEPT ![c] = 0]
      /\ \E x \in {"idle", "gone"} : cpc' = [cpc EXCEPT ![c] = x]
      /\ UNCHANGED <<coordVars, LBResultOnWrite, concurrency, writer>>
  BY DEF ProxyReturns, Fallback, FallbackFails, Scans
<1>2. r \in Results
  BY <1>1, HLSBounds DEF HLSInv, HLSTypes, Owned, Results
<1>3. /\ body' \in [Results -> Bodies] /\ body'[r] # "open"
      /\ \A q \in Results : q # r => body'[q] = body[q]
  <2>1. \E x \in Bodies \ {"open"} : body' = [body EXCEPT ![r] = x]
    <3>1. body[r] \in Bodies
      BY <1>2 DEF HLSInv, HLSTypes
    <3>2. CASE ProxyReturns(c)
      BY <3>1, <3>2, <1>2 DEF ProxyReturns, Bodies
    <3>3. ASSUME NEW whole \in BOOLEAN, Scans(c, whole)
          PROVE  \E x \in Bodies \ {"open"} : body' = [body EXCEPT ![r] = x]
      <4>1. AfterScan(body[r], whole) \subseteq Bodies \ {"open"}
        BY <3>1 DEF AfterScan, Bodies
      <4> QED
        BY <3>3, <4>1 DEF Scans
    <3> QED
      BY <3>2, <3>3 DEF Fallback, FallbackFails
  <2> QED
    BY <1>2, <2>1 DEF HLSInv, HLSTypes
<1>4. Running' = Running
  BY <1>1 DEF Running
<1>5. HLSTypes'
  BY <1>1, <1>3, HLSBounds DEF HLSInv, HLSTypes, ClientPcs, coordVars
<1>6. Connected'
  BY <1>1, <1>4 DEF HLSInv, Connected, coordVars
<1>7. Owned'
  <2>1. \A d \in Clients : held'[d] = 0 <=> cpc'[d] \in {"idle", "gone"}
    BY <1>1 DEF HLSInv, Owned, HLSTypes
  <2>2. ASSUME NEW q \in Results, body'[q] = "open" PROVE \E d \in Clients : held'[d] = q
    <3>1. q # r /\ body[q] = "open"
      BY <1>3, <2>2
    <3>2. PICK d \in Clients : held[d] = q
      BY <3>1 DEF HLSInv, Owned
    <3> QED
      BY <1>1, <3>1, <3>2 DEF HLSInv, HLSTypes
  <2> QED
    BY <1>1, <1>4, <2>1, <2>2 DEF HLSInv, Owned
<1> QED
  BY <1>5, <1>6, <1>7 DEF HLSInv

\* Every step of a client preserves the invariant.
LEMMA ClientInv ==
    ASSUME HLSInv, NEW c \in Clients,
           \/ Disconnect(c) \/ GiveUp(c) \/ BorrowResult(c) \/ SkipSession(c) \/ Enter(c)
           \/ \E r \in Results : FreshResult(c, r)
           \/ \E s \in {"ClientClosed", "Incompatible"} \cup Errors : Leave(c, s)
           \/ ProxyReturns(c) \/ Fallback(c) \/ FallbackFails(c)
    PROVE  HLSInv'
<1> USE DEF ClientPcs
<1>1. WriterCtx \in 0 .. MaxStarts /\ 0 \in 0 .. MaxStarts
  BY HLSBounds DEF HLSInv, HLSTypes
<1>2. CASE Disconnect(c) \/ GiveUp(c) \/ SkipSession(c)
  BY <1>1, <1>2, QuietClient DEF Disconnect, GiveUp, SkipSession, coordVars
<1>3. CASE Enter(c) /\ WriterActive
  <2>1. /\ cpc[c] = "ready" /\ cpc' = [cpc EXCEPT ![c] = "reading"]
        /\ UNCHANGED <<held, body, LBResultOnWrite, concurrency, writer, WriterCtx>>
        /\ WriterActive' = TRUE
    BY <1>3 DEF Enter
  <2>2. WriterActive' = WriterActive
    BY <1>3, <2>1 DEF HLSInv, HLSTypes
  <2> QED
    BY <1>1, <2>1, <2>2, QuietClient
<1>4. ASSUME NEW s, Leave(c, s) PROVE HLSInv'
  <2>1. \E x \in {"left", "hung"} : cpc' = [cpc EXCEPT ![c] = x]
    BY <1>4 DEF Leave
  <2> QED
    BY <1>1, <1>4, <2>1, QuietClient DEF Leave
<1> QED
  BY <1>2, <1>3, <1>4, TakeResult, EnterStarts, DropResult

-----------------------------------------------------------------------------
(* Writers.                                                                *)

\* Writer w is where it was, or goes to x, and keeps its result.
Becomes(w, x) ==
    /\ writer' \in [Writers -> WriterStates]
    /\ writer'[w].pc = x /\ writer'[w].res = writer[w].res
    /\ \A v \in Writers : v # w => writer'[v] = writer[v]

\* No step of a writer opens a body.
LEMMA BodiesStay ==
    ASSUME HLSInv, NEW w \in Writers, WriterStep(w)
    PROVE  /\ body' \in [Results -> Bodies]
           /\ \A r \in Results : body'[r] = "open" => body[r] = "open"
<1>1. ASSUME NEW e \in BOOLEAN, Copied(w, e)
      PROVE  /\ body' \in [Results -> Bodies]
             /\ \A r \in Results : body'[r] = "open" => body[r] = "open"
  <2>1. \E x \in {"spent", "copied"} : body' = [body EXCEPT ![writer[w].res] = x]
    BY <1>1 DEF Copied
  <2> QED
    BY <2>1 DEF HLSInv, HLSTypes, Bodies
<1>2. CASE PollBad(w) \/ PollNew(w) \/ PollEmpty(w) \/ PollSame(w)
  BY <1>1, <1>2 DEF PollBad, PollNew, PollEmpty, PollSame
<1>3. CASE UNCHANGED body
  BY <1>3 DEF HLSInv, HLSTypes
<1> QED
  BY <1>2, <1>3 DEF WriterStep, Begin, LoopEnds, LoopHead, LoopPanics, PollCancelled, PollTimeout,
     CopyFails, ListDone, SegmentFails, SegmentOpens, SegmentData, SegmentEnds, PutError, Release,
     WriterEnds

\* A writer at work that stays at work with its result and its connection.
LEMMA Working ==
    ASSUME HLSInv, NEW w \in Writers, NEW x, Becomes(w, x), writer[w].pc \notin {"off", "done"},
           x \in {"loop", "select", "list", "segment", "put", "release"},
           x \in {"loop", "select", "list", "segment", "release"} => LBResultOnWrite = w,
           UNCHANGED <<cpc, held, WriterActive, WriterCtx, LBResultOnWrite, concurrency>>,
           body' \in [Results -> Bodies],
           \A r \in Results : body'[r] = "open" => body[r] = "open"
    PROVE  HLSInv'
<1>1. HLSTypes'
  BY DEF HLSInv, HLSTypes, Becomes
<1>2. Running' = Running
  BY DEF Running, Becomes
<1>3. Connected'
  <2>1. LBResultOnWrite # 0 => LBResultOnWrite \in Writers
    BY HLSBounds DEF HLSInv, HLSTypes, Writers
  <2> QED
    BY <1>2, <2>1 DEF HLSInv, Connected, Becomes
<1>4. Owned'
  <2>1. \A v \in Running : writer'[v].res # 0
    BY DEF HLSInv, Owned, Becomes, Running
  <2>2. \A r \in Results : body'[r] = "open" => \E c \in Clients : held'[c] = r
    BY DEF HLSInv, Owned
  <2> QED
    BY <1>2, <2>1, <2>2 DEF HLSInv, Owned
<1> QED
  BY <1>1, <1>3, <1>4 DEF HLSInv

\* A writer gives its connection back, or goes on without one.
LEMMA Letting ==
    ASSUME HLSInv, NEW w \in Writers, NEW x, Becomes(w, x), writer[w].pc \notin {"off", "done"},
           x \in {"put", "flag"}, LBResultOnWrite' = 0, concurrency' = 0,
           UNCHANGED <<cpc, held, body, WriterActive, WriterCtx>>
    PROVE  HLSInv'
<1>1. HLSTypes'
  BY HLSBounds DEF HLSInv, HLSTypes, Becomes
<1>2. Running' = Running
  BY DEF Running, Becomes
<1>3. Connected'
  <2>1. \A v \in Writers : v # w => writer[v].pc \in {"off", "done"}
    BY DEF HLSInv, Connected, Running
  <2>2. \A v \in Writers : writer'[v].pc \notin {"loop", "select", "list", "segment", "release"}
    BY <2>1 DEF Becomes
  <2>3. (\A u, v \in Running : u = v) /\ (WriterActive <=> Running # {})
    BY DEF HLSInv, Connected
  <2> QED
    BY <1>2, <2>2, <2>3 DEF Connected
<1>4. Owned'
  <2>1. \A v \in Running : writer'[v].res # 0
    BY DEF HLSInv, Owned, Becomes, Running
  <2> QED
    BY <1>2, <2>1 DEF HLSInv, Owned
<1> QED
  BY <1>1, <1>3, <1>4 DEF HLSInv

\* Every step of a writer preserves the invariant.
LEMMA WriterInv ==
    ASSUME HLSInv, NEW w \in Writers, WriterStep(w)
    PROVE  HLSInv'
<1>0. /\ writer \in [Writers -> WriterStates] /\ writer[w] \in WriterStates
      /\ body' \in [Results -> Bodies]
      /\ \A r \in Results : body'[r] = "open" => body[r] = "open"
  BY BodiesStay DEF HLSInv, HLSTypes
<1>a. writer[w].pc \in {"loop", "select", "list", "segment", "release"} =>
        LBResultOnWrite = w /\ concurrency = 1
  BY HLSBounds DEF HLSInv, Connected, Writers
<1>1. CASE Begin(w)
  <2>1. /\ writer[w].pc = "start" /\ Becomes(w, "loop")
        /\ LBResultOnWrite' = w /\ concurrency' = concurrency + 1
        /\ UNCHANGED <<cpc, held, body, WriterActive, WriterCtx>>
    BY <1>0, <1>1 DEF Begin, At, Becomes, writerRest, clientVars, coordRest, WriterStates, WriterPcs,
                      HLSInv, HLSTypes
  <2>2. \A v \in Writers : v # w => writer[v].pc \in {"off", "done"}
    BY <2>1 DEF HLSInv, Connected, Running
  <2>3. LBResultOnWrite = 0 /\ concurrency = 0 /\ w # 0
    BY <2>1, <2>2, HLSBounds DEF HLSInv, HLSTypes, Connected, Writers
  <2>4. Running' = Running
    BY <2>1 DEF Running, Becomes
  <2>5. HLSTypes'
    BY <2>1 DEF HLSInv, HLSTypes, Becomes, Writers
  <2>6. Connected'
    <3>1. (\A u, v \in Running : u = v) /\ (WriterActive <=> Running # {})
      BY DEF HLSInv, Connected
    <3> QED
      BY <2>1, <2>2, <2>3, <2>4, <3>1 DEF Connected, Becomes
  <2>7. Owned'
    BY <2>1, <2>4 DEF HLSInv, Owned, Becomes, Running
  <2> QED
    BY <2>5, <2>6, <2>7 DEF HLSInv
<1>2. CASE LoopEnds(w) \/ LoopHead(w) \/ PollCancelled(w) \/ PollTimeout(w) \/ CopyFails(w)
  <2>1. /\ writer[w].pc \in {"loop", "select"}
        /\ \E x \in {"select", "release", "put"} : Becomes(w, x)
    BY <1>0, <1>2 DEF LoopEnds, LoopHead, PollCancelled, PollTimeout, CopyFails, Polls, At, Goes, Fails,
                      Becomes, WriterStates, WriterPcs, Errors
  <2>2. UNCHANGED <<cpc, held, WriterActive, WriterCtx, LBResultOnWrite, concurrency>>
    BY <1>2 DEF LoopEnds, LoopHead, PollCancelled, PollTimeout, CopyFails, writerRest, clientVars,
                coordVars
  <2> QED
    BY <1>0, <1>a, <2>1, <2>2, Working
<1>3. CASE LoopPanics(w) \/ Release(w)
  <2>1. /\ writer[w].pc \in {"select", "release"} /\ \E x \in {"put", "flag"} : Becomes(w, x)
    BY <1>0, <1>3 DEF LoopPanics, Release, At, Goes, Fails, Becomes, WriterStates, WriterPcs, Errors
  <2>2. /\ UNCHANGED <<cpc, held, body, WriterActive, WriterCtx>>
        /\ LBResultOnWrite' = 0 /\ concurrency' = 0
    BY <1>3, <1>a, <2>1 DEF LoopPanics, Release, writerRest, clientVars, coordVars
  <2> QED
    BY <2>1, <2>2, Letting
<1>4. CASE PollBad(w) \/ PollNew(w) \/ PollEmpty(w) \/ PollSame(w)
  <2>1. /\ writer[w].pc = "select" /\ \E x \in {"loop", "list", "put"} : Becomes(w, x)
    BY <1>0, <1>4 DEF PollBad, PollNew, PollEmpty, PollSame, Copied, Polls, At, Goes, Fails, Becomes,
                      WriterStates, WriterPcs, Errors
  <2>2. UNCHANGED <<cpc, held, WriterActive, WriterCtx, LBResultOnWrite, concurrency>>
    BY <1>4 DEF PollBad, PollNew, PollEmpty, PollSame, writerRest, clientVars, coordVars
  <2> QED
    BY <1>0, <1>a, <2>1, <2>2, Working
<1>5. CASE ListDone(w) \/ SegmentFails(w)
  <2>1. \E f \in BOOLEAN : ListReturns(w, f)
    BY <1>5 DEF ListDone, SegmentFails
  <2>2. writer[w].pc \in {"list", "segment"}
    BY <1>5 DEF ListDone, SegmentFails, At
  <2>3. \E x \in {"loop", "put"} : Becomes(w, x)
    <3>1. PICK f \in BOOLEAN : ListReturns(w, f)
      BY <2>1
    <3>2. PICK x \in {"loop", "put"}, e \in {"EOF", "ServerError", writer[w].exit} :
            writer' = [writer EXCEPT ![w].pc = x, ![w].exit = e, ![w].lastErr = @ \/ f]
      BY <3>1 DEF ListReturns
    <3>3. (writer[w].lastErr \/ f) \in BOOLEAN /\ e \in {"none"} \cup Errors /\ x \in WriterPcs
      BY <1>0, <3>1 DEF WriterStates, WriterPcs, Errors
    <3>4. PICK b \in BOOLEAN :
            writer' = [writer EXCEPT ![w].pc = x, ![w].exit = e, ![w].lastErr = b]
      BY <3>2, <3>3
    <3>5. Becomes(w, x)
      BY <1>0, <3>3, <3>4 DEF Becomes, WriterStates
    <3> QED
      BY <3>5
  <2>4. UNCHANGED <<cpc, held, WriterActive, WriterCtx, LBResultOnWrite, concurrency>>
    BY <1>5 DEF ListDone, SegmentFails, writerRest, clientVars, coordVars
  <2> QED
    BY <1>0, <1>a, <2>2, <2>3, <2>4, Working
<1>6. CASE SegmentOpens(w) \/ SegmentData(w) \/ SegmentEnds(w)
  <2>1. /\ writer[w].pc \in {"list", "segment"} /\ \E x \in {"list", "segment"} : Becomes(w, x)
    BY <1>0, <1>6 DEF SegmentOpens, SegmentData, SegmentEnds, At, Goes, Becomes, WriterStates, WriterPcs
  <2>2. UNCHANGED <<cpc, held, WriterActive, WriterCtx, LBResultOnWrite, concurrency>>
    BY <1>6 DEF SegmentOpens, SegmentData, SegmentEnds, writerRest, clientVars, coordVars, coordRest
  <2> QED
    BY <1>0, <1>a, <2>1, <2>2, Working
<1>7. CASE PutError(w)
  <2>1. /\ writer[w].pc = "put"
        /\ UNCHANGED <<cpc, held, body, WriterActive, WriterCtx, LBResultOnWrite, concurrency>>
    BY <1>7 DEF PutError, At, writerRest, clientVars, coordRest
  <2>2. CASE LBResultOnWrite = w
    <3>1. Becomes(w, "release")
      BY <1>0, <1>7, <2>2 DEF PutError, Goes, Becomes, WriterStates, WriterPcs
    <3> QED
      BY <1>0, <2>1, <2>2, <3>1, Working
  <2>3. CASE LBResultOnWrite # w
    <3>1. Becomes(w, "flag")
      BY <1>0, <1>7, <2>3 DEF PutError, Goes, Becomes, WriterStates, WriterPcs
    <3>2. LBResultOnWrite = 0
      BY <2>1, <2>3, HLSBounds DEF HLSInv, HLSTypes, Connected, Running, Writers
    <3> QED
      BY <2>1, <3>1, <3>2, Letting DEF HLSInv, Connected
  <2> QED
    BY <2>2, <2>3
<1>8. CASE WriterEnds(w)
  <2>1. /\ writer[w].pc = "flag" /\ WriterActive' = FALSE
        /\ writer'[w].pc = "done" /\ writer' \in [Writers -> WriterStates]
        /\ \A v \in Writers : v # w => writer'[v] = writer[v]
        /\ UNCHANGED <<cpc, held, body, WriterCtx, LBResultOnWrite, concurrency>>
    <3>1. [NoWriter EXCEPT !.pc = "done"] \in WriterStates /\ [NoWriter EXCEPT !.pc = "done"].pc = "done"
      <4>1. NoWriter \in WriterStates
        BY HLSBounds DEF NoWriter, WriterStates, WriterPcs
      <4> QED
        BY <4>1 DEF WriterStates, WriterPcs
    <3>2. writer' = [writer EXCEPT ![w] = [NoWriter EXCEPT !.pc = "done"]]
      BY <1>8 DEF WriterEnds
    <3> HIDE DEF NoWriter, WriterStates
    <3>3. /\ writer'[w].pc = "done" /\ writer' \in [Writers -> WriterStates]
          /\ \A v \in Writers : v # w => writer'[v] = writer[v]
      BY <1>0, <3>1, <3>2
    <3> QED
      BY <1>8, <3>3 DEF WriterEnds, At, writerRest, clientVars
  <2>2. Running' = {}
    BY <2>1 DEF HLSInv, Connected, Running
  <2>3. HLSTypes'
    BY <2>1 DEF HLSInv, HLSTypes
  <2>4. Connected'
    <3>1. LBResultOnWrite # 0 => LBResultOnWrite \in Writers /\ LBResultOnWrite # w
      BY <2>1, HLSBounds DEF HLSInv, HLSTypes, Connected, Writers
    <3> QED
      BY <2>1, <2>2, <3>1 DEF HLSInv, Connected
  <2>5. Owned'
    BY <2>1, <2>2 DEF HLSInv, Owned
  <2> QED
    BY <2>3, <2>4, <2>5 DEF HLSInv
<1> QED
  BY <1>1, <1>2, <1>3, <1>4, <1>5, <1>6, <1>7, <1>8 DEF WriterStep

-----------------------------------------------------------------------------
\* The invariant holds in every reachable state.
THEOREM HLSInvariance == Spec => []HLSInv
<1>1. Init => HLSInv
  BY HLSInit
<1>2. HLSInv /\ [Next]_vars => HLSInv'
  <2> SUFFICES ASSUME HLSInv, [Next]_vars PROVE HLSInv'
    OBVIOUS
  <2>1. CASE UNCHANGED vars
    <3>1. Running' = Running
      BY <2>1 DEF vars, Running
    <3> QED
      BY <2>1, <3>1 DEF vars, clientVars, coordVars, HLSInv, HLSTypes, Connected, Owned
  <2>2. ASSUME NEW w \in Writers, WriterStep(w) PROVE HLSInv'
    BY <2>2, WriterInv
  <2>3. ASSUME NEW c \in Clients,
               ReturnDone(c) \/ ReturnUnwritten(c) \/ ReturnIncompatible(c)
                  \/ \E s \in Errors : ReturnError(c, s)
        PROVE  \E s \in {"ClientClosed", "Incompatible"} \cup Errors : Leave(c, s)
    BY <2>3 DEF ReturnDone, ReturnUnwritten, ReturnIncompatible, ReturnError
  <2> QED
    BY <2>1, <2>2, <2>3, ClientInv DEF Next
<1> QED
  BY <1>1, <1>2, PTL DEF Spec

\* On every way out of StartHLSWriter the connection is given back once.
THEOREM HLSConnection == Spec => []HLSConnectionExact
<1>1. HLSInv => HLSConnectionExact
  <2> SUFFICES ASSUME HLSInv PROVE HLSConnectionExact
    OBVIOUS
  <2>1. Running = {} \/ \E w \in Running : Running = {w}
    BY DEF HLSInv, Connected
  <2>2. Cardinality(Running) <= 1
    <3>1. ASSUME NEW w, Running = {w} PROVE Cardinality(Running) = 1
      BY <3>1, FS_Singleton
    <3>2. Running = {} => Cardinality(Running) = 0
      BY FS_EmptySet
    <3> QED
      BY <2>1, <3>1, <3>2
  <2>3. Running = {} => concurrency = 0
    <3>1. LBResultOnWrite # 0 => LBResultOnWrite \in Writers
      BY HLSBounds DEF HLSInv, HLSTypes, Writers
    <3> QED
      BY <3>1 DEF HLSInv, Connected, Running
  <2> QED
    BY <2>2, <2>3 DEF HLSInv, Connected, HLSConnectionExact
<1> QED
  BY <1>1, HLSInvariance, PTL

\* No response body is left open once the clients that held it are gone.
THEOREM HLSBodies == Spec => []BodiesReleased
<1>1. HLSInv => BodiesReleased
  BY DEF HLSInv, Owned, BodiesReleased, Results
<1> QED
  BY <1>1, HLSInvariance, PTL

-----------------------------------------------------------------------------
(* Clients are told.                                                       *)

\* The clients whose HandleStream is registered, which ClientCount counts.
Readers == {c \in Clients : cpc[c] \in {"reading", "closing"}}

Counted == IsFiniteSet(Readers) /\ ClientCount = Cardinality(Readers)

\* Contexts are those of writers that were started, and the current one is alive.
Contexts ==
    /\ cancelled \subseteq {w \in Writers : writer[w].pc # "off"}
    /\ WriterCtx \notin cancelled
    /\ WriterCtx # 0 => WriterCtx \in Writers /\ writer[WriterCtx].pc # "off"
    /\ \A w \in Writers : writer[w].pc \in {"off", "start"} => writer[w].ctx = 0
    /\ \A w \in Writers : writer[w].pc = "put" => writer[w].exit \in Errors

\* Unless it is excused, a writer that runs has an audience and a live context on an active
\* stream until it has written its error, which stays for as long as somebody watches.
Told ==
    ~excused =>
        /\ Running = {} /\ ClientCount > 0 => ring \cap Errors # {}
        /\ \A w \in Running :
              /\ ClientCount > 0
              /\ IF writer[w].pc \in {"release", "flag"}
                 THEN ring \cap Errors # {}
                 ELSE state = "active" /\ writer[w].ctx \notin cancelled

ToldInv == Counted /\ Contexts /\ Told

\* A step that changes nobody's place among the readers.
LEMMA SameReaders ==
    ASSUME HLSInv, Counted, NEW c \in Clients, NEW x, cpc' = [cpc EXCEPT ![c] = x],
           cpc[c] \in {"reading", "closing"} <=> x \in {"reading", "closing"},
           UNCHANGED ClientCount
    PROVE  Counted'
<1>1. Readers' = Readers
  BY DEF Readers, HLSInv, HLSTypes
<1> QED
  BY <1>1 DEF Counted

\* The other steps of a client, which leave the coordinator and its writers alone.
LEMMA ToldElsewhere ==
    ASSUME ToldInv, Counted', UNCHANGED <<coordVars, writer>>
    PROVE  ToldInv'
<1>1. Running' = Running
  BY DEF Running
<1>2. Contexts'
  BY DEF ToldInv, Contexts, coordVars
<1>3. Told'
  BY <1>1 DEF ToldInv, Told, coordVars
<1> QED
  BY <1>2, <1>3 DEF ToldInv

\* A client that enters finds an active stream, or one that it may be left alone with.
LEMMA ToldEnter ==
    ASSUME HLSInv, ToldInv, NEW c \in Clients, Enter(c)
    PROVE  ToldInv'
<1>1. /\ cpc[c] = "ready" /\ cpc' = [cpc EXCEPT ![c] = "reading"] /\ ClientCount' = ClientCount + 1
      /\ state' = (IF ClientCount = 0 THEN "active" ELSE state) /\ UNCHANGED cancelled
  BY DEF Enter
<1>2. Readers' = Readers \cup {c} /\ c \notin Readers
  BY <1>1 DEF Readers, HLSInv, HLSTypes
<1>3. Counted' /\ ClientCount \in Nat
  BY <1>1, <1>2, FS_AddElement, FS_CardinalityType DEF ToldInv, Counted
<1>4. CASE WriterActive
  <2>1. UNCHANGED <<WriterCtx, ring, writer, excused>>
    BY <1>4 DEF Enter
  <2>2. Running' = Running /\ Running # {}
    BY <1>4, <2>1 DEF Running, HLSInv, Connected
  <2>3. Contexts'
    BY <1>1, <2>1 DEF ToldInv, Contexts
  <2>4. Told'
    BY <1>1, <1>3, <2>1, <2>2 DEF ToldInv, Told
  <2> QED
    BY <1>3, <2>3, <2>4 DEF ToldInv
<1>5. CASE ~WriterActive
  <2>1. PICK w \in Writers :
          /\ writer[w] = NoWriter /\ WriterCtx' = IF WriterCtx = 0 THEN w ELSE WriterCtx
          /\ writer' = [writer EXCEPT ![w].pc = "start", ![w].res = held[c]]
    BY <1>5 DEF Enter
  <2>2. ~excused' => ~(ClientCount > 0) \/ state = "active"
    BY <1>5 DEF Enter
  <2>3. writer[w].pc = "off" /\ writer[w].ctx = 0 /\ w # 0
    BY <2>1, HLSBounds DEF NoWriter, Writers
  <2>4. /\ writer'[w].pc = "start" /\ writer'[w].ctx = 0
        /\ \A v \in Writers : v # w => writer'[v] = writer[v]
    BY <2>1, <2>3 DEF HLSInv, HLSTypes, WriterStates
  <2>5. Running' = {w}
    BY <1>5, <2>4 DEF Running, HLSInv, Connected
  <2>6. w \notin cancelled /\ 0 \notin cancelled
    BY <2>3, HLSBounds DEF ToldInv, Contexts, Writers
  <2>7. Contexts'
    BY <1>1, <2>1, <2>3, <2>4, <2>6 DEF ToldInv, Contexts
  <2>8. Told'
    <3>1. ~excused' => state' = "active"
      BY <1>1, <1>3, <2>2
    <3>2. ClientCount' > 0
      BY <1>1, <1>3
    <3> QED
      BY <1>1, <2>4, <2>5, <2>6, <3>1, <3>2 DEF Told
  <2> QED
    BY <1>3, <2>7, <2>8 DEF ToldInv
<1> QED
  BY <1>4, <1>5

\* The last client to leave takes the ring with it, and excuses a writer that still runs.
LEMMA ToldLeave ==
    ASSUME HLSInv, ToldInv, NEW c \in Clients, NEW s, Leave(c, s)
    PROVE  ToldInv'
<1>1. /\ cpc[c] \in {"reading", "closing"} /\ ClientCount' = ClientCount - 1
      /\ \E x \in {"left", "hung"} : cpc' = [cpc EXCEPT ![c] = x]
      /\ UNCHANGED <<WriterActive, writer>>
  BY DEF Leave
<1>2. Readers' = Readers \ {c} /\ c \in Readers
  BY <1>1 DEF Readers, HLSInv, HLSTypes
<1>3. Counted' /\ ClientCount \in Nat
  BY <1>1, <1>2, FS_RemoveElement, FS_CardinalityType DEF ToldInv, Counted
<1>4. Running' = Running
  BY <1>1 DEF Running
<1>5. CASE ClientCount = 1
  <2>1. /\ cancelled' = cancelled \cup ({WriterCtx} \ {0}) /\ WriterCtx' = 0
        /\ excused' = (excused \/ WriterActive)
    BY <1>5 DEF Leave
  <2>2. 0 \notin cancelled
    BY HLSBounds DEF ToldInv, Contexts, Writers
  <2>3. Contexts'
    BY <1>1, <2>1, <2>2 DEF ToldInv, Contexts
  <2>4. Told'
    <3>1. ~excused' => ~WriterActive
      BY <2>1
    <3>2. ~excused' => Running' = {}
      BY <1>4, <3>1 DEF HLSInv, Connected
    <3>3. ~(ClientCount' > 0)
      BY <1>1, <1>5
    <3> QED
      BY <3>2, <3>3 DEF Told
  <2> QED
    BY <1>3, <2>3, <2>4 DEF ToldInv
<1>6. CASE ClientCount # 1
  <2>1. UNCHANGED <<state, ring, cancelled, WriterCtx, excused>>
    BY <1>6 DEF Leave
  <2>2. Contexts'
    BY <1>1, <2>1 DEF ToldInv, Contexts
  <2>3. Told'
    BY <1>1, <1>3, <1>4, <1>6, <2>1 DEF ToldInv, Told
  <2> QED
    BY <1>3, <2>2, <2>3 DEF ToldInv
<1> QED
  BY <1>5, <1>6

\* A writer goes to x, with a context that is alive if it had one or gets the current one.
LEMMA ToldWorks ==
    ASSUME HLSInv, ToldInv, NEW w \in Writers, NEW x, Becomes(w, x),
           writer[w].pc \notin {"off", "done"}, x \notin {"off", "start", "done"},
           writer'[w].ctx \in {writer[w].ctx, WriterCtx},
           x = "put" => writer'[w].exit \in Errors,
           UNCHANGED <<cpc, ClientCount, WriterCtx, cancelled, excused>>,
           ring \cap Errors \subseteq ring',
           ~excused /\ x \notin {"release", "flag"} =>
               state' = state /\ writer[w].pc \notin {"release", "flag"},
           ~excused /\ x \in {"release", "flag"} => ring' \cap Errors # {}
    PROVE  ToldInv'
<1>1. Running' = Running /\ w \in Running /\ \A v \in Running : v = w
  BY DEF Running, Becomes, HLSInv, Connected
<1>2. Counted'
  BY DEF ToldInv, Counted, Readers
<1>3. writer'[w].pc = x /\ \A v \in Writers : v # w => writer'[v] = writer[v]
  BY DEF Becomes
<1>4. Contexts'
  BY <1>3 DEF ToldInv, Contexts
<1>5. Told'
  BY <1>1, <1>3 DEF ToldInv, Told, Contexts
<1> QED
  BY <1>2, <1>4, <1>5 DEF ToldInv

\* Every step of a writer.
LEMMA ToldWriter ==
    ASSUME HLSInv, ToldInv, NEW w \in Writers, WriterStep(w)
    PROVE  ToldInv'
<1>0. writer \in [Writers -> WriterStates] /\ writer[w] \in WriterStates
  BY DEF HLSInv, HLSTypes
<1>a. ASSUME writer[w].pc \notin {"off", "done"}, ~excused
      PROVE  IF writer[w].pc \in {"release", "flag"}
             THEN ring \cap Errors # {}
             ELSE state = "active" /\ writer[w].ctx \notin cancelled
  BY <1>a DEF ToldInv, Told, Running
<1> USE DEF writerRest, clientVars, coordVars, coordRest
<1>1. CASE Begin(w)
  <2>1. /\ writer[w].pc = "start" /\ Becomes(w, "loop") /\ writer'[w].ctx = WriterCtx
        /\ UNCHANGED <<cpc, ClientCount, WriterCtx, cancelled, excused, ring, state>>
    BY <1>0, <1>1 DEF Begin, At, Becomes, WriterStates, WriterPcs, HLSInv, HLSTypes
  <2> QED
    BY <2>1, ToldWorks
<1>2. CASE LoopEnds(w)
  <2>1. /\ writer[w].pc = "loop" /\ state # "active" /\ Becomes(w, "release")
        /\ writer'[w].ctx = writer[w].ctx
        /\ UNCHANGED <<cpc, ClientCount, WriterCtx, cancelled, excused, ring, state>>
    BY <1>0, <1>2 DEF LoopEnds, At, Goes, Becomes, WriterStates, WriterPcs
  <2> QED
    BY <1>a, <2>1, ToldWorks
<1>3. CASE LoopHead(w) \/ PollNew(w) \/ PollEmpty(w) \/ PollSame(w)
  <2>1. /\ writer[w].pc \in {"loop", "select"}
        /\ \E x \in {"loop", "select", "list"} : Becomes(w, x) /\ writer'[w].ctx = writer[w].ctx
        /\ UNCHANGED <<cpc, ClientCount, WriterCtx, cancelled, excused, ring, state>>
    BY <1>0, <1>3 DEF LoopHead, PollNew, PollEmpty, PollSame, Copied, Polls, At, Goes, Becomes,
                      WriterStates, WriterPcs
  <2> QED
    BY <2>1, ToldWorks
<1>4. CASE LoopPanics(w) \/ PollTimeout(w) \/ CopyFails(w) \/ PollBad(w)
  <2>1. /\ writer[w].pc = "select" /\ Becomes(w, "put") /\ writer'[w].ctx = writer[w].ctx
        /\ writer'[w].exit \in Errors
        /\ UNCHANGED <<cpc, ClientCount, WriterCtx, cancelled, excused, ring, state>>
    BY <1>0, <1>4 DEF LoopPanics, PollTimeout, CopyFails, PollBad, Copied, Polls, At, Fails, Becomes,
                      WriterStates, WriterPcs, Errors
  <2> QED
    BY <2>1, ToldWorks
<1>5. CASE PollCancelled(w)
  <2>1. /\ writer[w].pc = "select" /\ writer[w].ctx \in cancelled
        /\ UNCHANGED <<cpc, ClientCount, WriterCtx, cancelled, excused, ring, state>>
    BY <1>5 DEF PollCancelled, Polls, Cancelled, At
  <2>2. excused
    BY <1>a, <2>1 DEF HLSInv, HLSTypes
  <2>3. \/ Becomes(w, "release") /\ writer'[w].ctx = writer[w].ctx
        \/ Becomes(w, "put") /\ writer'[w].ctx = writer[w].ctx /\ writer'[w].exit \in Errors
    BY <1>0, <1>5 DEF PollCancelled, Goes, Fails, Becomes, WriterStates, WriterPcs, Errors
  <2> QED
    BY <2>1, <2>2, <2>3, ToldWorks
<1>6. CASE ListDone(w) \/ SegmentFails(w)
  <2>1. PICK f \in BOOLEAN : ListReturns(w, f)
    BY <1>6 DEF ListDone, SegmentFails
  <2>2. /\ writer[w].pc \in {"list", "segment"}
        /\ UNCHANGED <<cpc, ClientCount, WriterCtx, cancelled, excused, ring, state>>
    BY <1>6 DEF ListDone, SegmentFails, At
  <2>3. PICK x \in {"loop", "put"}, e \in {"EOF", "ServerError", writer[w].exit} :
          /\ writer' = [writer EXCEPT ![w].pc = x, ![w].exit = e, ![w].lastErr = @ \/ f]
          /\ x = "put" => e \in Errors
    BY <2>1 DEF ListReturns, Errors
  <2>4. (writer[w].lastErr \/ f) \in BOOLEAN /\ e \in {"none"} \cup Errors /\ x \in WriterPcs
    BY <1>0, <2>1 DEF WriterStates, WriterPcs, Errors
  <2>5. PICK b \in BOOLEAN : writer' = [writer EXCEPT ![w].pc = x, ![w].exit = e, ![w].lastErr = b]
    BY <2>3, <2>4
  <2>6. /\ Becomes(w, x) /\ writer'[w].ctx = writer[w].ctx /\ writer'[w].exit = e
    BY <1>0, <2>4, <2>5 DEF Becomes, WriterStates
  <2> QED
    BY <2>2, <2>3, <2>6, ToldWorks
<1>7. CASE SegmentOpens(w) \/ SegmentData(w) \/ SegmentEnds(w)
  <2>1. /\ writer[w].pc \in {"list", "segment"}
        /\ \E x \in {"list", "segment"} : Becomes(w, x) /\ writer'[w].ctx = writer[w].ctx
        /\ UNCHANGED <<cpc, ClientCount, WriterCtx, cancelled, excused, state>>
        /\ ring \subseteq ring'
    BY <1>0, <1>7 DEF SegmentOpens, SegmentData, SegmentEnds, At, Goes, Becomes, WriterStates, WriterPcs
  <2> QED
    BY <2>1, ToldWorks
<1>8. CASE PutError(w)
  <2>1. /\ writer[w].pc = "put" /\ ring \subseteq ring'
        /\ state = "active" => writer[w].exit \in ring'
        /\ UNCHANGED <<cpc, ClientCount, WriterCtx, cancelled, excused>>
    BY <1>8 DEF PutError, At
  <2>2. PICK x \in {"release", "flag"} : Becomes(w, x) /\ writer'[w].ctx = writer[w].ctx
    BY <1>0, <1>8 DEF PutError, Goes, Becomes, WriterStates, WriterPcs
  <2>3. writer[w].exit \in Errors
    BY <2>1 DEF ToldInv, Contexts
  <2> QED
    BY <1>a, <2>1, <2>2, <2>3, ToldWorks
<1>9. CASE Release(w)
  <2>1. /\ writer[w].pc = "release" /\ Becomes(w, "flag") /\ writer'[w].ctx = writer[w].ctx
        /\ UNCHANGED <<cpc, ClientCount, WriterCtx, cancelled, excused, ring, state>>
    BY <1>0, <1>9 DEF Release, At, Goes, Becomes, WriterStates, WriterPcs
  <2> QED
    BY <1>a, <2>1, ToldWorks
<1>10. CASE WriterEnds(w)
  <2>1. /\ writer[w].pc = "flag" /\ cancelled' = {} /\ writer'[w].pc = "done"
        /\ \A v \in Writers : v # w => writer'[v] = writer[v]
        /\ UNCHANGED <<cpc, ClientCount, WriterCtx, excused, ring, state>>
    BY <1>0, <1>10 DEF WriterEnds, At, NoWriter
  <2>2. Running' = {}
    BY <2>1 DEF HLSInv, Connected, Running
  <2>3. Counted' /\ Contexts'
    BY <2>1 DEF ToldInv, Counted, Readers, Contexts
  <2>4. Told'
    BY <1>a, <2>1, <2>2 DEF Told
  <2> QED
    BY <2>3, <2>4 DEF ToldInv
<1> QED
  BY <1>1, <1>2, <1>3, <1>4, <1>5, <1>6, <1>7, <1>8, <1>9, <1>10 DEF WriterStep

\* However StartHLSWriter ends while clients watch, they find its error in the ring.
THEOREM HLSClientsTold == Spec => []ClientsTold
<1>1. Init => ToldInv
  <2> SUFFICES ASSUME Init PROVE ToldInv
    OBVIOUS
  <2>1. Readers = {} /\ Running = {}
    BY DEF Init, Readers, Running, NoWriter
  <2>2. Counted
    BY <2>1, FS_EmptySet DEF Init, Counted
  <2>3. Contexts
    BY DEF Init, Contexts, NoWriter
  <2>4. Told
    BY <2>1 DEF Init, Told
  <2> QED
    BY <2>2, <2>3, <2>4 DEF ToldInv
<1>2. HLSInv /\ ToldInv /\ [Next]_vars => ToldInv'
  <2> SUFFICES ASSUME HLSInv, ToldInv, [Next]_vars PROVE ToldInv'
    OBVIOUS
  <2>1. CASE UNCHANGED vars
    <3>1. Counted' /\ UNCHANGED <<coordVars, writer>>
      BY <2>1 DEF vars, clientVars, coordVars, ToldInv, Counted, Readers
    <3> QED
      BY <3>1, ToldElsewhere
  <2>2. ASSUME NEW c \in Clients,
               \/ Disconnect(c) \/ GiveUp(c) \/ BorrowResult(c) \/ SkipSession(c)
               \/ \E r \in Results : FreshResult(c, r)
               \/ ProxyReturns(c) \/ Fallback(c) \/ FallbackFails(c)
        PROVE  ToldInv'
    <3>1. UNCHANGED <<coordVars, writer>>
      BY <2>2 DEF Disconnect, GiveUp, BorrowResult, SkipSession, FreshResult, ProxyReturns, Fallback,
         FallbackFails, Scans
    <3>2. \E x : /\ cpc' = [cpc EXCEPT ![c] = x]
                 /\ cpc[c] \in {"reading", "closing"} <=> x \in {"reading", "closing"}
      BY <2>2 DEF Disconnect, GiveUp, BorrowResult, SkipSession, FreshResult, ProxyReturns, Fallback,
         FallbackFails, Scans
    <3>3. Counted'
      BY <3>1, <3>2, SameReaders DEF ToldInv, coordVars
    <3> QED
      BY <3>1, <3>3, ToldElsewhere
  <2>3. ASSUME NEW c \in Clients,
               ReturnDone(c) \/ ReturnUnwritten(c) \/ ReturnIncompatible(c)
                  \/ \E s \in Errors : ReturnError(c, s)
        PROVE  ToldInv'
    <3>1. \E s \in {"ClientClosed", "Incompatible"} \cup Errors : Leave(c, s)
      BY <2>3 DEF ReturnDone, ReturnUnwritten, ReturnIncompatible, ReturnError
    <3> QED
      BY <3>1, ToldLeave
  <2> QED
    BY <2>1, <2>2, <2>3, ToldEnter, ToldWriter DEF Next
<1>3. ToldInv => ClientsTold
  BY DEF ToldInv, Told, ClientsTold
<1> QED
  BY <1>1, <1>2, <1>3, HLSInvariance, PTL DEF Spec

-----------------------------------------------------------------------------
(* A writer runs down.                                                     *)

\* What a writer knows of its playlist.
Listing(w) ==
    /\ writer[w].pc \in {"off", "start"} => writer[w].list = "none"
    /\ writer[w].list = "none" => writer[w].seg = 0
    /\ writer[w].pc \in {"list", "segment"} => writer[w].list # "none"
    /\ writer[w].pc \in {"loop", "select"} => writer[w].list # "ended"
    /\ writer[w].seg <= Segments
    /\ writer[w].pc = "segment" => writer[w].seg < Segments

\* The moves that a writer has left, at most: two for each segment of its one list.
MovesLeft(w) ==
    LET segments == 2 * (Segments - writer[w].seg)
    IN CASE writer[w].pc = "off" -> segments + 8
         [] writer[w].pc = "start" -> segments + 7
         [] writer[w].pc \in {"loop", "select"} -> IF writer[w].list = "none" THEN segments + 6 ELSE 4
         [] writer[w].pc = "list" -> segments + 5
         [] writer[w].pc = "segment" -> segments + 4
         [] writer[w].pc = "put" -> 3
         [] writer[w].pc = "release" -> 2
         [] writer[w].pc = "flag" -> 1
         [] OTHER -> 0

\* Writer w goes round its loop with the list that it had, of which nothing is new.
Turns(w) ==
    /\ writer[w].pc \in {"loop", "select"} /\ writer'[w].pc \in {"loop", "select"}
    /\ writer'[w].list = writer[w].list /\ writer'[w].seg = writer[w].seg

\* A writer works its one list off and from then on only goes round its loop until that
\* ends: no other move leaves it without fewer moves, and it has none left exactly when it
\* is done.  In particular the playlist of a live stream is never fetched again.
HLSWindsDown ==
    [][\A w \in Writers :
          /\ MovesLeft(w) = 0 <=> writer[w].pc = "done"
          /\ UNCHANGED writer[w] \/ Turns(w) \/ MovesLeft(w)' \in 0 .. MovesLeft(w) - 1]_vars

\* The step of a writer that moves.
LEMMA WriterMoves ==
    ASSUME HLSInv, NEW w \in Writers, Listing(w), WriterStep(w)
    PROVE  /\ Listing(w)'
           /\ writer'[w] = writer[w] \/ Turns(w) \/ MovesLeft(w)' < MovesLeft(w)
<1>0. /\ writer \in [Writers -> WriterStates] /\ writer[w] \in WriterStates /\ Segments \in Nat
      /\ writer[w].seg \in Nat
  BY HLSBounds DEF HLSInv, HLSTypes, WriterStates
<1>1. CASE Begin(w)
  <2>1. /\ writer[w].pc = "start" /\ writer'[w].pc = "loop"
        /\ writer'[w].seg = writer[w].seg /\ writer'[w].list = writer[w].list
    BY <1>0, <1>1 DEF Begin, At, WriterStates
  <2> QED
    BY <1>0, <2>1 DEF Listing, MovesLeft
<1>2. CASE LoopEnds(w) \/ PollCancelled(w) \/ PollTimeout(w) \/ CopyFails(w) \/ LoopPanics(w) \/ PollBad(w)
  <2>1. /\ writer[w].pc \in {"loop", "select"} /\ writer'[w].pc \in {"release", "put"}
        /\ writer'[w].seg = writer[w].seg /\ writer'[w].list = writer[w].list
    BY <1>0, <1>2 DEF LoopEnds, PollCancelled, PollTimeout, CopyFails, LoopPanics, PollBad, Polls, Copied, At,
       Goes, Fails, WriterStates
  <2> QED
    BY <1>0, <2>1 DEF Listing, MovesLeft
<1>3. CASE PollNew(w)
  <2>1. /\ writer[w].pc = "select" /\ writer[w].list = "none" /\ writer'[w].pc = "list"
        /\ writer'[w].seg = writer[w].seg /\ writer'[w].list \in {"live", "ended"}
    BY <1>0, <1>3 DEF PollNew, Copied, Polls, At, WriterStates
  <2> QED
    BY <1>0, <2>1 DEF Listing, MovesLeft
<1>4. CASE PollEmpty(w)
  <2>1. /\ writer[w].pc = "select" /\ writer'[w].pc = "loop" /\ writer'[w].list = "live"
        /\ writer'[w].seg = writer[w].seg
    BY <1>0, <1>4 DEF PollEmpty, Copied, Polls, At, WriterStates
  <2>2. Listing(w)'
    BY <1>0, <2>1 DEF Listing
  <2>3. CASE writer[w].list = "none"
    BY <1>0, <2>1, <2>2, <2>3 DEF Listing, MovesLeft
  <2>4. CASE writer[w].list = "live"
    BY <2>1, <2>2, <2>4 DEF Turns
  <2>5. CASE writer[w].list = "ended"
    BY <2>1, <2>5 DEF Listing
  <2> QED
    BY <1>0, <2>2, <2>3, <2>4, <2>5 DEF WriterStates
<1>11. CASE LoopHead(w) \/ PollSame(w)
  <2>1. /\ writer[w].pc \in {"loop", "select"} /\ writer'[w].pc \in {"loop", "select"}
        /\ writer'[w].list = writer[w].list /\ writer'[w].seg = writer[w].seg
    BY <1>0, <1>11 DEF LoopHead, PollSame, Copied, Polls, At, Goes, WriterStates
  <2> QED
    BY <1>0, <2>1 DEF Listing, Turns
<1>5. CASE ListDone(w) \/ SegmentFails(w)
  <2>1. PICK f \in BOOLEAN : ListReturns(w, f)
    BY <1>5 DEF ListDone, SegmentFails
  <2>2. writer[w].pc \in {"list", "segment"}
    BY <1>5 DEF ListDone, SegmentFails, At
  <2>3. /\ writer'[w].seg = writer[w].seg /\ writer'[w].list = writer[w].list
        /\ writer'[w].pc \in {"loop", "put"}
        /\ writer[w].list = "ended" => writer'[w].pc = "put"
    BY <1>0, <2>1 DEF ListReturns, WriterStates
  <2> QED
    BY <1>0, <2>2, <2>3 DEF Listing, MovesLeft
<1>6. CASE SegmentOpens(w)
  <2>1. /\ writer[w].pc = "list" /\ writer'[w].pc = "segment" /\ writer[w].seg < Segments
        /\ writer'[w].seg = writer[w].seg /\ writer'[w].list = writer[w].list
    BY <1>0, <1>6 DEF SegmentOpens, At, Goes, WriterStates
  <2> QED
    BY <1>0, <2>1 DEF Listing, MovesLeft
<1>7. CASE SegmentData(w)
  BY <1>7 DEF SegmentData, Listing
<1>8. CASE SegmentEnds(w)
  <2>1. /\ writer[w].pc = "segment" /\ writer'[w].pc = "list"
        /\ writer'[w].seg = writer[w].seg + 1 /\ writer'[w].list = writer[w].list
    BY <1>0, <1>8 DEF SegmentEnds, At, WriterStates
  <2> QED
    BY <1>0, <2>1 DEF Listing, MovesLeft
<1>9. CASE PutError(w) \/ Release(w)
  <2>1. /\ \/ writer[w].pc = "put" /\ writer'[w].pc \in {"release", "flag"}
           \/ writer[w].pc = "release" /\ writer'[w].pc = "flag"
        /\ writer'[w].seg = writer[w].seg /\ writer'[w].list = writer[w].list
    BY <1>0, <1>9 DEF PutError, Release, At, Goes, WriterStates
  <2> QED
    BY <1>0, <2>1 DEF Listing, MovesLeft
<1>10. CASE WriterEnds(w)
  <2>1. /\ writer[w].pc = "flag" /\ writer'[w].pc = "done" /\ writer'[w].seg = 0
        /\ writer'[w].list = "none"
    BY <1>0, <1>10 DEF WriterEnds, At, NoWriter
  <2> QED
    BY <1>0, <2>1 DEF Listing, MovesLeft
<1> QED
  BY <1>1, <1>2, <1>3, <1>4, <1>5, <1>6, <1>7, <1>8, <1>9, <1>10, <1>11 DEF WriterStep

\* A step that is not the writer's leaves it alone or starts it.
LEMMA WriterRests ==
    ASSUME HLSInv, NEW w \in Writers, Listing(w), [Next]_vars, ~WriterStep(w)
    PROVE  /\ Listing(w)'
           /\ writer'[w] = writer[w] \/ Turns(w) \/ MovesLeft(w)' < MovesLeft(w)
<1>0. /\ writer \in [Writers -> WriterStates] /\ writer[w] \in WriterStates /\ Segments \in Nat
      /\ writer[w].seg \in Nat
  BY HLSBounds DEF HLSInv, HLSTypes, WriterStates
<1>1. CASE writer'[w] = writer[w]
  BY <1>1 DEF Listing
<1>2. ASSUME NEW c \in Clients, Enter(c), writer'[w] # writer[w]
      PROVE  Listing(w)' /\ MovesLeft(w)' < MovesLeft(w)
  <2>0. PICK v \in Writers :
          writer[v] = NoWriter /\ writer' = [writer EXCEPT ![v].pc = "start", ![v].res = held[c]]
    BY <1>2 DEF Enter
  <2>1. writer[w] = NoWriter /\ v = w
    BY <1>0, <1>2, <2>0
  <2>2. writer[w].pc = "off" /\ writer[w].seg = 0 /\ writer[w].list = "none"
    BY <2>1 DEF NoWriter
  <2>3. /\ writer'[w].pc = "start" /\ writer'[w].seg = writer[w].seg
        /\ writer'[w].list = writer[w].list
    BY <1>0, <2>0, <2>1 DEF WriterStates
  <2> QED
    BY <1>0, <2>2, <2>3 DEF Listing, MovesLeft
<1>3. ASSUME NEW c \in Clients,
             \/ Disconnect(c) \/ GiveUp(c) \/ BorrowResult(c) \/ SkipSession(c)
             \/ \E r \in Results : FreshResult(c, r)
             \/ ReturnDone(c) \/ ReturnUnwritten(c) \/ ReturnIncompatible(c)
             \/ \E s \in Errors : ReturnError(c, s)
             \/ ProxyReturns(c) \/ Fallback(c) \/ FallbackFails(c)
      PROVE  writer' = writer
  BY <1>3 DEF Disconnect, GiveUp, BorrowResult, SkipSession, FreshResult, ReturnDone, ReturnUnwritten,
     ReturnIncompatible, ReturnError, Leave, ProxyReturns, Fallback, FallbackFails, Scans
<1>4. ASSUME NEW v \in Writers, v # w, WriterStep(v)
      PROVE  writer'[w] = writer[w]
  BY <1>0, <1>4 DEF WriterStep, Begin, LoopEnds, LoopHead, LoopPanics, PollCancelled, PollTimeout,
     CopyFails, PollBad, PollNew, PollEmpty, PollSame, Copied, ListDone, SegmentFails, ListReturns, SegmentOpens, SegmentData, SegmentEnds,
     PutError, Release, WriterEnds, Goes, Fails
<1>5. CASE UNCHANGED vars
  BY <1>1, <1>5 DEF vars
<1> QED
  BY <1>1, <1>2, <1>3, <1>4, <1>5 DEF Next

\* The moves left are a number, and zero when the writer is done.
LEMMA MovesTyped ==
    HLSInv => \A w \in Writers : Listing(w) =>
                 MovesLeft(w) \in Nat /\ (MovesLeft(w) = 0 <=> writer[w].pc = "done")
<1> SUFFICES ASSUME HLSInv, NEW w \in Writers, Listing(w)
             PROVE  MovesLeft(w) \in Nat /\ (MovesLeft(w) = 0 <=> writer[w].pc = "done")
  OBVIOUS
<1>1. /\ writer[w].pc \in WriterPcs /\ writer[w].seg \in Nat /\ Segments \in Nat
      /\ writer[w].seg <= Segments
  BY HLSBounds DEF HLSInv, HLSTypes, WriterStates, Listing
<1> QED
  BY <1>1 DEF MovesLeft, WriterPcs

\* So they are after a step.
LEMMA MovesTypedNext ==
    HLSInv' => (\A w \in Writers : Listing(w) =>
                   MovesLeft(w) \in Nat /\ (MovesLeft(w) = 0 <=> writer[w].pc = "done"))'
BY MovesTyped, PTL

\* Whatever the clients do, a writer goroutine of StartHLSWriter takes up its playlist at
\* most once, works off each segment at most once, and then makes no moves but those of an
\* idle loop and those that end it: a list with #EXT-X-ENDLIST is never polled again, and
\* a live one is polled without ever showing anything new.
THEOREM HLSWriterIsBounded == Spec => HLSWindsDown
<1> DEFINE Lists == \A w \in Writers : Listing(w)
<1>1. Init => Lists
  BY HLSBounds DEF Init, NoWriter, Listing
<1>2. HLSInv /\ Lists /\ [Next]_vars => Lists'
  BY WriterMoves, WriterRests
<1>3. ASSUME HLSInv, Lists, HLSInv', Lists', [Next]_vars, NEW w \in Writers
      PROVE  /\ MovesLeft(w) = 0 <=> writer[w].pc = "done"
             /\ UNCHANGED writer[w] \/ Turns(w) \/ MovesLeft(w)' \in 0 .. MovesLeft(w) - 1
  <2>1. MovesLeft(w) \in Nat /\ (MovesLeft(w) = 0 <=> writer[w].pc = "done")
    BY <1>3, MovesTyped
  <2>2. MovesLeft(w)' \in Nat
    BY <1>3, MovesTypedNext
  <2>3. writer'[w] = writer[w] \/ Turns(w) \/ MovesLeft(w)' < MovesLeft(w)
    BY <1>3, WriterMoves, WriterRests
  <2> QED
    BY <2>1, <2>2, <2>3
<1>4. HLSInv /\ Lists /\ HLSInv' /\ Lists' /\ [Next]_vars =>
        [\A w \in Writers :
          /\ MovesLeft(w) = 0 <=> writer[w].pc = "done"
          /\ UNCHANGED writer[w] \/ Turns(w) \/ MovesLeft(w)' \in 0 .. MovesLeft(w) - 1]_vars
  BY <1>3
<1> HIDE DEF Lists
<1> QED
  BY <1>1, <1>2, <1>4, HLSInvariance, PTL DEF Spec, HLSWindsDown

=============================================================================
