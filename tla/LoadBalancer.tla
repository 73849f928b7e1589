---------------------------- MODULE LoadBalancer ----------------------------
(***************************************************************************)
(* LoadBalancerInstance.Balance (proxy/loadbalancer/instance.go) run by    *)
(* several requests at once, over the two things they share: the counters  *)
(* of the ConcurrencyManager (store/concurrency.go), and the slice of M3U  *)
(* indexes that utils.GetM3UIndexes hands to everyone and tryAllStreams    *)
(* sorts in place.                                                         *)
(*                                                                         *)
(* Every request has an instance of its own, so testedIndexes is per       *)
(* request.  A request here is for a stream nobody else watches: its       *)
(* result is used by a writer of its own, which counts the connection when *)
(* it starts and gives it back when it ends (StartMediaWriter,             *)
(* StartHLSWriter), or it goes to the client directly, a VOD by            *)
(* HandleDirectStream and an incompatible playlist by the M3U8 fallback,   *)
(* and is never counted.                                                   *)
(***************************************************************************)
EXTENDS Integers, Sequences, FiniteSets

CONSTANTS Requests,
          Indexes,     \* the M3U sources, one per M3U_URL_<index> variable
          IndexOrder,  \* the order in which the environment lists them
          SubUrls(_, _),  \* a request's URLs of a source, as SortStreamSubUrls orders them
          Max,         \* M3U_MAX_CONCURRENCY_<index>
          MaxRetries,  \* LBConfig.MaxRetries; 0 is no limit
          MaxOthers    \* bound: connections of a source in use at the start

ASSUME IndexesListed ==
    IndexOrder \in Seq(Indexes) /\ {IndexOrder[k] : k \in DOMAIN IndexOrder} = Indexes
                                /\ Len(IndexOrder) = Cardinality(Indexes)
\* getMaxConcurrency: values below one, and what does not parse, count as one.
ASSUME MaxPositive == Max \in [Indexes -> Nat \ {0}]
ASSUME RetriesNatural == MaxRetries \in Nat
ASSUME OthersNatural == MaxOthers \in Nat
\* The keys of a map, sorted: none comes twice.
ASSUME SubUrlsAreKeys ==
    \A r \in Requests, i \in Indexes :
        LET q == SubUrls(r, i) IN
        q \in Seq({q[k] : k \in DOMAIN q}) /\ \A k, l \in DOMAIN q : q[k] = q[l] => k = l

VARIABLES count,   \* ConcurrencyManager.count
          order,   \* the shared slice of indexes
          pc, live,
          lap,     \* Balance's loop counter
          done,    \* tryAllStreams' map of indexes already picked in this lap
          sorting, \* where the request's sort.Slice is: [i, j], and the values being swapped
          index,   \* the index being tried
          todo,    \* its sub-URLs still to be tried
          tested,  \* testedIndexes of the request's instance
          asked,   \* history: URLs requested, or skipped at the limit, in this lap
          others,  \* connections of streams that were running when these requests came
          calm,    \* history: this lap began outside any swap, and nobody else wrote to
                   \* the slice during it
          raced    \* history: its source was taken by another request after it was
                   \* found to have room

shared == <<count, order, others>>
history == <<calm, raced>>
vars == <<shared, pc, live, lap, done, sorting, index, todo, tested, asked, history>>

\* The zero value of index: no index of the slice was left to pick.
NoIndex == "no index"
\* Every source has an index: M3U_URL_1, M3U_URL_2, ...
ASSUME IndexesNamed == NoIndex \notin Indexes
NotSorting == [i |-> 0, j |-> 0, x |-> NoIndex, y |-> NoIndex]
Urls(r) == UNION {{<<i, SubUrls(r, i)[k]>> : k \in DOMAIN SubUrls(r, i)} : i \in Indexes}
HasUrls(r) == \E i \in Indexes : SubUrls(r, i) # <<>>

\* GetConcurrencyStatus, CheckConcurrency, ConcurrencyPriorityValue.
Priority(i) == Max[i] - count[i]
\* Mutant of AtLimit: off by one.
AtLimitTooLate(i) == count[i] > Max[i]
AtLimit(i) == count[i] >= Max[i]

\* The sort's less function, on positions of the slice as they are now.
Less(j, k) == Priority(order[j]) > Priority(order[k])

Goto(r, p) == pc' = [pc EXCEPT ![r] = p]

Init ==
    /\ others \in {f \in [Indexes -> 0 .. MaxOthers] : \A i \in Indexes : f[i] <= Max[i]}
    /\ count = others
    /\ order = IndexOrder
    /\ pc = [r \in Requests |-> "start"]
    /\ live = [r \in Requests |-> TRUE]
    /\ lap = [r \in Requests |-> 0]
    /\ done = [r \in Requests |-> {}]
    /\ sorting = [r \in Requests |-> NotSorting]
    /\ index = [r \in Requests |-> NoIndex]
    /\ todo = [r \in Requests |-> <<>>]
    /\ tested = [r \in Requests |-> {}]
    /\ asked = [r \in Requests |-> {}]
    /\ calm = [r \in Requests |-> TRUE]
    /\ raced = [r \in Requests |-> FALSE]

-----------------------------------------------------------------------------
(* Balance: fetchBackendUrls, then laps over all sources.                  *)

\* The request's ctx is done: the client went away.
Cancel(r) ==
    /\ live[r] /\ pc[r] \notin {"streaming", "direct", "failed", "ended"}
    /\ live' = [live EXCEPT ![r] = FALSE]
    /\ UNCHANGED <<shared, pc, lap, done, sorting, index, todo, tested, asked, history>>

\* fetchBackendUrls: a stream without URLs is refused.
Fetch(r) ==
    /\ pc[r] = "start"
    /\ Goto(r, IF HasUrls(r) THEN "lap" ELSE "failed")
    /\ UNCHANGED <<shared, live, lap, done, sorting, index, todo, tested, asked, history>>

\* tryAllStreams is entered: ctx is looked at once, then nothing is done yet.
BeginLap(r) ==
    /\ pc[r] = "lap"
    /\ Goto(r, IF live[r] THEN "head" ELSE "failed")
    /\ done' = [done EXCEPT ![r] = {}]
    /\ asked' = [asked EXCEPT ![r] = {}]
    /\ calm' = [calm EXCEPT ![r] = \A q \in Requests : pc[q] # "swap2"]
    /\ UNCHANGED <<shared, live, lap, sorting, index, todo, tested, raced>>

\* Mutant of AllPicked: the loop over the sources is one round short.
AllPickedEarly(r) == Cardinality(done[r]) >= Len(order) - 1
\* tryAllStreams' loop condition fails: it picked as many indexes as the slice has.
AllPicked(r) == Cardinality(done[r]) >= Len(order)

\* Another round of tryAllStreams' loop begins with a sort of the shared slice.
BeginSort(r) ==
    /\ pc[r] = "head"
    /\ ~AllPicked(r)
    /\ Goto(r, "sort")
    /\ sorting' = [sorting EXCEPT ![r] = [NotSorting EXCEPT !.i = 2, !.j = 2]]
    /\ UNCHANGED <<shared, live, lap, done, index, todo, tested, asked, history>>

\* All rounds are done: the lap failed.  Balance clears testedIndexes.
LapFails(r) ==
    /\ pc[r] = "head"
    /\ AllPicked(r)
    /\ Goto(r, "backoff")
    /\ tested' = [tested EXCEPT ![r] = {}]
    /\ UNCHANGED <<shared, live, lap, done, sorting, index, todo, asked, history>>

\* Mutant of NextLap: one lap too many.
NextLapOneMore(r) ==
    /\ pc[r] = "backoff"
    /\ lap' = [lap EXCEPT ![r] = IF MaxRetries = 0 THEN 0 ELSE @ + 1]
    /\ Goto(r, IF lap[r] < MaxRetries \/ MaxRetries = 0 THEN "lap" ELSE "failed")
    /\ UNCHANGED <<shared, live, done, sorting, index, todo, tested, asked, history>>

\* The backoff passes and another lap begins, if the loop condition allows one.  If ctx
\* is done too, select takes either branch.
NextLap(r) ==
    /\ pc[r] = "backoff"
    /\ lap' = [lap EXCEPT ![r] = IF MaxRetries = 0 THEN 0 ELSE @ + 1]
    /\ Goto(r, IF lap[r] + 1 < MaxRetries \/ MaxRetries = 0 THEN "lap" ELSE "failed")
    /\ UNCHANGED <<shared, live, done, sorting, index, todo, tested, asked, history>>

\* ctx is done during the backoff.
CancelledWaiting(r) ==
    /\ pc[r] = "backoff" /\ ~live[r]
    /\ Goto(r, "failed")
    /\ UNCHANGED <<shared, live, lap, done, sorting, index, todo, tested, asked, history>>

-----------------------------------------------------------------------------
(* sort.Slice on the shared slice: the insertion sort it uses below twelve *)
(* elements, a swap being two reads and two writes that no lock protects.  *)

SortCompares(r) == LET s == sorting[r] IN
    /\ pc[r] = "sort" /\ s.i <= Len(order)
    /\ \/ /\ s.j > 1 /\ Less(s.j, s.j - 1)
          /\ Goto(r, "swap1")
          /\ sorting' = [sorting EXCEPT ![r].x = order[s.j - 1], ![r].y = order[s.j]]
       \/ /\ ~(s.j > 1 /\ Less(s.j, s.j - 1))
          /\ sorting' = [sorting EXCEPT ![r].i = s.i + 1, ![r].j = s.i + 1]
          /\ UNCHANGED pc
    /\ UNCHANGED <<shared, live, lap, done, index, todo, tested, asked, history>>

\* A write to the slice; the others' laps are disturbed by it.
WriteOrder(r, k, v) ==
    /\ order' = [order EXCEPT ![k] = v]
    /\ calm' = [q \in Requests |-> calm[q] /\ q = r]
    /\ UNCHANGED <<count, others, raced>>

SwapFirst(r) == LET s == sorting[r] IN
    /\ pc[r] = "swap1"
    /\ Goto(r, "swap2")
    /\ WriteOrder(r, s.j, s.x)
    /\ UNCHANGED <<live, lap, done, sorting, index, todo, tested, asked>>

SwapSecond(r) == LET s == sorting[r] IN
    /\ pc[r] = "swap2"
    /\ Goto(r, "sort")
    /\ WriteOrder(r, s.j - 1, s.y)
    /\ sorting' = [sorting EXCEPT ![r] = [NotSorting EXCEPT !.i = s.i, !.j = s.j - 1]]
    /\ UNCHANGED <<live, lap, done, index, todo, tested, asked>>

\* The first index of the slice that is not done yet, or none.
FirstOpen(r) ==
    LET open == {k \in DOMAIN order : order[k] \notin done[r]} IN
    IF open = {} THEN NoIndex
    ELSE order[CHOOSE k \in open : \A l \in open : k <= l]

\* Mutant of PickIndex: the index is not marked as done.
PickIndexAgain(r) ==
    /\ pc[r] = "sort" /\ sorting[r].i > Len(order)
    /\ LET i == FirstOpen(r) IN
         /\ done' = done
         /\ \/ /\ i # NoIndex /\ SubUrls(r, i) # <<>>
               /\ Goto(r, "urls")
               /\ index' = [index EXCEPT ![r] = i]
               /\ todo' = [todo EXCEPT ![r] = SubUrls(r, i)]
            \/ /\ i = NoIndex \/ SubUrls(r, i) = <<>>
               /\ Goto(r, "head")
               /\ UNCHANGED <<index, todo>>
    /\ sorting' = [sorting EXCEPT ![r] = NotSorting]
    /\ UNCHANGED <<shared, live, lap, tested, asked, history>>

\* The sort has ended: pick an index.  One the stream has no URLs for is skipped.
PickIndex(r) ==
    /\ pc[r] = "sort" /\ sorting[r].i > Len(order)
    /\ LET i == FirstOpen(r) IN
         /\ done' = [done EXCEPT ![r] = @ \cup {i}]
         /\ \/ /\ i # NoIndex /\ SubUrls(r, i) # <<>>
               /\ Goto(r, "urls")
               /\ index' = [index EXCEPT ![r] = i]
               /\ todo' = [todo EXCEPT ![r] = SubUrls(r, i)]
            \/ /\ i = NoIndex \/ SubUrls(r, i) = <<>>
               /\ Goto(r, "head")
               /\ UNCHANGED <<index, todo>>
    /\ sorting' = [sorting EXCEPT ![r] = NotSorting]
    /\ UNCHANGED <<shared, live, lap, tested, asked, history>>

-----------------------------------------------------------------------------
(* tryStreamUrls.                                                          *)

Url(r) == <<index[r], Head(todo[r])>>
TakeUp(r) == asked' = [asked EXCEPT ![r] = @ \cup {Url(r)}]

\* The URL was not tested yet and its source has room.
Usable(r) == Url(r) \notin tested[r] /\ ~AtLimit(index[r])

\* The URL was tested before, or its source is at the limit: next one.
SkipUrl(r) ==
    /\ pc[r] = "urls" /\ todo[r] # <<>> /\ ~Usable(r)
    /\ todo' = [todo EXCEPT ![r] = Tail(@)]
    /\ TakeUp(r)
    /\ UNCHANGED <<shared, pc, live, lap, done, sorting, index, tested, history>>

\* The upstream is asked.
AskUpstream(r) ==
    /\ pc[r] = "urls" /\ todo[r] # <<>> /\ Usable(r)
    /\ Goto(r, "asking")
    /\ TakeUp(r)
    /\ raced' = [raced EXCEPT ![r] = FALSE]
    /\ UNCHANGED <<shared, live, lap, done, sorting, index, todo, tested, calm>>

\* The request fails, or the response is not 200: markTested, next one.
UpstreamFails(r) ==
    /\ pc[r] = "asking"
    /\ Goto(r, "urls")
    /\ tested' = [tested EXCEPT ![r] = @ \cup {Url(r)}]
    /\ todo' = [todo EXCEPT ![r] = Tail(@)]
    /\ UNCHANGED <<shared, live, lap, done, sorting, index, asked, history>>

\* 200: the result is returned through all loops, without another look at ctx.
UpstreamAnswers(r) ==
    /\ pc[r] = "asking"
    /\ Goto(r, "result")
    /\ UNCHANGED <<shared, live, lap, done, sorting, index, todo, tested, asked, history>>

\* All URLs of the index failed: tryAllStreams looks at ctx and goes on.
IndexFails(r) ==
    /\ pc[r] = "urls" /\ todo[r] = <<>>
    /\ Goto(r, IF live[r] THEN "head" ELSE "failed")
    /\ index' = [index EXCEPT ![r] = NoIndex]
    /\ UNCHANGED <<shared, live, lap, done, sorting, todo, tested, asked, history>>

-----------------------------------------------------------------------------
(* The use of the result.  A writer takes UpdateConcurrency up, then down. *)

\* The request found room at source i and has not counted its connection yet.
Pending(r, i) == pc[r] \in {"asking", "result"} /\ index[r] = i

UpdateConcurrency(i, incr) ==
    count' = [count EXCEPT ![i] = IF incr THEN @ + 1 ELSE IF @ > 0 THEN @ - 1 ELSE @]

StartWriter(r) ==
    /\ pc[r] = "result"
    /\ Goto(r, "streaming")
    /\ UpdateConcurrency(index[r], TRUE)
    /\ raced' = [q \in Requests |-> raced[q] \/ (Pending(q, index[r]) /\ q # r)]
    /\ UNCHANGED <<order, others, live, lap, done, sorting, index, todo, tested, asked, calm>>

\* Mutant of EndWriter: the connection is not given back.
EndWriterHolding(r) ==
    /\ pc[r] = "streaming"
    /\ Goto(r, "ended")
    /\ UNCHANGED <<shared, live, lap, done, sorting, index, todo, tested, asked, history>>

EndWriter(r) ==
    /\ pc[r] = "streaming"
    /\ Goto(r, "ended")
    /\ UpdateConcurrency(index[r], FALSE)
    /\ UNCHANGED <<order, others, live, lap, done, sorting, index, todo, tested, asked, history>>

\* A VOD (206, or a URL in .mp4), or a playlist whose URL is known as incompatible: the
\* handler of the request reads the connection itself, and nobody counts it.
StartDirect(r) ==
    /\ pc[r] = "result"
    /\ Goto(r, "direct")
    /\ UNCHANGED <<shared, live, lap, done, sorting, index, todo, tested, asked, history>>

EndDirect(r) ==
    /\ pc[r] = "direct"
    /\ Goto(r, "ended")
    /\ UNCHANGED <<shared, live, lap, done, sorting, index, todo, tested, asked, history>>

\* A stream that was there before ends.
OtherWriterEnds(i) ==
    /\ others[i] > 0
    /\ others' = [others EXCEPT ![i] = @ - 1]
    /\ UpdateConcurrency(i, FALSE)
    /\ UNCHANGED <<order, pc, live, lap, done, sorting, index, todo, tested, asked, history>>

-----------------------------------------------------------------------------
BalanceStep(r) ==
    \/ Fetch(r) \/ BeginLap(r) \/ BeginSort(r) \/ LapFails(r) \/ NextLap(r) \/ CancelledWaiting(r)
    \/ SortCompares(r) \/ SwapFirst(r) \/ SwapSecond(r) \/ PickIndex(r)
    \/ SkipUrl(r) \/ AskUpstream(r) \/ UpstreamFails(r) \/ UpstreamAnswers(r)
    \/ IndexFails(r)

Next ==
    \/ \E r \in Requests : Cancel(r) \/ BalanceStep(r)
    \/ \E r \in Requests : StartWriter(r) \/ EndWriter(r) \/ StartDirect(r) \/ EndDirect(r)
    \/ \E i \in Indexes : OtherWriterEnds(i)

\* The goroutine of a request is scheduled fairly and the backoff ends; that the
\* upstream request returns is an assumption on the network (HTTPClient has no timeout).
Spec == Init /\ [][Next]_vars /\ \A r \in Requests : WF_vars(BalanceStep(r))

-----------------------------------------------------------------------------
(* Properties.                                                             *)

\* Types of the load balancer's state.
LBTypeOK ==
    /\ count \in [Indexes -> Nat] /\ others \in [Indexes -> Nat]
    /\ order \in [DOMAIN IndexOrder -> Indexes]
    /\ pc \in [Requests -> {"start", "lap", "head", "sort", "swap1", "swap2", "urls", "asking",
                            "backoff", "result", "streaming", "direct", "ended", "failed"}]
    /\ live \in [Requests -> BOOLEAN]
    /\ \A r \in Requests : lap[r] \in 0 .. MaxRetries
    /\ done \in [Requests -> SUBSET (Indexes \cup {NoIndex})]
    /\ index \in [Requests -> Indexes \cup {NoIndex}]
    /\ \A r \in Requests : tested[r] \cup asked[r] \subseteq Urls(r)
    /\ calm \in [Requests -> BOOLEAN] /\ raced \in [Requests -> BOOLEAN]

\* The requests whose use of source i is one of uses.
Users(i, uses) == {r \in Requests : pc[r] \in uses /\ index[r] = i}

\* The count of a source is the number of writers that read from it, so it neither drifts
\* up until the source looks full for good, nor down.  It is not the number of connections
\* to the source: one that is used directly is held without being counted.
CountBalanced == \A i \in Indexes : count[i] = others[i] + Cardinality(Users(i, {"streaming"}))

Held(i) == others[i] + Cardinality(Users(i, {"streaming", "direct"}))
Excused(i) == {r \in Users(i, {"streaming", "direct"}) : pc[r] = "direct" \/ raced[r]}

\* A source holds more connections than its limit only by requests of two kinds, one
\* connection for each: those that are used directly, which no check of the limit ever
\* sees (so VODs that come one after another exceed it without overlap), and writers
\* whose own check was overtaken, another writer having started at the source between
\* their CheckConcurrency and their UpdateConcurrency.
LimitUnlessRaced == \A i \in Indexes : Held(i) <= Max[i] + Cardinality(Excused(i))

\* No URL is taken up twice in a lap, however the order of sources changes under it: a
\* server that refused once is not asked again before the backoff.
AskedOnce ==
    [][\A r \in Requests :
          pc[r] = "urls" /\ pc'[r] = "asking" => Url(r) \notin asked[r]]_vars

\* The slice still lists every source.
Intact == {order[k] : k \in DOMAIN order} = Indexes

\* A lap that fails has tried every URL of every source, unless the shared slice was
\* written by another request meanwhile or had lost a source before.
LapCoversIntact ==
    \A r \in Requests : pc[r] = "backoff" /\ calm[r] /\ Intact => asked[r] = Urls(r)

\* Every Balance ends, with a result or without, provided the slice does not lose a
\* source for good.
BalanceEnds ==
    MaxRetries > 0 /\ <>[]Intact =>
        \A r \in Requests : <>(pc[r] \in {"result", "streaming", "direct", "ended", "failed"})

=============================================================================
