------------------------ MODULE LoadBalancerProofs -------------------------
(***************************************************************************)
(* What requests that are balanced at once can rely on, for any number of  *)
(* requests, sources, URLs and retries.                                    *)
(*                                                                         *)
(* Three inductive invariants, all over the types and Placed, where a      *)
(* request is in its lap and in its sort, so that the positions it reads   *)
(* and writes are those of the slice:                                      *)
(*   LimitInv  the counts, and that a request which found room and was not *)
(*             overtaken still has it;                                     *)
(*   AskInv    what a request has asked for in its lap: every URL of the   *)
(*             indexes that are done (Taken), and the first ones of the    *)
(*             index being tried (Trying);                                 *)
(*   CoverInv  while nobody else wrote to the slice, a request's own swaps *)
(*             are under way or complete, so the slice loses no source and *)
(*             every round of the loop finds one (Settled).                *)
(* With CoverInv, every step of a Balance leaves it less to do.            *)
(***************************************************************************)
EXTENDS LoadBalancer, FiniteSetTheorems, TLAPS

N == Len(IndexOrder)
KeysOf(r, i) == {SubUrls(r, i)[k] : k \in DOMAIN SubUrls(r, i)}
Keys == UNION {UNION {KeysOf(r, i) : i \in Indexes} : r \in Requests}
Places == {"start", "lap", "head", "sort", "swap1", "swap2", "urls", "asking",
           "backoff", "result", "streaming", "direct", "ended", "failed"}
Sorts == [i : Nat, j : Nat, x : Indexes \cup {NoIndex}, y : Indexes \cup {NoIndex}]
Candidates == Indexes \X Keys

\* Types of the variables.
LBTypes ==
    /\ count \in [Indexes -> Nat] /\ others \in [Indexes -> Nat]
    /\ order \in [1 .. N -> Indexes]
    /\ pc \in [Requests -> Places] /\ live \in [Requests -> BOOLEAN]
    /\ lap \in [Requests -> Nat]
    /\ done \in [Requests -> SUBSET (Indexes \cup {NoIndex})]
    /\ sorting \in [Requests -> Sorts]
    /\ index \in [Requests -> Indexes \cup {NoIndex}]
    /\ todo \in [Requests -> Seq(Keys)]
    /\ tested \in [Requests -> SUBSET Candidates] /\ asked \in [Requests -> SUBSET Candidates]
    /\ calm \in [Requests -> BOOLEAN] /\ raced \in [Requests -> BOOLEAN]

\* A request is in one of its laps, and its sort inside the slice.
Placed(r) ==
    /\ pc[r] # "failed" => lap[r] = 0 \/ lap[r] < MaxRetries
    /\ lap[r] <= MaxRetries
    /\ pc[r] \in {"sort", "swap1", "swap2"} =>
          sorting[r].j >= 1 /\ sorting[r].j <= sorting[r].i
    /\ pc[r] \in {"swap1", "swap2"} =>
          /\ sorting[r].j \in 2 .. N /\ sorting[r].i <= N
          /\ sorting[r].x \in Indexes /\ sorting[r].y \in Indexes
    /\ pc[r] \in {"urls", "asking", "result", "streaming", "direct", "ended"} => index[r] \in Indexes
    /\ pc[r] \in {"asking", "result"} => todo[r] # <<>>

-----------------------------------------------------------------------------
\* The sources are finitely many, and the slice has a place for each.
LEMMA SliceLength ==
    /\ N \in Nat /\ DOMAIN IndexOrder = 1 .. N /\ IndexOrder \in [1 .. N -> Indexes]
    /\ IsFiniteSet(Indexes) /\ Cardinality(Indexes) = N
<1>1. N \in Nat /\ DOMAIN IndexOrder = 1 .. N /\ IndexOrder \in [1 .. N -> Indexes]
  BY IndexesListed DEF N
<1>2. IsFiniteSet(1 .. N)
  BY <1>1, FS_Interval
<1>3. {IndexOrder[k] : k \in 1 .. N} = Indexes
  BY <1>1, IndexesListed
<1>4. IndexOrder \in Surjection(1 .. N, Indexes)
  BY <1>1, <1>3 DEF Surjection
<1>5. IsFiniteSet(Indexes)
  BY <1>2, <1>4, FS_Surjection
<1> QED
  BY <1>1, <1>5, IndexesListed DEF N

\* The slice has as many elements as there are sources.
LEMMA OrderLength ==
    ASSUME LBTypes
    PROVE  Len(order) = N /\ DOMAIN order = 1 .. N
<1>1. N \in Nat /\ order \in [1 .. N -> Indexes]
  BY SliceLength DEF LBTypes
<1>2. order \in Seq(Indexes)
  BY <1>1
<1> QED
  BY <1>1, <1>2

\* So it has after a step.
LEMMA OrderLengthNext ==
    ASSUME LBTypes'
    PROVE  Len(order') = N
<1>1. N \in Nat /\ order' \in [1 .. N -> Indexes]
  BY SliceLength DEF LBTypes
<1>2. order' \in Seq(Indexes)
  BY <1>1
<1> QED
  BY <1>1, <1>2

\* The sub-URLs of a source for a request are distinct.
LEMMA SubUrlsDistinct ==
    ASSUME NEW r \in Requests, NEW i \in Indexes
    PROVE  /\ SubUrls(r, i) \in Seq(Keys)
           /\ \A k, l \in 1 .. Len(SubUrls(r, i)) : SubUrls(r, i)[k] = SubUrls(r, i)[l] => k = l
<1> DEFINE q == SubUrls(r, i)
<1>1. /\ q \in Seq({q[k] : k \in DOMAIN q})
      /\ \A k, l \in DOMAIN q : q[k] = q[l] => k = l
  BY SubUrlsAreKeys
<1>2. {q[k] : k \in DOMAIN q} \subseteq Keys
  <2>1. KeysOf(r, i) \subseteq UNION {KeysOf(r, l) : l \in Indexes}
    OBVIOUS
  <2>2. UNION {KeysOf(r, l) : l \in Indexes} \subseteq Keys
    BY DEF Keys
  <2> QED
    BY <2>1, <2>2 DEF KeysOf
<1> HIDE DEF q
<1>3. q \in Seq(Keys) /\ DOMAIN q = 1 .. Len(q)
  BY <1>1, <1>2
<1> QED
  BY <1>1, <1>3 DEF q

\* No request has begun initially.
LEMMA TypesInit == Init => LBTypes /\ \A r \in Requests : Placed(r)
<1> SUFFICES ASSUME Init PROVE LBTypes /\ \A r \in Requests : Placed(r)
  OBVIOUS
<1>1. count \in [Indexes -> Nat] /\ others \in [Indexes -> Nat]
  BY OthersNatural DEF Init
<1>2. order \in [1 .. N -> Indexes]
  BY SliceLength DEF Init
<1>3. NotSorting \in Sorts /\ <<>> \in Seq(Keys)
  BY DEF NotSorting, Sorts
<1>4. sorting \in [Requests -> Sorts] /\ todo \in [Requests -> Seq(Keys)]
  BY <1>3 DEF Init
<1>5. LBTypes
  BY <1>1, <1>2, <1>4 DEF Init, LBTypes, Places
<1> QED
  BY <1>5, RetriesNatural DEF Init, Placed

\* UpdateConcurrency counts one connection more or, if there is one, one less.
LEMMA Counts ==
    ASSUME LBTypes, NEW i \in Indexes
    PROVE  /\ UpdateConcurrency(i, TRUE) =>
                /\ count' \in [Indexes -> Nat] /\ count'[i] = count[i] + 1
                /\ \A j \in Indexes : j # i => count'[j] = count[j]
           /\ UpdateConcurrency(i, FALSE) =>
                /\ count' \in [Indexes -> Nat]
                /\ count'[i] = IF count[i] > 0 THEN count[i] - 1 ELSE count[i]
                /\ \A j \in Indexes : j # i => count'[j] = count[j]
<1>1. count \in [Indexes -> Nat] /\ count[i] \in Nat
  BY DEF LBTypes
<1>2. UpdateConcurrency(i, TRUE) => count' = [count EXCEPT ![i] = count[i] + 1]
  BY DEF UpdateConcurrency
<1>3. UpdateConcurrency(i, FALSE) =>
         count' = [count EXCEPT ![i] = IF count[i] > 0 THEN count[i] - 1 ELSE count[i]]
  BY DEF UpdateConcurrency
<1>4. (IF count[i] > 0 THEN count[i] - 1 ELSE count[i]) \in Nat /\ count[i] + 1 \in Nat
  BY <1>1
<1> QED
  BY <1>1, <1>2, <1>3, <1>4

\* Moving a sort and noting what it swaps.
LEMMA SortsMove ==
    ASSUME NEW s \in Sorts, NEW i \in Nat, NEW j \in Nat
    PROVE  [s EXCEPT !.i = i, !.j = j] \in Sorts /\ [NotSorting EXCEPT !.i = i, !.j = j] \in Sorts
BY DEF Sorts, NotSorting

\* A non-empty set of positions has a first one.
LEMMA FirstPosition ==
    ASSUME NEW S \in SUBSET Nat, S # {}
    PROVE  \E k \in S : \A l \in S : k <= l
<1>1. PICK k \in S : \A l \in S : ~(<<l, k>> \in OpToRel(<, Nat))
  BY NatLessThanWellFounded, WFMin
<1>2. \A l \in S : ~(l < k)
  BY <1>1 DEF OpToRel
<1> QED
  BY <1>2

\* The index that is picked is listed in the slice and was not done in this lap.
LEMMA PickedOpen ==
    ASSUME LBTypes, NEW r \in Requests
    PROVE  \/ FirstOpen(r) \in Indexes \ done[r] /\ \E k \in DOMAIN order : order[k] = FirstOpen(r)
           \/ FirstOpen(r) = NoIndex /\ \A k \in DOMAIN order : order[k] \in done[r]
<1> DEFINE open == {k \in DOMAIN order : order[k] \notin done[r]}
<1>1. order \in [1 .. N -> Indexes] /\ DOMAIN order = 1 .. N /\ N \in Nat
  BY OrderLength, SliceLength DEF LBTypes
<1>2. CASE open = {}
  BY <1>2 DEF FirstOpen
<1>3. CASE open # {}
  <2> DEFINE first == CHOOSE k \in open : \A l \in open : k <= l
  <2>1. open \in SUBSET Nat
    BY <1>1
  <2>2. \E k \in open : \A l \in open : k <= l
    BY <1>3, <2>1, FirstPosition
  <2>3. first \in open
    BY <2>2
  <2>4. FirstOpen(r) = order[first]
    BY <1>3 DEF FirstOpen
  <2> HIDE DEF first
  <2> QED
    BY <1>1, <2>3, <2>4
<1> QED
  BY <1>2, <1>3

-----------------------------------------------------------------------------
\* The types are kept.
LEMMA TypesInv ==
    ASSUME LBTypes, \A r \in Requests : Placed(r), [Next]_vars
    PROVE  LBTypes'
<1> USE DEF shared, history, Goto
<1>0. /\ count \in [Indexes -> Nat] /\ others \in [Indexes -> Nat]
      /\ order \in [1 .. N -> Indexes]
      /\ pc \in [Requests -> Places] /\ live \in [Requests -> BOOLEAN]
      /\ lap \in [Requests -> Nat]
      /\ done \in [Requests -> SUBSET (Indexes \cup {NoIndex})]
      /\ sorting \in [Requests -> Sorts]
      /\ index \in [Requests -> Indexes \cup {NoIndex}]
      /\ todo \in [Requests -> Seq(Keys)]
      /\ tested \in [Requests -> SUBSET Candidates] /\ asked \in [Requests -> SUBSET Candidates]
      /\ calm \in [Requests -> BOOLEAN] /\ raced \in [Requests -> BOOLEAN]
  BY DEF LBTypes
<1>p. {"start", "lap", "head", "sort", "swap1", "swap2", "urls", "asking",
       "backoff", "result", "streaming", "direct", "ended", "failed"} = Places
  BY DEF Places
<1>n. DOMAIN order = 1 .. N /\ Len(order) = N /\ N \in Nat
  BY OrderLength, SliceLength
<1>1. CASE UNCHANGED vars
  BY <1>1 DEF vars, LBTypes
<1>2. ASSUME NEW r \in Requests, NEW p \in Places, pc' = [pc EXCEPT ![r] = p] PROVE pc' \in [Requests -> Places]
  BY <1>0, <1>2
<1>3. ASSUME NEW r \in Requests, Cancel(r) PROVE LBTypes'
  BY <1>0, <1>3 DEF Cancel, LBTypes
<1>4. ASSUME NEW r \in Requests, Fetch(r) \/ CancelledWaiting(r) \/ UpstreamAnswers(r) PROVE LBTypes'
  <2>1. \E p \in Places : pc' = [pc EXCEPT ![r] = p]
    BY <1>4, <1>p DEF Fetch, CancelledWaiting, UpstreamAnswers
  <2>2. pc' \in [Requests -> Places]
    BY <1>2, <2>1
  <2> QED
    BY <1>0, <1>4, <2>2 DEF Fetch, CancelledWaiting, UpstreamAnswers, LBTypes
<1>5. ASSUME NEW r \in Requests, BeginLap(r) PROVE LBTypes'
  <2>1. \E p \in Places : pc' = [pc EXCEPT ![r] = p]
    BY <1>5, <1>p DEF BeginLap
  <2>2. pc' \in [Requests -> Places]
    BY <1>2, <2>1
  <2>3. calm' \in [Requests -> BOOLEAN]
    <3>1. (\A q \in Requests : pc[q] # "swap2") \in BOOLEAN
      OBVIOUS
    <3>2. PICK b \in BOOLEAN : calm' = [calm EXCEPT ![r] = b]
      BY <1>5, <3>1 DEF BeginLap
    <3> QED
      BY <1>0, <3>2
  <2>4. {} \in SUBSET Candidates /\ {} \in SUBSET (Indexes \cup {NoIndex})
    OBVIOUS
  <2> QED
    BY <1>0, <1>5, <2>2, <2>3, <2>4 DEF BeginLap, LBTypes
<1>6. ASSUME NEW r \in Requests, BeginSort(r) PROVE LBTypes'
  <2>1. \E p \in Places : pc' = [pc EXCEPT ![r] = p]
    BY <1>6, <1>p DEF BeginSort
  <2>2. pc' \in [Requests -> Places]
    BY <1>2, <2>1
  <2>3. [NotSorting EXCEPT !.i = 2, !.j = 2] \in Sorts
    BY DEF NotSorting, Sorts
  <2> QED
    BY <1>0, <1>6, <2>2, <2>3 DEF BeginSort, LBTypes
<1>7. ASSUME NEW r \in Requests, LapFails(r) \/ NextLap(r) PROVE LBTypes'
  <2>1. \E p \in Places : pc' = [pc EXCEPT ![r] = p]
    BY <1>7, <1>p DEF LapFails, NextLap
  <2>2. pc' \in [Requests -> Places]
    BY <1>2, <2>1
  <2>3. {} \in SUBSET Candidates
    OBVIOUS
  <2>4. lap' = lap \/ \E n \in Nat : lap' = [lap EXCEPT ![r] = n]
    BY <1>0, <1>7 DEF LapFails, NextLap
  <2>5. lap' \in [Requests -> Nat]
    BY <1>0, <2>4
  <2> QED
    BY <1>0, <1>7, <2>2, <2>3, <2>5 DEF LapFails, NextLap, LBTypes
<1>8. ASSUME NEW r \in Requests, SortCompares(r) PROVE LBTypes'
  <2> DEFINE s == sorting[r]
  <2>0. s \in Sorts /\ s.i \in Nat /\ s.j \in Nat /\ s.j >= 1 /\ s.j <= s.i /\ s.i <= N
    BY <1>0, <1>8, <1>n DEF SortCompares, Placed, Sorts
  <2>1. CASE Goto(r, "swap1")
    <3>1. /\ pc' \in [Requests -> Places] /\ s.j > 1
          /\ sorting' = [sorting EXCEPT ![r] = [s EXCEPT !.x = order[s.j - 1], !.y = order[s.j]]]
      BY <1>0, <1>8, <1>p, <2>1 DEF SortCompares
    <3>2. order[s.j - 1] \in Indexes /\ order[s.j] \in Indexes
      BY <1>0, <1>n, <2>0, <3>1
    <3>3. [s EXCEPT !.x = order[s.j - 1], !.y = order[s.j]] \in Sorts
      BY <2>0, <3>2 DEF Sorts
    <3>4. sorting' \in [Requests -> Sorts]
      BY <1>0, <3>1, <3>3
    <3> QED
      BY <1>0, <1>8, <3>1, <3>4 DEF SortCompares, LBTypes
  <2>2. CASE pc' = pc
    <3>1. \/ sorting' = [sorting EXCEPT ![r] = [s EXCEPT !.i = s.i + 1, !.j = s.i + 1]]
          \/ Goto(r, "swap1")
      BY <1>8 DEF SortCompares
    <3>2. [s EXCEPT !.i = s.i + 1, !.j = s.i + 1] \in Sorts
      <4>1. s.i + 1 \in Nat
        BY <2>0
      <4> QED
        BY <2>0, <4>1, SortsMove
    <3>3. CASE sorting' = [sorting EXCEPT ![r] = [s EXCEPT !.i = s.i + 1, !.j = s.i + 1]]
      <4>1. sorting' \in [Requests -> Sorts]
        BY <1>0, <3>2, <3>3
      <4> QED
        BY <1>0, <1>8, <2>2, <4>1 DEF SortCompares, LBTypes
    <3> QED
      BY <2>1, <3>1, <3>3
  <2> QED
    BY <1>8, <2>1, <2>2 DEF SortCompares
<1>9. ASSUME NEW r \in Requests, SwapFirst(r) \/ SwapSecond(r) PROVE LBTypes'
  <2> DEFINE s == sorting[r]
  <2>0. s \in Sorts /\ s.i \in Nat /\ s.j \in 2 .. N /\ s.x \in Indexes /\ s.y \in Indexes
    BY <1>0, <1>9 DEF SwapFirst, SwapSecond, Placed, Sorts
  <2>1. \E p \in Places : pc' = [pc EXCEPT ![r] = p]
    BY <1>9, <1>p DEF SwapFirst, SwapSecond
  <2>2. pc' \in [Requests -> Places]
    BY <1>2, <2>1
  <2>3. \E k \in 1 .. N, v \in Indexes : order' = [order EXCEPT ![k] = v]
    BY <1>9, <1>n, <2>0 DEF SwapFirst, SwapSecond, WriteOrder
  <2>4. order' \in [1 .. N -> Indexes]
    BY <1>0, <2>3
  <2>5. [NotSorting EXCEPT !.i = s.i, !.j = s.j - 1] \in Sorts
    <3>1. s.j - 1 \in Nat
      BY <2>0
    <3> QED
      BY <2>0, <3>1, SortsMove
  <2>6. sorting' \in [Requests -> Sorts]
    BY <1>0, <1>9, <2>5 DEF SwapFirst, SwapSecond
  <2>7. calm' \in [Requests -> BOOLEAN]
    <3>1. calm' = [q \in Requests |-> calm[q] /\ q = r]
      BY <1>9 DEF SwapFirst, SwapSecond, WriteOrder
    <3> QED
      BY <3>1
  <2> QED
    BY <1>0, <1>9, <2>2, <2>4, <2>6, <2>7 DEF SwapFirst, SwapSecond, WriteOrder, LBTypes
<1>10. ASSUME NEW r \in Requests, PickIndex(r) PROVE LBTypes'
  <2> DEFINE i == FirstOpen(r)
  <2>1. /\ done' = [done EXCEPT ![r] = done[r] \cup {i}]
        /\ sorting' = [sorting EXCEPT ![r] = NotSorting]
        /\ \/ /\ i # NoIndex /\ SubUrls(r, i) # <<>> /\ pc' = [pc EXCEPT ![r] = "urls"]
              /\ index' = [index EXCEPT ![r] = i] /\ todo' = [todo EXCEPT ![r] = SubUrls(r, i)]
           \/ /\ pc' = [pc EXCEPT ![r] = "head"] /\ UNCHANGED <<index, todo>>
        /\ UNCHANGED <<shared, live, lap, tested, asked, history>>
    BY <1>10 DEF PickIndex
  <2>2. i \in Indexes \cup {NoIndex}
    BY <1>n, PickedOpen
  <2> HIDE DEF i
  <2>3. pc' \in [Requests -> Places]
    BY <1>0, <1>p, <2>1
  <2>4. NotSorting \in Sorts
    BY DEF NotSorting, Sorts
  <2>5. sorting' \in [Requests -> Sorts]
    BY <1>0, <2>1, <2>4
  <2>6. i # NoIndex => SubUrls(r, i) \in Seq(Keys)
    BY <2>2, SubUrlsDistinct
  <2>7. index' \in [Requests -> Indexes \cup {NoIndex}] /\ todo' \in [Requests -> Seq(Keys)]
    <3>1. CASE UNCHANGED <<index, todo>>
      BY <1>0, <3>1
    <3>2. CASE /\ i # NoIndex /\ index' = [index EXCEPT ![r] = i]
               /\ todo' = [todo EXCEPT ![r] = SubUrls(r, i)]
      <4>1. index' \in [Requests -> Indexes \cup {NoIndex}]
        BY <1>0, <2>2, <3>2
      <4>2. PICK q \in Seq(Keys) : q = SubUrls(r, i)
        BY <2>6, <3>2
      <4>3. todo' \in [Requests -> Seq(Keys)]
        BY <1>0, <3>2, <4>2
      <4> QED
        BY <4>1, <4>3
    <3> QED
      BY <2>1, <3>1, <3>2
  <2>8. done' \in [Requests -> SUBSET (Indexes \cup {NoIndex})]
    BY <1>0, <2>1, <2>2
  <2> QED
    BY <1>0, <2>1, <2>3, <2>5, <2>7, <2>8 DEF LBTypes
<1>11. ASSUME NEW r \in Requests, SkipUrl(r) \/ AskUpstream(r) \/ UpstreamFails(r) PROVE LBTypes'
  <2>1. \E p \in Places : pc' = [pc EXCEPT ![r] = p]
    BY <1>0, <1>11, <1>p DEF SkipUrl, AskUpstream, UpstreamFails
  <2>2. pc' \in [Requests -> Places]
    BY <1>2, <2>1
  <2>3. todo[r] # <<>> /\ index[r] \in Indexes /\ todo[r] \in Seq(Keys)
    BY <1>0, <1>11 DEF SkipUrl, AskUpstream, UpstreamFails, Placed
  <2>4. Head(todo[r]) \in Keys /\ Tail(todo[r]) \in Seq(Keys)
    BY <2>3
  <2>5. Url(r) \in Candidates
    BY <2>3, <2>4 DEF Url, Candidates
  <2>6. todo' \in [Requests -> Seq(Keys)]
    <3>1. todo' = todo \/ todo' = [todo EXCEPT ![r] = Tail(todo[r])]
      BY <1>11 DEF SkipUrl, AskUpstream, UpstreamFails
    <3> QED
      BY <1>0, <2>4, <3>1
  <2>7. tested' \in [Requests -> SUBSET Candidates]
    <3>1. tested' = tested \/ tested' = [tested EXCEPT ![r] = tested[r] \cup {Url(r)}]
      BY <1>11 DEF SkipUrl, AskUpstream, UpstreamFails
    <3> QED
      BY <1>0, <2>5, <3>1
  <2>8. asked' \in [Requests -> SUBSET Candidates]
    <3>1. asked' = asked \/ asked' = [asked EXCEPT ![r] = asked[r] \cup {Url(r)}]
      BY <1>11 DEF SkipUrl, AskUpstream, UpstreamFails, TakeUp
    <3> QED
      BY <1>0, <2>5, <3>1
  <2> QED
    BY <1>0, <1>11, <2>2, <2>6, <2>7, <2>8 DEF SkipUrl, AskUpstream, UpstreamFails, LBTypes
<1>12. ASSUME NEW r \in Requests, IndexFails(r) PROVE LBTypes'
  <2>1. \E p \in Places : pc' = [pc EXCEPT ![r] = p]
    BY <1>12, <1>p DEF IndexFails
  <2>2. pc' \in [Requests -> Places]
    BY <1>2, <2>1
  <2> QED
    BY <1>0, <1>12, <2>2 DEF IndexFails, LBTypes
<1>14. ASSUME NEW r \in Requests, StartWriter(r) \/ EndWriter(r) \/ StartDirect(r) \/ EndDirect(r) PROVE LBTypes'
  <2>1. \E p \in Places : pc' = [pc EXCEPT ![r] = p]
    BY <1>14, <1>p DEF StartWriter, EndWriter, StartDirect, EndDirect
  <2>2. pc' \in [Requests -> Places]
    BY <1>2, <2>1
  <2>3. count' \in [Indexes -> Nat]
    <3>1. CASE StartWriter(r) \/ EndWriter(r)
      BY <3>1, Counts DEF StartWriter, EndWriter, Placed
    <3>2. CASE StartDirect(r) \/ EndDirect(r)
      BY <1>0, <3>2 DEF StartDirect, EndDirect
    <3> QED
      BY <1>14, <3>1, <3>2
  <2>4. raced' \in [Requests -> BOOLEAN]
    <3>1. CASE StartWriter(r)
      <4>1. raced' = [q \in Requests |-> raced[q] \/ (Pending(q, index[r]) /\ q # r)]
        BY <3>1 DEF StartWriter
      <4>2. \A q \in Requests : (raced[q] \/ (Pending(q, index[r]) /\ q # r)) \in BOOLEAN
        OBVIOUS
      <4> QED
        BY <4>1, <4>2
    <3>2. CASE EndWriter(r) \/ StartDirect(r) \/ EndDirect(r)
      BY <1>0, <3>2 DEF EndWriter, StartDirect, EndDirect
    <3> QED
      BY <1>14, <3>1, <3>2
  <2> QED
    BY <1>0, <1>14, <2>2, <2>3, <2>4 DEF StartWriter, EndWriter, StartDirect, EndDirect, LBTypes
<1>15. ASSUME NEW i \in Indexes, OtherWriterEnds(i) PROVE LBTypes'
  <2>1. count' \in [Indexes -> Nat]
    BY <1>15, Counts DEF OtherWriterEnds
  <2>2. others' \in [Indexes -> Nat]
    BY <1>0, <1>15 DEF OtherWriterEnds
  <2> QED
    BY <1>0, <1>15, <2>1, <2>2 DEF OtherWriterEnds, LBTypes
<1> QED
  BY <1>1, <1>3, <1>4, <1>5, <1>6, <1>7, <1>8, <1>9, <1>10, <1>11, <1>12, <1>14, <1>15 DEF Next, BalanceStep

\* A request stays in its laps and its sort inside the slice.
LEMMA PlacedInv ==
    ASSUME LBTypes, \A q \in Requests : Placed(q), [Next]_vars, NEW d \in Requests
    PROVE  Placed(d)'
<1> USE DEF shared, history, Goto
<1>0. /\ Placed(d) /\ order \in [1 .. N -> Indexes] /\ pc \in [Requests -> Places]
      /\ lap \in [Requests -> Nat] /\ sorting \in [Requests -> Sorts]
      /\ index \in [Requests -> Indexes \cup {NoIndex}] /\ todo \in [Requests -> Seq(Keys)]
  BY DEF LBTypes
<1>n. DOMAIN order = 1 .. N /\ Len(order) = N /\ N \in Nat /\ MaxRetries \in Nat
  BY OrderLength, SliceLength, RetriesNatural
<1>1. CASE UNCHANGED vars
  BY <1>0, <1>1 DEF vars, Placed
<1>2. ASSUME NEW r \in Requests, pc'[d] = pc[d], lap'[d] = lap[d], sorting'[d] = sorting[d],
             index'[d] = index[d], todo'[d] = todo[d]
      PROVE  Placed(d)'
  BY <1>0, <1>2 DEF Placed
<1>3. ASSUME NEW r \in Requests, Cancel(r) PROVE Placed(d)'
  BY <1>2, <1>3 DEF Cancel
<1>4. ASSUME NEW r \in Requests, r # d, BalanceStep(r) \/ StartWriter(r) \/ EndWriter(r) \/ StartDirect(r) \/ EndDirect(r) PROVE Placed(d)'
  <2>1. /\ pc'[d] = pc[d] /\ lap'[d] = lap[d] /\ sorting'[d] = sorting[d]
        /\ index'[d] = index[d] /\ todo'[d] = todo[d]
    BY <1>0, <1>4 DEF BalanceStep, StartWriter, EndWriter, StartDirect, EndDirect, Fetch, BeginLap, BeginSort, LapFails, NextLap,
         CancelledWaiting, SortCompares, SwapFirst, SwapSecond, PickIndex, SkipUrl, AskUpstream,
         UpstreamFails, UpstreamAnswers, IndexFails
  <2> QED
    BY <1>2, <2>1
<1>5. CASE Fetch(d) \/ BeginLap(d) \/ BeginSort(d) \/ LapFails(d) \/ CancelledWaiting(d)
  <2>1. CASE Fetch(d) \/ BeginLap(d) \/ LapFails(d) \/ CancelledWaiting(d)
    <3>1. /\ pc'[d] \in {"lap", "head", "backoff", "failed"} /\ pc[d] # "failed"
          /\ UNCHANGED <<lap, sorting, index, todo>>
      BY <1>0, <2>1 DEF Fetch, BeginLap, LapFails, CancelledWaiting
    <3> QED
      BY <1>0, <3>1 DEF Placed
  <2>2. CASE BeginSort(d)
    <3>1. /\ pc'[d] = "sort" /\ pc[d] = "head" /\ UNCHANGED <<lap, index, todo>>
          /\ sorting'[d] = [NotSorting EXCEPT !.i = 2, !.j = 2]
      BY <1>0, <2>2 DEF BeginSort
    <3>2. sorting'[d].i = 2 /\ sorting'[d].j = 2
      BY <3>1 DEF NotSorting
    <3> QED
      BY <1>0, <3>1, <3>2 DEF Placed
  <2> QED
    BY <1>5, <2>1, <2>2
<1>6. CASE NextLap(d)
  <2>1. pc[d] = "backoff" /\ pc' = [pc EXCEPT ![d] =
           IF lap[d] + 1 < MaxRetries \/ MaxRetries = 0 THEN "lap" ELSE "failed"]
        /\ lap'[d] = (IF MaxRetries = 0 THEN 0 ELSE lap[d] + 1) /\ lap[d] \in Nat
    BY <1>0, <1>6 DEF NextLap
  <2>2. lap[d] = 0 \/ lap[d] < MaxRetries
    BY <1>0, <2>1 DEF Placed
  <2>3. lap'[d] <= MaxRetries
    BY <1>n, <2>1, <2>2
  <2>4. /\ pc'[d] \in {"lap", "failed"}
        /\ pc'[d] # "failed" => lap'[d] = 0 \/ lap'[d] < MaxRetries
    BY <1>0, <1>n, <2>1
  <2> QED
    BY <2>3, <2>4 DEF Placed
<1>7. CASE SortCompares(d)
  <2> DEFINE s == sorting[d]
  <2>0. s \in Sorts /\ s.i \in Nat /\ s.j \in Nat /\ s.j >= 1 /\ s.j <= s.i /\ s.i <= N
    BY <1>0, <1>7, <1>n DEF SortCompares, Placed, Sorts
  <2>1. CASE pc' = [pc EXCEPT ![d] = "swap1"] /\ s.j > 1
             /\ sorting' = [sorting EXCEPT ![d].x = order[s.j - 1], ![d].y = order[s.j]]
    <3>1. order[s.j - 1] \in Indexes /\ order[s.j] \in Indexes /\ s.j \in 2 .. N
      BY <1>0, <1>n, <2>0, <2>1
    <3>2. /\ sorting'[d].x = order[s.j - 1] /\ sorting'[d].y = order[s.j]
          /\ sorting'[d].i = s.i /\ sorting'[d].j = s.j
      BY <1>0, <2>0, <2>1 DEF Sorts
    <3> QED
      BY <1>0, <1>7, <2>0, <2>1, <3>1, <3>2 DEF Placed, SortCompares
  <2>2. CASE pc' = pc /\ sorting' = [sorting EXCEPT ![d].i = s.i + 1, ![d].j = s.i + 1]
    <3>1. sorting'[d].i = s.i + 1 /\ sorting'[d].j = s.i + 1
      BY <1>0, <2>0, <2>2 DEF Sorts
    <3> QED
      BY <1>0, <1>7, <2>0, <2>2, <3>1 DEF Placed, SortCompares
  <2> QED
    BY <1>7, <2>1, <2>2 DEF SortCompares
<1>8. CASE SwapFirst(d)
  BY <1>0, <1>8 DEF SwapFirst, Placed
<1>9. CASE SwapSecond(d)
  <2>1. sorting'[d].j = sorting[d].j - 1 /\ sorting'[d].i = sorting[d].i /\ sorting[d].i \in Nat
    BY <1>0, <1>9 DEF SwapSecond, NotSorting, Sorts
  <2> QED
    BY <1>0, <1>9, <1>n, <2>1 DEF SwapSecond, Placed
<1>10. CASE PickIndex(d)
  <2> DEFINE i == FirstOpen(d)
  <2>1. /\ lap' = lap /\ pc[d] = "sort"
        /\ \/ i # NoIndex /\ pc' = [pc EXCEPT ![d] = "urls"] /\ index' = [index EXCEPT ![d] = i]
           \/ pc' = [pc EXCEPT ![d] = "head"]
    BY <1>10 DEF PickIndex
  <2>2. i \in Indexes \cup {NoIndex}
    BY PickedOpen
  <2> HIDE DEF i
  <2> QED
    BY <1>0, <2>1, <2>2 DEF Placed
<1>11. CASE SkipUrl(d) \/ AskUpstream(d) \/ UpstreamFails(d)
  BY <1>0, <1>11 DEF SkipUrl, AskUpstream, UpstreamFails, Placed
<1>12. CASE UpstreamAnswers(d) \/ IndexFails(d) \/ StartWriter(d) \/ EndWriter(d) \/ StartDirect(d) \/ EndDirect(d)
  BY <1>0, <1>12 DEF UpstreamAnswers, IndexFails, StartWriter, EndWriter, StartDirect, EndDirect, Placed
<1>13. ASSUME NEW i \in Indexes, OtherWriterEnds(i) PROVE Placed(d)'
  BY <1>2, <1>13 DEF OtherWriterEnds
<1> QED
  BY <1>1, <1>3, <1>4, <1>5, <1>6, <1>7, <1>8, <1>9, <1>10, <1>11, <1>12, <1>13 DEF Next, BalanceStep

-----------------------------------------------------------------------------
(* Counts and limits.                                                      *)

Streaming(i) == {r \in Requests : pc[r] = "streaming" /\ index[r] = i}
Direct(i) == {r \in Requests : pc[r] = "direct" /\ index[r] = i}
Overtakers(i) == {r \in Requests : pc[r] = "streaming" /\ index[r] = i /\ raced[r]}

\* The count of a source, and how far it can go over the limit.
Limited(i) ==
    /\ IsFiniteSet(Streaming(i)) /\ count[i] = others[i] + Cardinality(Streaming(i))
    /\ count[i] <= Max[i] + Cardinality(Overtakers(i))
    /\ IsFiniteSet(Direct(i))

\* A request that found room and was not overtaken still has it.
Room(r) == pc[r] \in {"asking", "result"} /\ ~raced[r] => count[index[r]] < Max[index[r]]

LimitInv ==
    /\ LBTypes /\ \A r \in Requests : Placed(r)
    /\ \A i \in Indexes : Limited(i)
    /\ \A r \in Requests : Room(r)

\* Only connections of other streams are counted initially.
LEMMA LimitInit == Init => LimitInv
<1> SUFFICES ASSUME Init PROVE LimitInv
  OBVIOUS
<1>1. LBTypes /\ \A r \in Requests : Placed(r)
  BY TypesInit
<1>2. \A r \in Requests : Room(r)
  BY DEF Init, Room
<1>3. ASSUME NEW i \in Indexes PROVE Limited(i)
  <2>1. Streaming(i) = {} /\ Overtakers(i) = {} /\ Direct(i) = {}
    BY DEF Init, Streaming, Overtakers, Direct
  <2>2. count[i] = others[i] /\ count[i] <= Max[i] /\ count[i] \in Nat /\ Max[i] \in Nat
    BY <1>1, MaxPositive DEF Init, LBTypes
  <2> QED
    BY <2>1, <2>2, FS_EmptySet DEF Limited
<1> QED
  BY <1>1, <1>2, <1>3 DEF LimitInv

\* Steps that neither count a connection nor begin or end the use of a result.
LEMMA LimitStays ==
    ASSUME LimitInv, UNCHANGED <<count, others>>,
           \A r \in Requests : pc[r] \in {"streaming", "direct"} \/ pc'[r] \in {"streaming", "direct"} =>
              pc'[r] = pc[r] /\ index'[r] = index[r] /\ raced'[r] = raced[r]
    PROVE  \A i \in Indexes : Limited(i)'
<1> SUFFICES ASSUME NEW i \in Indexes PROVE Limited(i)'
  OBVIOUS
<1>1. Streaming(i)' = Streaming(i) /\ Overtakers(i)' = Overtakers(i) /\ Direct(i)' = Direct(i)
  BY DEF Streaming, Overtakers, Direct
<1> QED
  BY <1>1 DEF Limited, LimitInv

\* Steps of the loops over sources and URLs.
LEMMA LimitBalance ==
    ASSUME LimitInv, NEW r \in Requests, BalanceStep(r)
    PROVE  (\A i \in Indexes : Limited(i)') /\ \A q \in Requests : Room(q)'
<1> USE DEF shared, history, Goto
<1>0. /\ pc \in [Requests -> Places] /\ index \in [Requests -> Indexes \cup {NoIndex}]
      /\ raced \in [Requests -> BOOLEAN]
  BY DEF LimitInv, LBTypes
<1>1. UNCHANGED <<count, others>>
  BY DEF BalanceStep, Fetch, BeginLap, BeginSort, LapFails, NextLap, CancelledWaiting, SortCompares,
     SwapFirst, SwapSecond, WriteOrder, PickIndex, SkipUrl, AskUpstream, UpstreamFails, UpstreamAnswers,
     IndexFails
<1>2. pc[r] \notin {"streaming", "direct"} /\ pc'[r] \notin {"streaming", "direct"}
  BY <1>0 DEF BalanceStep, Fetch, BeginLap, BeginSort, LapFails, NextLap, CancelledWaiting, SortCompares,
     SwapFirst, SwapSecond, PickIndex, SkipUrl, AskUpstream, UpstreamFails, UpstreamAnswers, IndexFails
<1>3. \A q \in Requests : q # r => pc'[q] = pc[q] /\ index'[q] = index[q] /\ raced'[q] = raced[q]
  BY <1>0 DEF BalanceStep, Fetch, BeginLap, BeginSort, LapFails, NextLap, CancelledWaiting, SortCompares,
     SwapFirst, SwapSecond, WriteOrder, PickIndex, SkipUrl, AskUpstream, UpstreamFails, UpstreamAnswers,
     IndexFails
<1>4. \A i \in Indexes : Limited(i)'
  BY <1>1, <1>2, <1>3, LimitStays
<1>5. \A q \in Requests : q # r => Room(q)'
  BY <1>1, <1>3 DEF LimitInv, Room
<1>6. Room(r)'
  <2>1. CASE AskUpstream(r)
    <3>1. ~AtLimit(index[r]) /\ index' = index /\ index[r] \in Indexes
      BY <2>1 DEF AskUpstream, Usable, LimitInv, Placed
    <3>2. count[index[r]] \in Nat /\ Max[index[r]] \in Nat
      BY <3>1, MaxPositive DEF LimitInv, LBTypes
    <3> QED
      BY <1>1, <3>1, <3>2 DEF Room, AtLimit
  <2>2. CASE UpstreamAnswers(r)
    BY <1>1, <2>2 DEF UpstreamAnswers, LimitInv, Room
  <2>3. CASE ~AskUpstream(r) /\ ~UpstreamAnswers(r)
    <3>1. pc'[r] \notin {"asking", "result"}
      BY <1>0, <2>3 DEF BalanceStep, Fetch, BeginLap, BeginSort, LapFails, NextLap, CancelledWaiting,
         SortCompares, SwapFirst, SwapSecond, PickIndex, SkipUrl, UpstreamFails, IndexFails
    <3> QED
      BY <3>1 DEF Room
  <2> QED
    BY <2>1, <2>2, <2>3
<1> QED
  BY <1>4, <1>5, <1>6

\* A writer counts its connection: within the limit, unless it was overtaken.
LEMMA LimitStart ==
    ASSUME LimitInv, NEW r \in Requests, StartWriter(r)
    PROVE  (\A i \in Indexes : Limited(i)') /\ \A q \in Requests : Room(q)'
<1>0. LBTypes /\ Placed(r) /\ Room(r) /\ \A i \in Indexes : Limited(i)
  BY DEF LimitInv
<1>1. PICK n \in Indexes : n = index[r] /\ pc[r] = "result"
  BY <1>0 DEF StartWriter, Placed
<1>2. /\ count'[n] = count[n] + 1 /\ \A i \in Indexes : i # n => count'[i] = count[i]
      /\ pc'[r] = "streaming" /\ \A q \in Requests : q # r => pc'[q] = pc[q]
      /\ index' = index /\ others' = others
  BY <1>0, <1>1, Counts DEF StartWriter, Goto, LBTypes
<1>3. /\ raced'[r] = raced[r]
      /\ \A q \in Requests : pc[q] = "streaming" => raced'[q] = raced[q]
      /\ \A q \in Requests : q # r /\ pc[q] \in {"asking", "result"} =>
            raced'[q] = (raced[q] \/ index[q] = n)
  <2>1. \A q \in Requests : raced'[q] = (raced[q] \/ (Pending(q, n) /\ q # r))
    BY <1>1 DEF StartWriter
  <2>2. raced \in [Requests -> BOOLEAN]
    BY <1>0 DEF LBTypes
  <2>3. \A q \in Requests : pc[q] = "streaming" => ~Pending(q, n)
    BY DEF Pending
  <2>4. \A q \in Requests : pc[q] \in {"asking", "result"} => (Pending(q, n) <=> index[q] = n)
    BY DEF Pending
  <2> QED
    BY <2>1, <2>2, <2>3, <2>4
<1>4. \A q \in Requests : Room(q)'
  <2> SUFFICES ASSUME NEW q \in Requests, pc'[q] \in {"asking", "result"}, ~raced'[q]
               PROVE  count'[index[q]] < Max[index[q]]
    BY <1>2 DEF Room
  <2>1. q # r /\ pc'[q] = pc[q]
    BY <1>2
  <2>2. ~raced[q] /\ index[q] # n
    BY <1>3, <2>1
  <2>3. index[q] \in Indexes
    BY <2>1 DEF LimitInv, Placed
  <2> QED
    BY <1>2, <2>1, <2>2, <2>3 DEF LimitInv, Room
<1>d. \A i \in Indexes : Direct(i)' = Direct(i)
  BY <1>1, <1>2 DEF Direct
<1>5. ASSUME NEW i \in Indexes, i # n PROVE Limited(i)'
  <2>1. Streaming(i)' = Streaming(i)
    BY <1>1, <1>2, <1>5 DEF Streaming
  <2>2. Overtakers(i)' = Overtakers(i)
    BY <1>1, <1>2, <1>3, <1>5 DEF Overtakers
  <2> QED
    BY <1>0, <1>2, <1>d, <1>5, <2>1, <2>2 DEF Limited
<1>6. Limited(n)'
  <2>1. Streaming(n)' = Streaming(n) \cup {r} /\ r \notin Streaming(n)
    BY <1>1, <1>2 DEF Streaming
  <2>2. r \notin Overtakers(n) /\ Overtakers(n)' = IF raced[r] THEN Overtakers(n) \cup {r} ELSE Overtakers(n)
    BY <1>1, <1>2, <1>3 DEF Overtakers
  <2>3. IsFiniteSet(Streaming(n)) /\ IsFiniteSet(Overtakers(n))
    <3>1. Overtakers(n) \in SUBSET Streaming(n)
      BY DEF Overtakers, Streaming
    <3> QED
      BY <1>0, <3>1, FS_Subset DEF Limited
  <2>4. /\ IsFiniteSet(Streaming(n)') /\ Cardinality(Streaming(n)') = Cardinality(Streaming(n)) + 1
    BY <2>1, <2>3, FS_AddElement
  <2>5. Cardinality(Overtakers(n)') = IF raced[r] THEN Cardinality(Overtakers(n)) + 1
                                                 ELSE Cardinality(Overtakers(n))
    BY <2>2, <2>3, FS_AddElement
  <2>6. /\ Cardinality(Overtakers(n)) \in Nat /\ Cardinality(Streaming(n)) \in Nat
        /\ count[n] \in Nat /\ others[n] \in Nat /\ Max[n] \in Nat
    BY <1>0, <2>3, FS_CardinalityType, MaxPositive DEF LBTypes
  <2>7. ~raced[r] => count[n] < Max[n]
    BY <1>0, <1>1 DEF Room
  <2>8. count'[n] = others[n] + Cardinality(Streaming(n)')
    BY <1>0, <1>2, <2>4, <2>6 DEF Limited
  <2>9. count'[n] <= Max[n] + Cardinality(Overtakers(n)')
    BY <1>0, <1>2, <2>5, <2>6, <2>7 DEF Limited
  <2> QED
    BY <1>0, <1>2, <1>d, <2>4, <2>8, <2>9 DEF Limited
<1> QED
  BY <1>4, <1>5, <1>6

\* A writer gives its connection back.
LEMMA LimitEnd ==
    ASSUME LimitInv, NEW r \in Requests, EndWriter(r)
    PROVE  (\A i \in Indexes : Limited(i)') /\ \A q \in Requests : Room(q)'
<1>0. LBTypes /\ Placed(r) /\ \A i \in Indexes : Limited(i)
  BY DEF LimitInv
<1>1. PICK n \in Indexes : n = index[r] /\ pc[r] = "streaming"
  BY <1>0 DEF EndWriter, Placed
<1>2. /\ count'[n] = IF count[n] > 0 THEN count[n] - 1 ELSE count[n]
      /\ \A i \in Indexes : i # n => count'[i] = count[i]
      /\ pc'[r] = "ended" /\ \A q \in Requests : q # r => pc'[q] = pc[q]
      /\ UNCHANGED <<index, others, raced>>
  BY <1>0, <1>1, Counts DEF EndWriter, Goto, LBTypes, history
<1>3. \A i \in Indexes : count[i] \in Nat /\ count'[i] <= count[i] /\ count'[i] \in Nat
  <2> SUFFICES ASSUME NEW i \in Indexes
               PROVE  count[i] \in Nat /\ count'[i] <= count[i] /\ count'[i] \in Nat
    OBVIOUS
  <2>1. count[i] \in Nat
    BY <1>0 DEF LBTypes
  <2>2. count'[i] = count[i] \/ (count[i] > 0 /\ count'[i] = count[i] - 1)
    BY <1>2
  <2> QED
    BY <2>1, <2>2
<1>4. \A q \in Requests : Room(q)'
  <2> SUFFICES ASSUME NEW q \in Requests, pc'[q] \in {"asking", "result"}, ~raced[q]
               PROVE  count'[index[q]] < Max[index[q]]
    BY <1>2 DEF Room
  <2>1. pc'[q] = pc[q] /\ index[q] \in Indexes
    BY <1>2 DEF LimitInv, Placed
  <2>2. count[index[q]] < Max[index[q]] /\ Max[index[q]] \in Nat
    BY <2>1, MaxPositive DEF LimitInv, Room
  <2> QED
    BY <1>3, <2>1, <2>2
<1>d. \A i \in Indexes : Direct(i)' = Direct(i)
  BY <1>1, <1>2 DEF Direct
<1>5. ASSUME NEW i \in Indexes, i # n PROVE Limited(i)'
  <2>1. Streaming(i)' = Streaming(i) /\ Overtakers(i)' = Overtakers(i)
    BY <1>1, <1>2, <1>5 DEF Streaming, Overtakers
  <2> QED
    BY <1>0, <1>2, <1>d, <1>5, <2>1 DEF Limited
<1>6. Limited(n)'
  <2>1. Streaming(n)' = Streaming(n) \ {r} /\ r \in Streaming(n)
    BY <1>1, <1>2 DEF Streaming
  <2>2. Overtakers(n)' = Overtakers(n) \ {r}
    BY <1>1, <1>2 DEF Overtakers
  <2>3. IsFiniteSet(Streaming(n)) /\ IsFiniteSet(Overtakers(n))
    <3>1. Overtakers(n) \in SUBSET Streaming(n)
      BY DEF Overtakers, Streaming
    <3> QED
      BY <1>0, <3>1, FS_Subset DEF Limited
  <2>4. IsFiniteSet(Streaming(n)') /\ Cardinality(Streaming(n)') = Cardinality(Streaming(n)) - 1
    BY <2>1, <2>3, FS_RemoveElement
  <2>5. Cardinality(Overtakers(n)') \in {Cardinality(Overtakers(n)), Cardinality(Overtakers(n)) - 1}
    BY <2>2, <2>3, FS_RemoveElement
  <2>6. /\ Cardinality(Overtakers(n)) \in Nat /\ Cardinality(Streaming(n)) \in Nat
        /\ Cardinality(Streaming(n)') \in Nat /\ others[n] \in Nat /\ Max[n] \in Nat
    BY <1>0, <2>3, <2>4, FS_CardinalityType, MaxPositive DEF LBTypes
  <2>7. count[n] = others[n] + Cardinality(Streaming(n)) /\ count[n] <= Max[n] + Cardinality(Overtakers(n))
    BY <1>0 DEF Limited
  <2>8. count[n] > 0 /\ count'[n] = count[n] - 1
    BY <1>2, <2>4, <2>6, <2>7
  <2>9. /\ count'[n] = others[n] + Cardinality(Streaming(n)')
        /\ count'[n] <= Max[n] + Cardinality(Overtakers(n)')
    BY <2>4, <2>5, <2>6, <2>7, <2>8
  <2> QED
    BY <1>0, <1>2, <1>d, <2>4, <2>9 DEF Limited
<1> QED
  BY <1>4, <1>5, <1>6

\* A result is used directly, or was: no count changes.
LEMMA LimitDirect ==
    ASSUME LimitInv, NEW r \in Requests, StartDirect(r) \/ EndDirect(r)
    PROVE  (\A i \in Indexes : Limited(i)') /\ \A q \in Requests : Room(q)'
<1>0. LBTypes /\ \A i \in Indexes : Limited(i)
  BY DEF LimitInv
<1>1. /\ pc[r] \in {"result", "direct"} /\ pc'[r] \in {"direct", "ended"}
      /\ \A q \in Requests : q # r => pc'[q] = pc[q]
      /\ UNCHANGED <<count, others, index, raced>>
  BY <1>0 DEF LBTypes, StartDirect, EndDirect, Goto, shared, history
<1>2. \A q \in Requests : Room(q)'
  BY <1>1 DEF LimitInv, Room
<1>3. ASSUME NEW i \in Indexes PROVE Limited(i)'
  <2>1. Streaming(i)' = Streaming(i) /\ Overtakers(i)' = Overtakers(i)
    BY <1>1 DEF Streaming, Overtakers
  <2>2. IsFiniteSet(Direct(i)')
    <3>1. Direct(i)' \in SUBSET (Direct(i) \cup {r})
      BY <1>1 DEF Direct
    <3>2. IsFiniteSet(Direct(i) \cup {r})
      BY <1>0, FS_AddElement DEF Limited
    <3> QED
      BY <3>1, <3>2, FS_Subset
  <2> QED
    BY <1>0, <1>1, <2>1, <2>2 DEF Limited
<1> QED
  BY <1>2, <1>3

\* A stream that was there before gives its connection back.
LEMMA LimitOther ==
    ASSUME LimitInv, NEW n \in Indexes, OtherWriterEnds(n)
    PROVE  (\A i \in Indexes : Limited(i)') /\ \A q \in Requests : Room(q)'
<1>0. LBTypes /\ \A i \in Indexes : Limited(i)
  BY DEF LimitInv
<1>1. /\ count'[n] = IF count[n] > 0 THEN count[n] - 1 ELSE count[n]
      /\ \A i \in Indexes : i # n => count'[i] = count[i] /\ others'[i] = others[i]
      /\ others[n] > 0 /\ others'[n] = others[n] - 1
      /\ UNCHANGED <<pc, index, raced>>
  BY <1>0, Counts DEF OtherWriterEnds, LBTypes, history
<1>2. \A i \in Indexes : count[i] \in Nat /\ count'[i] <= count[i] /\ count'[i] \in Nat
  <2> SUFFICES ASSUME NEW i \in Indexes
               PROVE  count[i] \in Nat /\ count'[i] <= count[i] /\ count'[i] \in Nat
    OBVIOUS
  <2>1. count[i] \in Nat
    BY <1>0 DEF LBTypes
  <2>2. count'[i] = count[i] \/ (count[i] > 0 /\ count'[i] = count[i] - 1)
    BY <1>1
  <2> QED
    BY <2>1, <2>2
<1>3. \A q \in Requests : Room(q)'
  <2> SUFFICES ASSUME NEW q \in Requests, pc[q] \in {"asking", "result"}, ~raced[q]
               PROVE  count'[index[q]] < Max[index[q]]
    BY <1>1 DEF Room
  <2>1. index[q] \in Indexes
    BY DEF LimitInv, Placed
  <2>2. count[index[q]] < Max[index[q]] /\ Max[index[q]] \in Nat
    BY <2>1, MaxPositive DEF LimitInv, Room
  <2> QED
    BY <1>2, <2>1, <2>2
<1>4. ASSUME NEW i \in Indexes PROVE Limited(i)'
  <2>1. Streaming(i)' = Streaming(i) /\ Overtakers(i)' = Overtakers(i) /\ Direct(i)' = Direct(i)
    BY <1>1 DEF Streaming, Overtakers, Direct
  <2>2. CASE i # n
    BY <1>0, <1>1, <2>1, <2>2 DEF Limited
  <2>3. CASE i = n
    <3>1. IsFiniteSet(Overtakers(n)) /\ IsFiniteSet(Streaming(n))
      <4>1. Overtakers(n) \in SUBSET Streaming(n)
        BY DEF Overtakers, Streaming
      <4> QED
        BY <1>0, <4>1, FS_Subset DEF Limited
    <3>2. /\ Cardinality(Overtakers(n)) \in Nat /\ Cardinality(Streaming(n)) \in Nat
          /\ others[n] \in Nat /\ count[n] \in Nat /\ Max[n] \in Nat
      BY <1>0, <3>1, FS_CardinalityType, MaxPositive DEF LBTypes
    <3>3. count[n] = others[n] + Cardinality(Streaming(n)) /\ count[n] <= Max[n] + Cardinality(Overtakers(n))
      BY <1>0 DEF Limited
    <3>4. /\ count'[n] = others'[n] + Cardinality(Streaming(n))
          /\ count'[n] <= Max[n] + Cardinality(Overtakers(n))
      BY <1>1, <3>2, <3>3
    <3> QED
      BY <1>0, <2>1, <2>3, <3>1, <3>4 DEF Limited
  <2> QED
    BY <2>2, <2>3
<1> QED
  BY <1>3, <1>4

\* LimitInv is an inductive invariant.
THEOREM LimitInvariance == Spec => []LimitInv
<1>1. LimitInv /\ [Next]_vars => LimitInv'
  <2> SUFFICES ASSUME LimitInv, [Next]_vars PROVE LimitInv'
    OBVIOUS
  <2>1. LBTypes' /\ \A r \in Requests : Placed(r)'
    BY TypesInv, PlacedInv DEF LimitInv
  <2>2. CASE UNCHANGED vars \/ \E r \in Requests : Cancel(r)
    <3>1. UNCHANGED <<count, others, pc, index, raced>>
      BY <2>2 DEF vars, shared, history, Cancel
    <3>2. \A i \in Indexes : Limited(i)'
      BY <3>1, LimitStays
    <3>3. \A r \in Requests : Room(r)'
      BY <3>1 DEF LimitInv, Room
    <3> QED
      BY <2>1, <3>2, <3>3 DEF LimitInv
  <2>3. CASE \E r \in Requests : BalanceStep(r)
    BY <2>1, <2>3, LimitBalance DEF LimitInv
  <2>4. CASE \E r \in Requests : StartWriter(r) \/ EndWriter(r) \/ StartDirect(r) \/ EndDirect(r)
    BY <2>1, <2>4, LimitStart, LimitEnd, LimitDirect DEF LimitInv
  <2>5. CASE \E i \in Indexes : OtherWriterEnds(i)
    BY <2>1, <2>5, LimitOther DEF LimitInv
  <2> QED
    BY <2>2, <2>3, <2>4, <2>5 DEF Next
<1> QED
  BY <1>1, LimitInit, PTL DEF Spec

\* The count of a source is the number of writers that read from it (UpdateConcurrency
\* when StartMediaWriter begins and when it ends), whatever else is read from it directly.
THEOREM CountsWriters == Spec => []CountBalanced
<1>1. \A i : Users(i, {"streaming"}) = Streaming(i)
  BY DEF Users, Streaming
<1>2. LimitInv => CountBalanced
  BY <1>1 DEF LimitInv, Limited, CountBalanced
<1> QED
  BY <1>2, LimitInvariance, PTL

\* A source holds more connections than its limit only by requests whose result is used
\* directly, which nobody counts, and by writers that were overtaken between
\* CheckConcurrency and UpdateConcurrency, one connection for each.
THEOREM WithinLimitUnlessExcused == Spec => []LimitUnlessRaced
<1>1. ASSUME LimitInv, NEW i \in Indexes PROVE Held(i) <= Max[i] + Cardinality(Excused(i))
  <2>1. /\ Users(i, {"streaming", "direct"}) = Streaming(i) \cup Direct(i)
        /\ Excused(i) = Overtakers(i) \cup Direct(i)
        /\ Streaming(i) \cap Direct(i) = {} /\ Overtakers(i) \cap Direct(i) = {}
        /\ Overtakers(i) \in SUBSET Streaming(i)
    BY DEF Users, Excused, Streaming, Direct, Overtakers
  <2>2. IsFiniteSet(Streaming(i)) /\ IsFiniteSet(Direct(i)) /\ IsFiniteSet(Overtakers(i))
    BY <1>1, <2>1, FS_Subset DEF LimitInv, Limited
  <2>3. Cardinality(Streaming(i) \cup Direct(i)) = Cardinality(Streaming(i)) + Cardinality(Direct(i))
    <3> DEFINE S == Streaming(i)
               T == Direct(i)
    <3>1. IsFiniteSet(S) /\ IsFiniteSet(T) /\ S \cap T = {}
      BY <2>1, <2>2
    <3> HIDE DEF S, T
    <3>2. Cardinality(S \cup T) = Cardinality(S) + Cardinality(T) - Cardinality({})
      BY <3>1, FS_Union
    <3>3. Cardinality(S) \in Nat /\ Cardinality(T) \in Nat /\ Cardinality({}) = 0
      BY <3>1, FS_CardinalityType, FS_EmptySet
    <3>4. Cardinality(S \cup T) = Cardinality(S) + Cardinality(T)
      BY <3>2, <3>3
    <3> QED
      BY <3>4 DEF S, T
  <2>4. Cardinality(Overtakers(i) \cup Direct(i)) = Cardinality(Overtakers(i)) + Cardinality(Direct(i))
    <3> DEFINE S == Overtakers(i)
               T == Direct(i)
    <3>1. IsFiniteSet(S) /\ IsFiniteSet(T) /\ S \cap T = {}
      BY <2>1, <2>2
    <3> HIDE DEF S, T
    <3>2. Cardinality(S \cup T) = Cardinality(S) + Cardinality(T) - Cardinality({})
      BY <3>1, FS_Union
    <3>3. Cardinality(S) \in Nat /\ Cardinality(T) \in Nat /\ Cardinality({}) = 0
      BY <3>1, FS_CardinalityType, FS_EmptySet
    <3>4. Cardinality(S \cup T) = Cardinality(S) + Cardinality(T)
      BY <3>2, <3>3
    <3> QED
      BY <3>4 DEF S, T
  <2>5. others[i] + Cardinality(Streaming(i)) <= Max[i] + Cardinality(Overtakers(i))
    BY <1>1 DEF LimitInv, Limited
  <2>6. /\ others[i] \in Nat /\ Max[i] \in Nat /\ Cardinality(Streaming(i)) \in Nat
        /\ Cardinality(Overtakers(i)) \in Nat /\ Cardinality(Direct(i)) \in Nat
    BY <1>1, <2>2, FS_CardinalityType, MaxPositive DEF LimitInv, LBTypes
  <2>7. /\ Held(i) = others[i] + (Cardinality(Streaming(i)) + Cardinality(Direct(i)))
        /\ Cardinality(Excused(i)) = Cardinality(Overtakers(i)) + Cardinality(Direct(i))
    BY <2>1, <2>3, <2>4 DEF Held
  <2> QED
    BY <2>5, <2>6, <2>7
<1>2. LimitInv => LimitUnlessRaced
  BY <1>1 DEF LimitUnlessRaced
<1> QED
  BY <1>2, LimitInvariance, PTL

-----------------------------------------------------------------------------
(* What a request has asked for in its lap.                                *)

InLap(r) == pc[r] \in {"head", "sort", "swap1", "swap2", "urls", "asking", "backoff"}
AtUrls(r) == pc[r] \in {"urls", "asking"}
Seen(r, i) == \A k \in 1 .. Len(SubUrls(r, i)) : <<i, SubUrls(r, i)[k]>> \in asked[r]

\* How many URLs of the index being tried are settled: failed or skipped.
Past(r) == Len(SubUrls(r, index[r])) - Len(todo[r])

\* Only URLs of the request are asked for.
Asks(r) == asked[r] \subseteq Urls(r) /\ tested[r] \subseteq Urls(r)

\* todo is the rest of the index's URLs, and those before it were taken up.
Trying(r) == AtUrls(r) => LET q == SubUrls(r, index[r]) IN
    /\ index[r] \in done[r]
    /\ Len(todo[r]) <= Len(q)
    /\ \A k \in 1 .. Len(todo[r]) : todo[r][k] = q[k + Past(r)]
    /\ \A k \in 1 .. Len(q) :
          <<index[r], q[k]>> \in asked[r] <=> k <= Past(r) + (IF pc[r] = "asking" THEN 1 ELSE 0)

\* A URL was taken up only with its index, and an index that is done has no URL left
\* that was not taken up, unless it is the one being tried.
Taken(r) == InLap(r) =>
    /\ \A u \in asked[r] : u[1] \in done[r]
    /\ \A i \in Indexes \cap done[r] : (AtUrls(r) /\ i = index[r]) \/ Seen(r, i)

AskInv ==
    /\ LBTypes
    /\ \A r \in Requests : Placed(r) /\ Asks(r) /\ Trying(r) /\ Taken(r)

\* The head of todo is the next URL of the index being tried.
LEMMA NextUrl ==
    ASSUME LBTypes, NEW r \in Requests, Placed(r), Trying(r), AtUrls(r), todo[r] # <<>>
    PROVE  /\ Past(r) + 1 \in 1 .. Len(SubUrls(r, index[r]))
           /\ Url(r) = <<index[r], SubUrls(r, index[r])[Past(r) + 1]>>
           /\ Url(r) \in Urls(r)
           /\ Len(Tail(todo[r])) = Len(todo[r]) - 1
           /\ \A k \in 1 .. Len(todo[r]) - 1 : Tail(todo[r])[k] = todo[r][k + 1]
<1> DEFINE i == index[r]
<1>1. i \in Indexes /\ todo[r] \in Seq(Keys) /\ SubUrls(r, i) \in Seq(Keys)
  BY SubUrlsDistinct DEF AtUrls, Placed, LBTypes
<1>2. Len(todo[r]) \in Nat /\ Len(todo[r]) >= 1 /\ Len(SubUrls(r, i)) \in Nat
  BY <1>1
<1>3. Len(todo[r]) <= Len(SubUrls(r, i))
  BY DEF Trying
<1>4. Past(r) + 1 \in 1 .. Len(SubUrls(r, i))
  BY <1>2, <1>3 DEF Past
<1>5. Head(todo[r]) = todo[r][1] /\ todo[r][1] = SubUrls(r, i)[1 + Past(r)]
  BY <1>1, <1>2 DEF Trying
<1>6. 1 + Past(r) = Past(r) + 1
  BY <1>4, <1>2 DEF Past
<1>7. Url(r) = <<i, SubUrls(r, i)[Past(r) + 1]>>
  BY <1>5, <1>6 DEF Url
<1>8. Url(r) \in Urls(r)
  <2>1. DOMAIN SubUrls(r, i) = 1 .. Len(SubUrls(r, i))
    BY <1>1
  <2>2. Url(r) \in {<<i, SubUrls(r, i)[k]>> : k \in DOMAIN SubUrls(r, i)}
    BY <1>4, <1>7, <2>1
  <2> QED
    BY <1>1, <2>2 DEF Urls
<1>9. /\ Len(Tail(todo[r])) = Len(todo[r]) - 1
      /\ \A k \in 1 .. Len(todo[r]) - 1 : Tail(todo[r])[k] = todo[r][k + 1]
  BY <1>1, <1>2
<1> QED
  BY <1>4, <1>7, <1>8, <1>9

\* What a request has asked for stays as it is while it is not trying an index.
LEMMA AskStays ==
    ASSUME NEW r \in Requests, Trying(r), Taken(r), Asks(r),
           asked'[r] = asked[r], tested'[r] = tested[r] \/ tested'[r] = {},
           done'[r] = done[r],
           \/ pc'[r] = pc[r] /\ index'[r] = index[r] /\ todo'[r] = todo[r]
           \/ ~AtUrls(r) /\ pc'[r] \notin {"urls", "asking"} /\ (InLap(r)' => InLap(r))
    PROVE  Trying(r)' /\ Taken(r)' /\ Asks(r)'
<1>1. Asks(r)'
  BY DEF Asks, Urls
<1>2. Trying(r)'
  BY DEF Trying, AtUrls, Past
<1>3. \A i \in Indexes : Seen(r, i)' <=> Seen(r, i)
  BY DEF Seen
<1>4. InLap(r)' => InLap(r)
  BY DEF InLap
<1>5. AtUrls(r)' <=> AtUrls(r)
  BY DEF AtUrls
<1>6. AtUrls(r) => index'[r] = index[r]
  OBVIOUS
<1>7. Taken(r)'
  BY <1>3, <1>4, <1>5, <1>6 DEF Taken
<1> QED
  BY <1>1, <1>2, <1>7

\* A lap begins with nothing done and nothing asked for.
LEMMA AskBegins ==
    ASSUME AskInv, NEW r \in Requests, BeginLap(r)
    PROVE  Trying(r)' /\ Taken(r)' /\ Asks(r)'
<1>1. /\ asked'[r] = {} /\ done'[r] = {} /\ tested' = tested /\ pc'[r] \notin {"urls", "asking"}
  BY DEF BeginLap, Goto, AskInv, LBTypes, shared, history
<1>2. Asks(r)
  BY DEF AskInv
<1> QED
  BY <1>1, <1>2 DEF Trying, Taken, Asks, AtUrls, Urls

\* An index that is picked was not done, so none of its URLs was asked for.
LEMMA AskPicks ==
    ASSUME AskInv, NEW r \in Requests, PickIndex(r)
    PROVE  Trying(r)' /\ Taken(r)' /\ Asks(r)'
<1>i. PICK i : i = FirstOpen(r)
  OBVIOUS
<1>0. LBTypes /\ Trying(r) /\ Taken(r) /\ Asks(r)
  BY DEF AskInv
<1>1. /\ pc[r] = "sort" /\ done'[r] = done[r] \cup {i} /\ asked' = asked /\ tested' = tested
      /\ \/ /\ i # NoIndex /\ pc'[r] = "urls" /\ index'[r] = i /\ todo'[r] = SubUrls(r, i)
         \/ /\ i = NoIndex \/ SubUrls(r, i) = <<>>
            /\ pc'[r] = "head"
  BY <1>0, <1>i DEF PickIndex, Goto, LBTypes, shared, history
<1>2. \/ i \in Indexes /\ i \notin done[r]
      \/ i = NoIndex
  BY <1>0, <1>i, PickedOpen
<1>3. Asks(r)'
  BY <1>0, <1>1 DEF Asks, Urls
<1>4. InLap(r) /\ ~AtUrls(r) /\ InLap(r)'
  BY <1>1 DEF InLap, AtUrls
<1>5. \A u \in asked[r] : u[1] \in done[r]
  BY <1>0, <1>4 DEF Taken
<1>6. \A l \in Indexes \cap done[r] : Seen(r, l)'
  BY <1>0, <1>1, <1>4 DEF Taken, Seen
<1>7. CASE pc'[r] = "head"
  <2>1. i = NoIndex \/ SubUrls(r, i) = <<>>
    BY <1>1, <1>7
  <2>2. i \in Indexes => Seen(r, i)'
    <3> SUFFICES ASSUME i \in Indexes PROVE Seen(r, i)'
      OBVIOUS
    <3>1. SubUrls(r, i) = <<>>
      BY <2>1, IndexesNamed
    <3>2. 1 .. Len(SubUrls(r, i)) = {}
      BY <3>1
    <3> QED
      BY <3>2 DEF Seen
  <2>3. Taken(r)'
    <3>1. \A u \in asked'[r] : u[1] \in done'[r]
      BY <1>1, <1>5
    <3>2. \A l \in Indexes \cap done'[r] : Seen(r, l)'
      BY <1>1, <1>6, <2>2
    <3> QED
      BY <3>1, <3>2 DEF Taken
  <2>4. Trying(r)'
    BY <1>7 DEF Trying, AtUrls
  <2> QED
    BY <1>3, <2>3, <2>4
<1>8. CASE pc'[r] = "urls"
  <2>1. i \in Indexes /\ i \notin done[r] /\ index'[r] = i /\ todo'[r] = SubUrls(r, i)
    BY <1>1, <1>2, <1>8
  <2>2. SubUrls(r, i) \in Seq(Keys) /\ Len(SubUrls(r, i)) \in Nat
    BY <2>1, SubUrlsDistinct
  <2>3. Past(r)' = 0
    BY <2>1, <2>2 DEF Past
  <2>4. \A k \in 1 .. Len(SubUrls(r, i)) : <<i, SubUrls(r, i)[k]>> \notin asked'[r]
    BY <1>1, <1>5, <2>1
  <2>5. Trying(r)'
    BY <1>1, <1>8, <2>1, <2>2, <2>3, <2>4 DEF Trying
  <2>6. AtUrls(r)'
    BY <1>8 DEF AtUrls
  <2>7. Taken(r)'
    BY <1>1, <1>5, <1>6, <2>1, <2>6 DEF Taken
  <2> QED
    BY <1>3, <2>5, <2>7
<1> QED
  BY <1>1, <1>7, <1>8

\* A URL that is taken up is the next one of the index.
LEMMA AskTakes ==
    ASSUME AskInv, NEW r \in Requests, SkipUrl(r) \/ AskUpstream(r)
    PROVE  Trying(r)' /\ Taken(r)' /\ Asks(r)'
<1> DEFINE i == index[r]
           q == SubUrls(r, i)
<1>0. LBTypes /\ Placed(r) /\ Trying(r) /\ Taken(r) /\ Asks(r)
  BY DEF AskInv
<1>1. /\ pc[r] = "urls" /\ todo[r] # <<>> /\ asked'[r] = asked[r] \cup {Url(r)}
      /\ UNCHANGED <<done, index, tested>>
      /\ \/ pc'[r] = "urls" /\ todo'[r] = Tail(todo[r])
         \/ pc'[r] = "asking" /\ todo'[r] = todo[r]
  BY <1>0 DEF SkipUrl, AskUpstream, TakeUp, Goto, LBTypes, shared, history
<1>2. AtUrls(r) /\ InLap(r) /\ AtUrls(r)' /\ InLap(r)'
  BY <1>1 DEF AtUrls, InLap
<1>3. /\ i \in Indexes /\ i \in done[r] /\ q \in Seq(Keys) /\ todo[r] \in Seq(Keys)
      /\ Len(todo[r]) <= Len(q) /\ Len(q) \in Nat /\ Len(todo[r]) \in Nat
      /\ \A k \in 1 .. Len(todo[r]) : todo[r][k] = q[k + Past(r)]
      /\ \A k \in 1 .. Len(q) : <<i, q[k]>> \in asked[r] <=> k <= Past(r)
  <2>1. i \in Indexes
    BY <1>0, <1>1 DEF Placed
  <2>2. q \in Seq(Keys) /\ todo[r] \in Seq(Keys)
    BY <1>0, <2>1, SubUrlsDistinct DEF LBTypes
  <2>3. Past(r) \in Int
    BY <2>2 DEF Past
  <2> QED
    BY <1>0, <1>1, <1>2, <2>1, <2>2, <2>3 DEF Trying
<1>4. /\ Past(r) + 1 \in 1 .. Len(q) /\ Url(r) = <<i, q[Past(r) + 1]>> /\ Url(r) \in Urls(r)
      /\ Len(Tail(todo[r])) = Len(todo[r]) - 1
      /\ \A k \in 1 .. Len(todo[r]) - 1 : Tail(todo[r])[k] = todo[r][k + 1]
  BY <1>0, <1>1, <1>2, NextUrl
<1>5. Past(r) = Len(q) - Len(todo[r])
  BY DEF Past
<1>6. \A k \in 1 .. Len(q) : <<i, q[k]>> \in asked'[r] <=> k <= Past(r) + 1
  <2> SUFFICES ASSUME NEW k \in 1 .. Len(q)
               PROVE  <<i, q[k]>> \in asked'[r] <=> k <= Past(r) + 1
    OBVIOUS
  <2>1. <<i, q[k]>> = Url(r) <=> k = Past(r) + 1
    BY <1>3, <1>4, SubUrlsDistinct
  <2>2. k <= Past(r) + 1 <=> k <= Past(r) \/ k = Past(r) + 1
    <3>1. PICK n \in Int : n = Past(r)
      <4>1. Len(q) \in Nat /\ Len(todo[r]) \in Nat
        BY <1>3
      <4>2. Len(q) - Len(todo[r]) \in Int
        BY <4>1
      <4> QED
        BY <1>5, <4>2
    <3>2. k <= n + 1 <=> k <= n \/ k = n + 1
      BY <1>3
    <3> QED
      BY <3>1, <3>2
  <2> QED
    BY <1>1, <1>3, <2>1, <2>2
<1>7. Trying(r)'
  <2>1. CASE pc'[r] = "asking" /\ todo'[r] = todo[r]
    <3>1. Past(r)' = Past(r)
      BY <1>1, <2>1 DEF Past
    <3> QED
      BY <1>1, <1>3, <1>6, <2>1, <3>1 DEF Trying
  <2>2. CASE pc'[r] = "urls" /\ todo'[r] = Tail(todo[r])
    <3>1. Past(r)' = Past(r) + 1 /\ Len(todo'[r]) = Len(todo[r]) - 1
      <4>1. Len(todo'[r]) = Len(todo[r]) - 1
        BY <1>4, <2>2
      <4>2. Past(r)' = Len(q) - Len(todo'[r])
        BY <1>1 DEF Past
      <4> QED
        BY <1>3, <1>5, <4>1, <4>2
    <3>2. \A k \in 1 .. Len(todo'[r]) : todo'[r][k] = q[k + Past(r)']
      <4> SUFFICES ASSUME NEW k \in 1 .. Len(todo'[r]) PROVE todo'[r][k] = q[k + Past(r)']
        OBVIOUS
      <4>1. k + 1 \in 1 .. Len(todo[r]) /\ k \in 1 .. Len(todo[r]) - 1
        BY <1>3, <3>1
      <4>2. todo'[r][k] = todo[r][k + 1]
        BY <1>4, <2>2, <4>1
      <4>3. todo[r][k + 1] = q[(k + 1) + Past(r)]
        BY <1>3, <4>1
      <4>4. (k + 1) + Past(r) = k + Past(r)'
        BY <1>3, <1>5, <3>1, <4>1
      <4> QED
        BY <4>2, <4>3, <4>4
    <3>3. \A k \in 1 .. Len(q) : <<i, q[k]>> \in asked'[r] <=> k <= Past(r)' + 0
      BY <1>3, <1>5, <1>6, <3>1
    <3>4. Len(todo'[r]) <= Len(q)
      BY <1>3, <3>1
    <3> QED
      BY <1>1, <1>3, <2>2, <3>2, <3>3, <3>4 DEF Trying
  <2> QED
    BY <1>1, <2>1, <2>2
<1>8. Taken(r)'
  <2>1. \A u \in asked'[r] : u[1] \in done'[r]
    BY <1>0, <1>1, <1>2, <1>3, <1>4 DEF Taken
  <2>2. \A l \in Indexes \cap done'[r] : l = index'[r] \/ Seen(r, l)'
    BY <1>0, <1>1, <1>2 DEF Taken, Seen
  <2> QED
    BY <1>2, <2>1, <2>2 DEF Taken
<1>9. Asks(r)'
  BY <1>0, <1>1, <1>4 DEF Asks, Urls
<1> QED
  BY <1>7, <1>8, <1>9

\* A URL that failed is settled, and remembered as tested.
LEMMA AskFails ==
    ASSUME AskInv, NEW r \in Requests, UpstreamFails(r)
    PROVE  Trying(r)' /\ Taken(r)' /\ Asks(r)'
<1> DEFINE i == index[r]
           q == SubUrls(r, i)
<1>0. LBTypes /\ Placed(r) /\ Trying(r) /\ Taken(r) /\ Asks(r)
  BY DEF AskInv
<1>1. /\ pc[r] = "asking" /\ todo[r] # <<>> /\ pc'[r] = "urls" /\ todo'[r] = Tail(todo[r])
      /\ tested'[r] = tested[r] \cup {Url(r)} /\ UNCHANGED <<done, index, asked>>
  BY <1>0 DEF UpstreamFails, Goto, Placed, LBTypes, shared, history
<1>2. AtUrls(r) /\ InLap(r) /\ AtUrls(r)' /\ InLap(r)'
  BY <1>1 DEF AtUrls, InLap
<1>3. /\ i \in Indexes /\ i \in done[r] /\ q \in Seq(Keys) /\ todo[r] \in Seq(Keys)
      /\ Len(todo[r]) <= Len(q) /\ Len(q) \in Nat /\ Len(todo[r]) \in Nat
      /\ \A k \in 1 .. Len(todo[r]) : todo[r][k] = q[k + Past(r)]
      /\ \A k \in 1 .. Len(q) : <<i, q[k]>> \in asked[r] <=> k <= Past(r) + 1
  <2>1. i \in Indexes
    BY <1>0, <1>1 DEF Placed
  <2>2. q \in Seq(Keys) /\ todo[r] \in Seq(Keys)
    BY <1>0, <2>1, SubUrlsDistinct DEF LBTypes
  <2> QED
    BY <1>0, <1>1, <1>2, <2>1, <2>2 DEF Trying
<1>4. /\ Url(r) \in Urls(r) /\ Len(Tail(todo[r])) = Len(todo[r]) - 1
      /\ \A k \in 1 .. Len(todo[r]) - 1 : Tail(todo[r])[k] = todo[r][k + 1]
  BY <1>0, <1>1, <1>2, NextUrl
<1>5. Past(r) = Len(q) - Len(todo[r]) /\ Past(r)' = Past(r) + 1 /\ Len(todo'[r]) = Len(todo[r]) - 1
  <2>1. Len(todo'[r]) = Len(todo[r]) - 1
    BY <1>1, <1>4
  <2>2. Past(r) = Len(q) - Len(todo[r]) /\ Past(r)' = Len(q) - Len(todo'[r])
    BY <1>1 DEF Past
  <2> QED
    BY <1>3, <2>1, <2>2
<1>6. \A k \in 1 .. Len(todo'[r]) : todo'[r][k] = q[k + Past(r)']
  <2> SUFFICES ASSUME NEW k \in 1 .. Len(todo'[r]) PROVE todo'[r][k] = q[k + Past(r)']
    OBVIOUS
  <2>1. k + 1 \in 1 .. Len(todo[r]) /\ k \in 1 .. Len(todo[r]) - 1
    BY <1>3, <1>5
  <2>2. todo'[r][k] = todo[r][k + 1]
    BY <1>1, <1>4, <2>1
  <2>3. todo[r][k + 1] = q[(k + 1) + Past(r)]
    BY <1>3, <2>1
  <2>4. (k + 1) + Past(r) = k + Past(r)'
    BY <1>3, <1>5, <2>1
  <2> QED
    BY <2>2, <2>3, <2>4
<1>7. \A k \in 1 .. Len(q) : <<i, q[k]>> \in asked'[r] <=> k <= Past(r)' + 0
  BY <1>1, <1>3, <1>5
<1>8. Trying(r)'
  <2>1. Len(todo'[r]) <= Len(q)
    BY <1>3, <1>5
  <2> QED
    BY <1>1, <1>3, <1>6, <1>7, <2>1 DEF Trying
<1>9. Taken(r)' /\ Asks(r)'
  <2>1. \A l \in Indexes : Seen(r, l)' <=> Seen(r, l)
    BY <1>1 DEF Seen
  <2> QED
    BY <1>0, <1>1, <1>2, <1>4, <2>1 DEF Taken, Asks, Urls
<1> QED
  BY <1>8, <1>9

\* An index without URLs left has been tried in full.
LEMMA AskLeaves ==
    ASSUME AskInv, NEW r \in Requests, IndexFails(r)
    PROVE  Trying(r)' /\ Taken(r)' /\ Asks(r)'
<1>0. LBTypes /\ Placed(r) /\ Trying(r) /\ Taken(r) /\ Asks(r)
  BY DEF AskInv
<1>1. /\ pc[r] = "urls" /\ todo[r] = <<>> /\ pc'[r] \in {"head", "failed"}
      /\ UNCHANGED <<done, asked, tested>>
  BY <1>0 DEF IndexFails, Goto, LBTypes, shared, history
<1>2. AtUrls(r) /\ InLap(r) /\ ~AtUrls(r)'
  BY <1>1 DEF AtUrls, InLap
<1>3. Seen(r, index[r])
  <2>1. index[r] \in Indexes
    BY <1>0, <1>1 DEF Placed
  <2>2. Len(SubUrls(r, index[r])) \in Nat /\ Len(todo[r]) = 0
    BY <1>1, <2>1, SubUrlsDistinct
  <2>3. Past(r) = Len(SubUrls(r, index[r]))
    BY <2>2 DEF Past
  <2> QED
    BY <1>0, <1>1, <1>2, <2>2, <2>3 DEF Seen, Trying
<1>4. \A i \in Indexes : Seen(r, i)' <=> Seen(r, i)
  BY <1>1 DEF Seen
<1>5. Taken(r)'
  BY <1>0, <1>1, <1>2, <1>3, <1>4 DEF Taken
<1>6. Trying(r)' /\ Asks(r)'
  BY <1>0, <1>1, <1>2 DEF Trying, Asks, Urls
<1> QED
  BY <1>5, <1>6

\* No other step changes what request d has asked for.
LEMMA AskRest ==
    ASSUME AskInv, NEW d \in Requests, [Next]_vars,
           ~BeginLap(d), ~PickIndex(d), ~SkipUrl(d), ~AskUpstream(d), ~UpstreamFails(d), ~IndexFails(d)
    PROVE  Trying(d)' /\ Taken(d)' /\ Asks(d)'
<1> USE DEF shared, history, Goto
<1>0. LBTypes /\ Placed(d) /\ Trying(d) /\ Taken(d) /\ Asks(d)
  BY DEF AskInv
<1>1. ASSUME asked'[d] = asked[d], tested'[d] = tested[d], done'[d] = done[d],
             pc'[d] = pc[d], index'[d] = index[d], todo'[d] = todo[d]
      PROVE  Trying(d)' /\ Taken(d)' /\ Asks(d)'
  BY <1>0, <1>1, AskStays
<1>2. CASE UNCHANGED vars
  BY <1>1, <1>2 DEF vars
<1>3. ASSUME NEW r \in Requests, Cancel(r) PROVE Trying(d)' /\ Taken(d)' /\ Asks(d)'
  BY <1>1, <1>3 DEF Cancel
<1>4. ASSUME NEW i \in Indexes, OtherWriterEnds(i) PROVE Trying(d)' /\ Taken(d)' /\ Asks(d)'
  BY <1>1, <1>4 DEF OtherWriterEnds
<1>5. ASSUME NEW r \in Requests, r # d, BalanceStep(r) \/ StartWriter(r) \/ EndWriter(r) \/ StartDirect(r) \/ EndDirect(r)
      PROVE  Trying(d)' /\ Taken(d)' /\ Asks(d)'
  <2>1. /\ asked'[d] = asked[d] /\ tested'[d] = tested[d] /\ done'[d] = done[d]
        /\ pc'[d] = pc[d] /\ index'[d] = index[d] /\ todo'[d] = todo[d]
    BY <1>0, <1>5 DEF LBTypes, BalanceStep, StartWriter, EndWriter, StartDirect, EndDirect, Fetch, BeginLap, BeginSort, LapFails, NextLap,
         CancelledWaiting, SortCompares, SwapFirst, SwapSecond, PickIndex, SkipUrl, AskUpstream, TakeUp,
         UpstreamFails, UpstreamAnswers, IndexFails, WriteOrder
  <2> QED
    BY <1>1, <2>1
<1>6. CASE \/ Fetch(d) \/ BeginSort(d) \/ LapFails(d) \/ NextLap(d) \/ CancelledWaiting(d)
           \/ SortCompares(d) \/ SwapFirst(d) \/ SwapSecond(d) \/ StartWriter(d) \/ EndWriter(d) \/ StartDirect(d) \/ EndDirect(d)
  <2>1. asked'[d] = asked[d] /\ done'[d] = done[d] /\ (tested'[d] = tested[d] \/ tested'[d] = {})
    BY <1>0, <1>6 DEF LBTypes, StartWriter, EndWriter, StartDirect, EndDirect, Fetch, BeginSort, LapFails, NextLap,
         CancelledWaiting, SortCompares, SwapFirst, SwapSecond, WriteOrder
  <2>2. /\ ~AtUrls(d) /\ pc'[d] \notin {"urls", "asking"} /\ (InLap(d)' => InLap(d))
    BY <1>0, <1>6 DEF LBTypes, AtUrls, InLap, StartWriter, EndWriter, StartDirect, EndDirect, Fetch, BeginSort, LapFails, NextLap,
         CancelledWaiting, SortCompares, SwapFirst, SwapSecond, WriteOrder
  <2> QED
    BY <1>0, <2>1, <2>2, AskStays
<1>7. CASE UpstreamAnswers(d)
  <2>1. asked' = asked /\ done' = done /\ tested' = tested /\ pc'[d] = "result"
    BY <1>0, <1>7 DEF LBTypes, UpstreamAnswers
  <2> QED
    BY <1>0, <2>1 DEF Trying, Taken, Asks, AtUrls, InLap, Urls
<1> QED
  BY <1>2, <1>3, <1>4, <1>5, <1>6, <1>7 DEF Next, BalanceStep

\* AskInv is an inductive invariant.
THEOREM AskInvariance == Spec => []AskInv
<1>1. Init => AskInv
  <2> SUFFICES ASSUME Init PROVE AskInv
    OBVIOUS
  <2>1. \A r \in Requests : Trying(r) /\ Taken(r) /\ Asks(r)
    BY DEF Init, Trying, Taken, Asks, AtUrls, InLap
  <2> QED
    BY <2>1, TypesInit DEF AskInv
<1>2. AskInv /\ [Next]_vars => AskInv'
  <2> SUFFICES ASSUME AskInv, [Next]_vars PROVE AskInv'
    OBVIOUS
  <2>1. LBTypes' /\ \A r \in Requests : Placed(r)'
    BY TypesInv, PlacedInv DEF AskInv
  <2>2. \A r \in Requests : Trying(r)' /\ Taken(r)' /\ Asks(r)'
    BY AskBegins, AskPicks, AskTakes, AskFails, AskLeaves, AskRest
  <2> QED
    BY <2>1, <2>2 DEF AskInv
<1> QED
  BY <1>1, <1>2, PTL DEF Spec

\* Types of the load balancer's state; the URLs that are asked for and remembered as
\* tested are the request's own.
THEOREM LoadBalancerTypes == Spec => []LBTypeOK
<1>1. AskInv => LBTypeOK
  <2> SUFFICES ASSUME AskInv PROVE LBTypeOK
    OBVIOUS
  <2>1. LBTypes /\ \A r \in Requests : Placed(r) /\ Asks(r)
    BY DEF AskInv
  <2>2. \A r \in Requests : lap[r] \in 0 .. MaxRetries
    BY <2>1, RetriesNatural DEF LBTypes, Placed
  <2>3. \A r \in Requests : tested[r] \cup asked[r] \subseteq Urls(r)
    BY <2>1 DEF Asks
  <2> QED
    BY <2>1, <2>2, <2>3, SliceLength DEF LBTypes, LBTypeOK, Places
<1> QED
  BY <1>1, AskInvariance, PTL

\* No URL is asked for twice in a lap of tryAllStreams, however the shared slice is
\* sorted meanwhile.
THEOREM NotAskedTwice == Spec => AskedOnce
<1>1. AskInv /\ [Next]_vars =>
         [\A r \in Requests : pc[r] = "urls" /\ pc'[r] = "asking" => Url(r) \notin asked[r]]_vars
  <2> SUFFICES ASSUME AskInv, [Next]_vars, NEW r \in Requests, pc[r] = "urls", pc'[r] = "asking"
               PROVE  Url(r) \notin asked[r]
    OBVIOUS
  <2>1. LBTypes /\ Placed(r) /\ Trying(r) /\ AtUrls(r)
    BY DEF AskInv, AtUrls
  <2>2. todo[r] # <<>>
    <3> USE <2>1 DEF LBTypes, shared, history, Goto
    <3>1. ~UNCHANGED vars /\ (\A q \in Requests : ~Cancel(q)) /\ \A i \in Indexes : ~OtherWriterEnds(i)
      BY DEF vars, Cancel, OtherWriterEnds
    <3>2. \A q \in Requests : BalanceStep(q) \/ StartWriter(q) \/ EndWriter(q) \/ StartDirect(q) \/ EndDirect(q)
                              => q = r
      <4>1. ASSUME NEW q \in Requests, BalanceStep(q) PROVE q = r
        BY <4>1 DEF BalanceStep, Fetch, BeginLap, BeginSort, LapFails, NextLap, CancelledWaiting, SortCompares,
             SwapFirst, SwapSecond, PickIndex, SkipUrl, AskUpstream, UpstreamFails, UpstreamAnswers, IndexFails
      <4>2. ASSUME NEW q \in Requests, StartWriter(q) \/ EndWriter(q) \/ StartDirect(q) \/ EndDirect(q)
            PROVE  q = r
        BY <4>2 DEF StartWriter, EndWriter, StartDirect, EndDirect
      <4> QED
        BY <4>1, <4>2
    <3>3. BalanceStep(r) \/ StartWriter(r) \/ EndWriter(r) \/ StartDirect(r) \/ EndDirect(r)
      BY <3>1, <3>2 DEF Next
    <3>4. AskUpstream(r)
      BY <3>3 DEF BalanceStep, StartWriter, EndWriter, StartDirect, EndDirect, Fetch, BeginLap, BeginSort, LapFails, NextLap,
           CancelledWaiting, SortCompares, SwapFirst, SwapSecond, PickIndex, SkipUrl,
           UpstreamFails, UpstreamAnswers, IndexFails
    <3> QED
      BY <3>4 DEF AskUpstream
  <2>3. /\ Past(r) + 1 \in 1 .. Len(SubUrls(r, index[r]))
        /\ Url(r) = <<index[r], SubUrls(r, index[r])[Past(r) + 1]>>
    BY <2>1, <2>2, NextUrl
  <2>4. Url(r) \in asked[r] <=> Past(r) + 1 <= Past(r) + 0
    BY <2>1, <2>3 DEF Trying
  <2>5. Past(r) \in Int
    <3>1. SubUrls(r, index[r]) \in Seq(Keys) /\ todo[r] \in Seq(Keys)
      BY <2>1, SubUrlsDistinct DEF Placed, LBTypes
    <3> QED
      BY <3>1 DEF Past
  <2> QED
    BY <2>4, <2>5
<1> QED
  BY <1>1, AskInvariance, PTL DEF Spec, AskedOnce

-----------------------------------------------------------------------------
(* What a lap covers that nobody else disturbed.                           *)

Listed == {order[k] : k \in 1 .. N}

\* The slice lists every source, or will once the request's own swap is complete.
Whole(r) == Indexes \subseteq Listed \cup (IF pc[r] = "swap2" THEN {sorting[r].y} ELSE {})

\* A round of the loop goes on only while an index is left to pick.
Looping(r) ==
    /\ pc[r] \in {"sort", "swap1", "swap2"} => ~AllPicked(r)
    /\ pc[r] = "backoff" => AllPicked(r)

\* As long as nobody else wrote to the slice, a swap finds what its sort compared, and
\* no round ends without an index unless the slice had lost one before.
Settled(r) == calm[r] /\ InLap(r) =>
    /\ pc[r] = "swap1" =>
          order[sorting[r].j] = sorting[r].y /\ order[sorting[r].j - 1] = sorting[r].x
    /\ pc[r] = "swap2" => order[sorting[r].j] = sorting[r].x
    /\ Whole(r) => NoIndex \notin done[r]

CoverInv == AskInv /\ \A r \in Requests : Looping(r) /\ Settled(r)

\* What is done in a lap is finite; as much as there are sources, and no empty pick, is
\* all of them.
LEMMA DoneCounts ==
    ASSUME LBTypes, NEW r \in Requests
    PROVE  /\ IsFiniteSet(done[r]) /\ Cardinality(done[r]) \in Nat
           /\ Indexes \subseteq done[r] => AllPicked(r)
           /\ AllPicked(r) /\ NoIndex \notin done[r] => Indexes \subseteq done[r]
<1>1. /\ IsFiniteSet(Indexes) /\ Cardinality(Indexes) = N /\ N \in Nat /\ Len(order) = N
      /\ done[r] \subseteq Indexes \cup {NoIndex}
  BY SliceLength, OrderLength DEF LBTypes
<1>2. IsFiniteSet(Indexes \cup {NoIndex})
  BY <1>1, FS_AddElement
<1>3. IsFiniteSet(done[r]) /\ Cardinality(done[r]) \in Nat
  BY <1>1, <1>2, FS_Subset, FS_CardinalityType
<1>4. Indexes \subseteq done[r] => Cardinality(done[r]) >= N
  BY <1>1, <1>3, FS_Subset
<1>5. ASSUME Cardinality(done[r]) >= N, NoIndex \notin done[r] PROVE Indexes \subseteq done[r]
  <2>1. done[r] \subseteq Indexes
    BY <1>1, <1>5
  <2>2. Cardinality(done[r]) <= N /\ (Cardinality(done[r]) = N => done[r] = Indexes)
    BY <1>1, <2>1, FS_Subset
  <2> QED
    BY <1>1, <1>3, <1>5, <2>2
<1> QED
  BY <1>1, <1>3, <1>4, <1>5 DEF AllPicked

\* Exchanging the two elements a swap read loses none.
LEMMA SwapKeeps ==
    ASSUME CoverInv, NEW r \in Requests, SwapFirst(r) \/ SwapSecond(r), calm[r]
    PROVE  /\ Whole(r)' => Whole(r)
           /\ SwapFirst(r) => order'[sorting'[r].j] = sorting'[r].x
<1> DEFINE s == sorting[r]
<1>0. LBTypes /\ Placed(r) /\ Settled(r)
  BY DEF CoverInv, AskInv
<1>1. /\ order \in [1 .. N -> Indexes] /\ N \in Nat /\ DOMAIN order = 1 .. N
      /\ s.j \in 2 .. N /\ s.j - 1 \in 1 .. N /\ s.j \in 1 .. N
  BY <1>0, SliceLength, OrderLength DEF LBTypes, Placed, SwapFirst, SwapSecond
<1>2. CASE SwapFirst(r)
  <2>1. /\ pc[r] = "swap1" /\ pc'[r] = "swap2" /\ sorting'[r] = sorting[r]
        /\ order' = [order EXCEPT ![s.j] = s.x]
    BY <1>0, <1>2 DEF SwapFirst, WriteOrder, Goto, LBTypes
  <2>2. order[s.j] = s.y /\ order[s.j - 1] = s.x
    BY <1>0, <2>1 DEF Settled, InLap
  <2>3. Listed' \subseteq Listed
    BY <1>1, <2>1, <2>2 DEF Listed
  <2>4. s.y \in Listed
    BY <1>1, <2>2 DEF Listed
  <2> QED
    BY <1>1, <2>1, <2>3, <2>4 DEF Whole
<1>3. CASE SwapSecond(r)
  <2>1. /\ pc[r] = "swap2" /\ pc'[r] = "sort" /\ order' = [order EXCEPT ![s.j - 1] = s.y]
    BY <1>0, <1>3 DEF SwapSecond, WriteOrder, Goto, LBTypes
  <2>2. Listed' \subseteq Listed \cup {s.y}
    BY <1>1, <2>1 DEF Listed
  <2> QED
    BY <2>1, <2>2 DEF Whole, SwapFirst
<1> QED
  BY <1>2, <1>3

\* Steps that leave the slice and what is done alone.
LEMMA CoverStays ==
    ASSUME NEW r \in Requests, Looping(r), Settled(r), order' = order,
           done'[r] = done[r], sorting'[r] = sorting[r], pc'[r] = pc[r],
           calm'[r] = calm[r]
    PROVE  Looping(r)' /\ Settled(r)'
BY DEF Looping, Settled, AllPicked, InLap, Whole, Listed

\* A step of another request: a write to the slice ends the calm, nothing else matters.
LEMMA CoverOthers ==
    ASSUME CoverInv, NEW d \in Requests, NEW r \in Requests, r # d,
           BalanceStep(r) \/ StartWriter(r) \/ EndWriter(r) \/ StartDirect(r) \/ EndDirect(r)
    PROVE  Looping(d)' /\ Settled(d)'
<1> USE DEF shared, history, Goto
<1>0. LBTypes /\ LBTypes' /\ Placed(r) /\ Looping(d) /\ Settled(d)
  <2>1. [Next]_vars
    BY DEF Next
  <2> QED
    BY <2>1, TypesInv DEF CoverInv, AskInv
<1>1. /\ pc'[d] = pc[d] /\ done'[d] = done[d] /\ sorting'[d] = sorting[d]
  BY <1>0 DEF LBTypes, BalanceStep, StartWriter, EndWriter, StartDirect, EndDirect, Fetch, BeginLap, BeginSort, LapFails, NextLap,
       CancelledWaiting, SortCompares, SwapFirst, SwapSecond, PickIndex, SkipUrl, AskUpstream,
       UpstreamFails, UpstreamAnswers, IndexFails
<1>2. CASE SwapFirst(r) \/ SwapSecond(r)
  <2>1. calm'[d] = FALSE
    BY <1>2 DEF SwapFirst, SwapSecond, WriteOrder
  <2>2. Len(order') = Len(order)
    <3>1. Len(order) = N
      BY <1>0, OrderLength
    <3>2. Len(order)' = N
      BY <1>0, SliceLength DEF LBTypes
    <3> QED
      BY <3>1, <3>2
  <2> QED
    BY <1>0, <1>1, <2>1, <2>2 DEF Looping, Settled, AllPicked
<1>3. CASE ~SwapFirst(r) /\ ~SwapSecond(r)
  <2>1. order' = order
    BY <1>3 DEF BalanceStep, StartWriter, EndWriter, StartDirect, EndDirect, Fetch, BeginLap, BeginSort, LapFails, NextLap,
         CancelledWaiting, SortCompares, PickIndex, SkipUrl, AskUpstream,
         UpstreamFails, UpstreamAnswers, IndexFails
  <2>2. calm'[d] = calm[d]
    <3>1. CASE BeginLap(r)
      <4>1. PICK b \in BOOLEAN : calm' = [calm EXCEPT ![r] = b]
        <5>1. (\A q \in Requests : pc[q] # "swap2") \in BOOLEAN
          OBVIOUS
        <5> QED
          BY <3>1, <5>1 DEF BeginLap
      <4> QED
        BY <1>0, <4>1 DEF LBTypes
    <3>2. CASE ~BeginLap(r)
      <4>1. calm' = calm
        BY <1>3, <3>2 DEF BalanceStep, StartWriter, EndWriter, StartDirect, EndDirect, Fetch, BeginSort, LapFails, NextLap,
             CancelledWaiting, SortCompares, PickIndex, SkipUrl, AskUpstream,
             UpstreamFails, UpstreamAnswers, IndexFails
      <4> QED
        BY <4>1
    <3> QED
      BY <3>1, <3>2
  <2> QED
    BY <1>0, <1>1, <2>1, <2>2, CoverStays
<1> QED
  BY <1>2, <1>3

\* A request's own steps.
LEMMA CoverOwn ==
    ASSUME CoverInv, NEW r \in Requests, BalanceStep(r) \/ StartWriter(r) \/ EndWriter(r) \/ StartDirect(r) \/ EndDirect(r)
    PROVE  Looping(r)' /\ Settled(r)'
<1> USE DEF shared, history, Goto
<1>0. LBTypes /\ Placed(r) /\ Looping(r) /\ Settled(r)
  BY DEF CoverInv, AskInv
<1>1. CASE \/ Fetch(r) \/ CancelledWaiting(r) \/ NextLap(r) \/ UpstreamAnswers(r)
           \/ StartWriter(r) \/ EndWriter(r) \/ StartDirect(r) \/ EndDirect(r)
  <2>1. pc'[r] \in {"lap", "failed", "result", "streaming", "direct", "ended"}
    BY <1>0, <1>1 DEF LBTypes, Fetch, CancelledWaiting, NextLap, UpstreamAnswers, StartWriter, EndWriter, StartDirect, EndDirect
  <2> QED
    BY <2>1 DEF Looping, Settled, InLap
<1>2. CASE BeginLap(r)
  <2>1. (pc'[r] = "head" /\ done'[r] = {}) \/ pc'[r] = "failed"
    BY <1>0, <1>2 DEF LBTypes, BeginLap
  <2> QED
    BY <2>1 DEF Looping, Settled, InLap
<1>3. CASE BeginSort(r) \/ LapFails(r) \/ SkipUrl(r) \/ AskUpstream(r) \/ UpstreamFails(r) \/ IndexFails(r)
  <2>1. /\ order' = order /\ done' = done /\ calm' = calm
        /\ pc[r] \notin {"swap1", "swap2"} /\ InLap(r)
        /\ pc'[r] \notin {"swap1", "swap2"}
        /\ pc'[r] = "sort" => ~AllPicked(r)
        /\ pc'[r] = "backoff" => AllPicked(r)
    BY <1>0, <1>3 DEF LBTypes, InLap, BeginSort, LapFails, SkipUrl, AskUpstream, UpstreamFails, IndexFails
  <2>2. Whole(r)' => Whole(r)
    BY <2>1 DEF Whole, Listed
  <2> QED
    BY <1>0, <2>1, <2>2 DEF Looping, Settled, AllPicked
<1>4. CASE SortCompares(r)
  <2>1. /\ order' = order /\ done' = done /\ calm' = calm /\ pc[r] = "sort"
        /\ pc'[r] \in {"sort", "swap1"}
        /\ pc'[r] = "swap1" =>
              order[sorting'[r].j] = sorting'[r].y /\ order[sorting'[r].j - 1] = sorting'[r].x
    <3> DEFINE s == sorting[r]
    <3>1. /\ order' = order /\ done' = done /\ calm' = calm /\ pc[r] = "sort"
          /\ \/ pc'[r] = "swap1" /\ sorting'[r] = [s EXCEPT !.x = order[s.j - 1], !.y = order[s.j]]
             \/ pc'[r] = "sort"
      BY <1>0, <1>4 DEF LBTypes, SortCompares
    <3>2. s \in Sorts
      BY <1>0 DEF LBTypes
    <3>3. LET z == [s EXCEPT !.x = order[s.j - 1], !.y = order[s.j]]
          IN  z.j = s.j /\ z.x = order[s.j - 1] /\ z.y = order[s.j]
      BY <3>2 DEF Sorts
    <3> QED
      BY <3>1, <3>3
  <2>2. Whole(r)' => Whole(r)
    BY <2>1 DEF Whole, Listed
  <2>3. ~AllPicked(r)
    BY <1>0, <2>1 DEF Looping
  <2> QED
    BY <1>0, <2>1, <2>2, <2>3 DEF Looping, Settled, AllPicked, InLap
<1>5. CASE SwapFirst(r) \/ SwapSecond(r)
  <2>1. /\ pc[r] \in {"swap1", "swap2"} /\ done' = done /\ calm'[r] = calm[r]
        /\ (SwapFirst(r) /\ pc'[r] = "swap2") \/ pc'[r] = "sort"
    BY <1>0, <1>5 DEF LBTypes, SwapFirst, SwapSecond, WriteOrder
  <2>2. Len(order') = Len(order)
    <3>1. [Next]_vars
      BY <1>5 DEF Next, BalanceStep
    <3>2. LBTypes'
      BY <3>1, TypesInv DEF CoverInv, AskInv
    <3> QED
      BY <1>0, <3>2, OrderLength, SliceLength DEF LBTypes
  <2>3. Looping(r)'
    BY <1>0, <2>1, <2>2 DEF Looping, AllPicked
  <2>4. Settled(r)'
    <3> SUFFICES ASSUME calm[r]
                 PROVE  /\ pc'[r] = "swap2" => order'[sorting'[r].j] = sorting'[r].x
                        /\ Whole(r)' => NoIndex \notin done'[r]
      BY <2>1 DEF Settled
    <3>1. Whole(r)' => Whole(r)
      BY <1>5, SwapKeeps
    <3>2. SwapFirst(r) => order'[sorting'[r].j] = sorting'[r].x
      BY <1>5, SwapKeeps
    <3>3. Whole(r) => NoIndex \notin done[r]
      BY <1>0, <2>1 DEF Settled, InLap
    <3> QED
      BY <2>1, <3>1, <3>2, <3>3
  <2> QED
    BY <2>3, <2>4
<1>6. CASE PickIndex(r)
  <2>1. /\ pc[r] = "sort" /\ pc'[r] \in {"head", "urls"} /\ order' = order /\ calm' = calm
        /\ done'[r] = done[r] \cup {FirstOpen(r)}
    BY <1>0, <1>6 DEF LBTypes, PickIndex
  <2>2. Whole(r)' => Whole(r) /\ Indexes \subseteq Listed
    BY <2>1 DEF Whole, Listed
  <2>3. ~AllPicked(r)
    BY <1>0, <2>1 DEF Looping
  <2>4. ASSUME Indexes \subseteq Listed PROVE FirstOpen(r) # NoIndex
    <3> SUFFICES ASSUME FirstOpen(r) = NoIndex PROVE FALSE
      OBVIOUS
    <3>1. \A k \in DOMAIN order : order[k] \in done[r]
      BY <1>0, PickedOpen, IndexesNamed
    <3>2. Indexes \subseteq done[r]
      BY <1>0, <2>4, <3>1, OrderLength DEF Listed
    <3> QED
      BY <1>0, <2>3, <3>2, DoneCounts
  <2> QED
    BY <1>0, <2>1, <2>2, <2>4 DEF Looping, Settled, InLap
<1> QED
  BY <1>1, <1>2, <1>3, <1>4, <1>5, <1>6 DEF BalanceStep

\* CoverInv is an inductive invariant.
THEOREM CoverInvariance == Spec => []CoverInv
<1>1. Init => \A r \in Requests : Looping(r) /\ Settled(r)
  BY DEF Init, Looping, Settled, InLap
<1>2. AskInv /\ AskInv' /\ (\A r \in Requests : Looping(r) /\ Settled(r)) /\ [Next]_vars
         => (\A r \in Requests : Looping(r) /\ Settled(r))'
  <2> SUFFICES ASSUME CoverInv, [Next]_vars, NEW d \in Requests
               PROVE  Looping(d)' /\ Settled(d)'
    BY DEF CoverInv
  <2>0. Looping(d) /\ Settled(d)
    BY DEF CoverInv
  <2>1. CASE \/ UNCHANGED vars \/ \E r \in Requests : Cancel(r)
             \/ \E i \in Indexes : OtherWriterEnds(i)
    <3>1. /\ order' = order /\ done' = done /\ sorting' = sorting /\ pc' = pc /\ calm' = calm
      BY <2>1 DEF vars, shared, history, Cancel, OtherWriterEnds
    <3> QED
      BY <2>0, <3>1, CoverStays
  <2>2. CASE \E r \in Requests : BalanceStep(r) \/ StartWriter(r) \/ EndWriter(r) \/ StartDirect(r) \/ EndDirect(r)
    BY <2>2, CoverOthers, CoverOwn
  <2> QED
    BY <2>1, <2>2 DEF Next
<1> QED
  BY <1>1, <1>2, AskInvariance, PTL DEF Spec, CoverInv

\* A lap that failed without another request having written to the shared slice tried
\* every URL of every source, if the slice was whole.
THEOREM CoversAllSources == Spec => []LapCoversIntact
<1>1. CoverInv => LapCoversIntact
  <2> SUFFICES ASSUME CoverInv, NEW r \in Requests, pc[r] = "backoff", calm[r], Intact
               PROVE  asked[r] = Urls(r)
    BY DEF LapCoversIntact
  <2>1. LBTypes /\ Asks(r) /\ Taken(r) /\ Looping(r) /\ Settled(r)
    BY DEF CoverInv, AskInv
  <2>2. Indexes \subseteq Listed
    BY <2>1, OrderLength DEF Intact, Listed
  <2>3. NoIndex \notin done[r]
    BY <2>1, <2>2 DEF Settled, InLap, Whole
  <2>4. Indexes \subseteq done[r]
    BY <2>1, <2>3, DoneCounts DEF Looping
  <2>5. \A i \in Indexes : Seen(r, i)
    BY <2>1, <2>4 DEF Taken, InLap, AtUrls
  <2>6. Urls(r) \subseteq asked[r]
    <3> SUFFICES ASSUME NEW u \in Urls(r) PROVE u \in asked[r]
      OBVIOUS
    <3>1. PICK i \in Indexes : u \in {<<i, SubUrls(r, i)[k]>> : k \in DOMAIN SubUrls(r, i)}
      BY DEF Urls
    <3>2. PICK k \in DOMAIN SubUrls(r, i) : u = <<i, SubUrls(r, i)[k]>>
      BY <3>1
    <3>3. k \in 1 .. Len(SubUrls(r, i))
      BY SubUrlsDistinct
    <3> QED
      BY <2>5, <3>2, <3>3 DEF Seen
  <2> QED
    BY <2>1, <2>6 DEF Asks
<1> QED
  BY <1>1, CoverInvariance, PTL


-----------------------------------------------------------------------------
(* Balance runs down.                                                      *)

Picking(r) == pc[r] \in {"sort", "swap1", "swap2"}
Asking(r) == pc[r] \in {"urls", "asking"}

\* What Balance has left of its loops, the outermost first: laps; what is left of the lap;
\* sources not picked in it; what is left of the round; of the loop in that, the rounds of
\* the sort or the sub-URLs; the swaps; and the steps of one of those.
LapsLeft(r) == MaxRetries - lap[r]
LapStage(r) ==
    CASE pc[r] = "start" -> 4 [] pc[r] = "lap" -> 3 [] pc[r] = "backoff" -> 1
      [] Picking(r) \/ Asking(r) \/ pc[r] = "head" -> 2 [] OTHER -> 0
SourcesLeft(r) == Cardinality(Indexes \ done[r])
RoundStage(r) == CASE Asking(r) -> 2 [] pc[r] = "head" -> 1 [] OTHER -> 0
InnerLeft(r) ==
    CASE Picking(r) -> Len(order) + 1 - sorting[r].i [] Asking(r) -> Len(todo[r]) [] OTHER -> 0
SwapsLeft(r) == IF Picking(r) THEN sorting[r].j ELSE 0
InnerStage(r) == CASE pc[r] = "sort" -> 2 [] pc[r] \in {"swap1", "urls"} -> 1 [] OTHER -> 0

Left(r) == <<LapsLeft(r), LapStage(r), SourcesLeft(r), RoundStage(r), InnerLeft(r), SwapsLeft(r),
             InnerStage(r)>>

\* The lexicographic order.
Lower(m, n) == \E k \in 1 .. 7 : m[k] < n[k] /\ \A l \in 1 .. 7 : l < k => m[l] = n[l]

\* BalanceEnds, as far as single steps can show it: every step of a Balance leaves fewer
\* to be made, and those of other requests leave as many, except for a round of the loop
\* over a slice that has lost a source, which may pick nothing.
BalanceRunsDown ==
    [][MaxRetries > 0 => \A r \in Requests :
          /\ \A k \in 1 .. 7 : Left(r)[k] \in Nat
          /\ BalanceStep(r) /\ (PickIndex(r) => Intact) => Lower(Left(r)', Left(r))
          /\ ~BalanceStep(r) => Left(r)' = Left(r)]_vars

\* A sort stays inside the slice.
SortInside(r) == Picking(r) => sorting[r].i <= N + 1

\* It begins with the second place of a slice that has a first one, and goes on to the next
\* only while there is one (sort.Slice).
LEMMA SortInsideInv ==
    ASSUME CoverInv, NEW d \in Requests, SortInside(d), [Next]_vars
    PROVE  SortInside(d)'
<1> USE DEF shared, history, Goto, SortInside, Picking
<1>0. LBTypes /\ Placed(d) /\ Len(order) = N /\ N \in Nat
  BY SliceLength, OrderLength DEF CoverInv, AskInv
<1> USE DEF LBTypes
<1>1. CASE pc'[d] = pc[d] /\ sorting'[d] = sorting[d]
  BY <1>1
<1>2. CASE UNCHANGED vars \/ (\E i \in Indexes : OtherWriterEnds(i)) \/ \E r \in Requests : Cancel(r)
  BY <1>1, <1>2 DEF vars, OtherWriterEnds, Cancel
<1>3. ASSUME NEW r \in Requests, r # d, BalanceStep(r) \/ StartWriter(r) \/ EndWriter(r) \/ StartDirect(r) \/ EndDirect(r)
      PROVE  pc'[d] = pc[d] /\ sorting'[d] = sorting[d]
  BY <1>0, <1>3 DEF BalanceStep, StartWriter, EndWriter, StartDirect, EndDirect, Fetch, BeginLap, BeginSort, LapFails, NextLap,
       CancelledWaiting, SortCompares, SwapFirst, SwapSecond, PickIndex, SkipUrl, AskUpstream,
       UpstreamFails, UpstreamAnswers, IndexFails, WriteOrder
<1>4. CASE BeginSort(d)
  <2>1. sorting'[d].i = 2
    BY <1>0, <1>4 DEF BeginSort, NotSorting
  <2>2. Cardinality(done[d]) \in Nat /\ Cardinality(done[d]) < N
    BY <1>0, <1>4, DoneCounts DEF BeginSort, AllPicked
  <2> QED
    BY <1>0, <2>1, <2>2
<1>5. CASE SortCompares(d)
  <2>1. sorting[d].i <= N /\ sorting[d].i \in Nat
    BY <1>0, <1>5 DEF SortCompares, Sorts
  <2>2. sorting'[d].i \in {sorting[d].i, sorting[d].i + 1}
    BY <1>0, <1>5 DEF SortCompares, Sorts
  <2> QED
    BY <1>0, <2>1, <2>2
<1>6. CASE SwapFirst(d) \/ SwapSecond(d)
  <2>1. sorting'[d].i = sorting[d].i /\ Picking(d)
    BY <1>0, <1>6 DEF SwapFirst, SwapSecond, Sorts, NotSorting
  <2> QED
    BY <1>0, <2>1
<1>7. CASE \/ Fetch(d) \/ BeginLap(d) \/ LapFails(d) \/ NextLap(d) \/ CancelledWaiting(d) \/ PickIndex(d)
           \/ SkipUrl(d) \/ AskUpstream(d) \/ UpstreamFails(d) \/ UpstreamAnswers(d) \/ IndexFails(d)
           \/ StartWriter(d) \/ EndWriter(d) \/ StartDirect(d) \/ EndDirect(d)
  BY <1>0, <1>7 DEF StartWriter, EndWriter, StartDirect, EndDirect, Fetch, BeginLap, LapFails, NextLap,
       CancelledWaiting, PickIndex, SkipUrl, AskUpstream, UpstreamFails, UpstreamAnswers, IndexFails
<1> QED
  BY <1>1, <1>2, <1>3, <1>4, <1>5, <1>6, <1>7 DEF Next, BalanceStep

\* All of it is numbers.
LEMMA LeftTyped ==
    ASSUME CoverInv, NEW r \in Requests, SortInside(r)
    PROVE  \A k \in 1 .. 7 : Left(r)[k] \in Nat
<1>0. LBTypes /\ Placed(r) /\ Len(order) = N /\ N \in Nat
  BY SliceLength, OrderLength DEF CoverInv, AskInv
<1>1. LapsLeft(r) \in Nat
  BY <1>0, RetriesNatural DEF LapsLeft, LBTypes, Placed
<1>2. SourcesLeft(r) \in Nat
  BY SliceLength, FS_Subset, FS_CardinalityType DEF SourcesLeft
<1>3. LapStage(r) \in Nat /\ RoundStage(r) \in Nat /\ InnerStage(r) \in Nat
  BY DEF LapStage, RoundStage, InnerStage
<1>4. InnerLeft(r) \in Nat
  <2>1. Picking(r) => sorting[r].i \in Nat /\ sorting[r].i <= N + 1
    BY <1>0 DEF SortInside, LBTypes, Sorts
  <2>2. Len(todo[r]) \in Nat
    BY <1>0 DEF LBTypes
  <2> QED
    BY <1>0, <2>1, <2>2 DEF InnerLeft, Picking, Asking
<1>5. SwapsLeft(r) \in Nat
  BY <1>0 DEF SwapsLeft, LBTypes, Sorts
<1> QED
  BY <1>1, <1>2, <1>3, <1>4, <1>5 DEF Left

\* What is less in one place, and the same in those before it.
LEMMA LowerAt ==
    ASSUME NEW r \in Requests,
           \/ LapsLeft(r)' < LapsLeft(r)
           \/ /\ LapsLeft(r)' = LapsLeft(r)
              /\ \/ LapStage(r)' < LapStage(r)
                 \/ /\ LapStage(r)' = LapStage(r)
                    /\ \/ SourcesLeft(r)' < SourcesLeft(r)
                       \/ /\ SourcesLeft(r)' = SourcesLeft(r)
                          /\ \/ RoundStage(r)' < RoundStage(r)
                             \/ /\ RoundStage(r)' = RoundStage(r)
                                /\ \/ InnerLeft(r)' < InnerLeft(r)
                                   \/ /\ InnerLeft(r)' = InnerLeft(r)
                                      /\ \/ SwapsLeft(r)' < SwapsLeft(r)
                                         \/ /\ SwapsLeft(r)' = SwapsLeft(r)
                                            /\ InnerStage(r)' < InnerStage(r)
    PROVE  Lower(Left(r)', Left(r))
<1> DEFINE m == Left(r)'
           n == Left(r)
<1>1. /\ m[1] = LapsLeft(r)' /\ m[2] = LapStage(r)' /\ m[3] = SourcesLeft(r)' /\ m[4] = RoundStage(r)'
      /\ m[5] = InnerLeft(r)' /\ m[6] = SwapsLeft(r)' /\ m[7] = InnerStage(r)'
  BY DEF Left
<1>2. /\ n[1] = LapsLeft(r) /\ n[2] = LapStage(r) /\ n[3] = SourcesLeft(r) /\ n[4] = RoundStage(r)
      /\ n[5] = InnerLeft(r) /\ n[6] = SwapsLeft(r) /\ n[7] = InnerStage(r)
  BY DEF Left
<1> HIDE DEF m, n
<1>3. Lower(m, n)
  BY <1>1, <1>2 DEF Lower
<1> QED
  BY <1>3 DEF m, n

\* What the others do leaves it as it is, and so does the client.
LEMMA LeftStays ==
    ASSUME CoverInv, NEW d \in Requests, [Next]_vars, ~BalanceStep(d)
    PROVE  Left(d)' = Left(d)
<1> USE DEF shared, history, Goto
<1>0. LBTypes /\ LBTypes' /\ Len(order) = N /\ Len(order') = N
  <2>1. LBTypes /\ LBTypes'
    BY TypesInv DEF CoverInv, AskInv
  <2>2. Len(order')= N
    BY <2>1, OrderLengthNext
  <2> QED
    BY <2>1, <2>2, OrderLength
<1>1. ASSUME UNCHANGED <<lap[d], pc[d], done[d], sorting[d], todo[d]>>
      PROVE  Left(d)' = Left(d)
  BY <1>0, <1>1 DEF Left, LapsLeft, LapStage, SourcesLeft, RoundStage, InnerLeft, SwapsLeft, InnerStage,
       Picking, Asking
<1>2. CASE UNCHANGED vars \/ (\E i \in Indexes : OtherWriterEnds(i)) \/ \E r \in Requests : Cancel(r)
  BY <1>1, <1>2 DEF vars, OtherWriterEnds, Cancel
<1>3. ASSUME NEW r \in Requests, r # d, BalanceStep(r) \/ StartWriter(r) \/ EndWriter(r) \/ StartDirect(r) \/ EndDirect(r)
      PROVE  UNCHANGED <<lap[d], pc[d], done[d], sorting[d], todo[d]>>
  BY <1>0, <1>3 DEF LBTypes, BalanceStep, StartWriter, EndWriter, StartDirect, EndDirect, Fetch, BeginLap, BeginSort, LapFails, NextLap,
       CancelledWaiting, SortCompares, SwapFirst, SwapSecond, PickIndex, SkipUrl, AskUpstream,
       UpstreamFails, UpstreamAnswers, IndexFails, WriteOrder
<1>4. CASE StartWriter(d) \/ EndWriter(d) \/ StartDirect(d) \/ EndDirect(d)
  <2>1. /\ pc[d] \in {"result", "streaming", "direct"} /\ pc'[d] \in {"streaming", "direct", "ended"}
        /\ UNCHANGED <<lap, done, sorting, todo>>
    BY <1>0, <1>4 DEF LBTypes, StartWriter, EndWriter, StartDirect, EndDirect
  <2> QED
    BY <2>1 DEF Left, LapsLeft, LapStage, SourcesLeft, RoundStage, InnerLeft, SwapsLeft, InnerStage,
         Picking, Asking
<1> QED
  BY <1>1, <1>2, <1>3, <1>4 DEF Next


\* A pick from a slice that lists every source leaves one source less to be picked.
LEMMA PickLowers ==
    ASSUME CoverInv, NEW r \in Requests, PickIndex(r), Intact
    PROVE  SourcesLeft(r)' < SourcesLeft(r) /\ LapStage(r)' = LapStage(r) /\ LapsLeft(r)' = LapsLeft(r)
<1> USE DEF shared, history, Goto
<1>0. LBTypes /\ Looping(r)
  BY DEF CoverInv, AskInv
<1>1. /\ pc[r] = "sort" /\ pc'[r] \in {"head", "urls"} /\ lap' = lap
      /\ done'[r] = done[r] \cup {FirstOpen(r)}
  BY <1>0 DEF PickIndex, LBTypes
<1>2. FirstOpen(r) \in Indexes \ done[r]
  <2>1. ~AllPicked(r)
    BY <1>0, <1>1 DEF Looping
  <2>2. ASSUME \A k \in DOMAIN order : order[k] \in done[r] PROVE FALSE
    <3>1. Indexes \subseteq done[r]
      BY <2>2 DEF Intact
    <3> QED
      BY <1>0, <2>1, <3>1, DoneCounts
  <2> QED
    BY <1>0, <2>2, PickedOpen
<1> DEFINE S == Indexes \ done[r]
           i == FirstOpen(r)
<1>3. IsFiniteSet(S)
  BY SliceLength, FS_Subset
<1>4. Indexes \ done'[r] = S \ {i}
  BY <1>1
<1>5. Cardinality(S \ {i}) = Cardinality(S) - 1 /\ Cardinality(S) \in Nat
  BY <1>2, <1>3, FS_RemoveElement, FS_CardinalityType
<1>6. SourcesLeft(r)' < SourcesLeft(r)
  BY <1>4, <1>5 DEF SourcesLeft
<1> QED
  BY <1>1, <1>6 DEF LapStage, LapsLeft, Picking, Asking

\* What a Balance does leaves it less to do.
LEMMA BalanceLowers ==
    ASSUME CoverInv, NEW r \in Requests, MaxRetries > 0, BalanceStep(r), PickIndex(r) => Intact
    PROVE  Lower(Left(r)', Left(r))
<1> USE DEF shared, history, Goto, LBTypes
<1>0. LBTypes /\ Placed(r) /\ Len(order) = N /\ N \in Nat
  BY SliceLength, OrderLength DEF CoverInv, AskInv
<1>1. ASSUME UNCHANGED <<lap[r], done[r]>>
      PROVE  LapsLeft(r)' = LapsLeft(r) /\ SourcesLeft(r)' = SourcesLeft(r)
  BY <1>1 DEF LapsLeft, SourcesLeft
<1>2. CASE \/ Fetch(r) \/ BeginLap(r) \/ LapFails(r) \/ CancelledWaiting(r) \/ UpstreamAnswers(r)
           \/ (IndexFails(r) /\ ~live[r])
  <2>1. /\ lap' = lap
        /\ \/ pc[r] = "start" /\ pc'[r] \in {"lap", "failed"}
           \/ pc[r] = "lap" /\ pc'[r] \in {"head", "failed"}
           \/ pc[r] = "head" /\ pc'[r] = "backoff"
           \/ pc[r] = "backoff" /\ pc'[r] = "failed"
           \/ pc[r] = "asking" /\ pc'[r] = "result"
           \/ pc[r] = "urls" /\ pc'[r] = "failed"
    BY <1>0, <1>2 DEF Fetch, BeginLap, LapFails, CancelledWaiting, UpstreamAnswers, IndexFails
  <2>2. LapsLeft(r)' = LapsLeft(r) /\ LapStage(r)' < LapStage(r)
    BY <2>1 DEF LapsLeft, LapStage, Picking, Asking
  <2> QED
    BY <2>2, LowerAt
<1>3. CASE NextLap(r)
  <2>1. lap'[r] = lap[r] + 1 /\ lap[r] \in Nat
    BY <1>0, <1>3 DEF NextLap
  <2>2. LapsLeft(r)' < LapsLeft(r)
    BY <2>1, RetriesNatural DEF LapsLeft
  <2> QED
    BY <2>2, LowerAt
<1>4. CASE PickIndex(r)
  BY <1>4, PickLowers, LowerAt
<1>5. CASE BeginSort(r) \/ (IndexFails(r) /\ live[r])
  <2>1. /\ lap' = lap /\ done' = done
        /\ \/ pc[r] = "head" /\ pc'[r] = "sort"
           \/ pc[r] = "urls" /\ pc'[r] = "head"
    BY <1>0, <1>5 DEF BeginSort, IndexFails
  <2>2. LapStage(r)' = LapStage(r) /\ RoundStage(r)' < RoundStage(r)
    BY <2>1 DEF LapStage, RoundStage, Picking, Asking
  <2> QED
    BY <1>1, <2>1, <2>2, LowerAt
<1>6. CASE SkipUrl(r) \/ UpstreamFails(r) \/ AskUpstream(r)
  <2>1. /\ lap' = lap /\ done' = done /\ Asking(r) /\ Asking(r)' /\ todo[r] # <<>>
        /\ \/ todo'[r] = Tail(todo[r])
           \/ todo' = todo /\ pc[r] = "urls" /\ pc'[r] = "asking"
    BY <1>0, <1>6 DEF SkipUrl, UpstreamFails, AskUpstream, Asking, Placed
  <2>2. /\ LapStage(r)' = LapStage(r) /\ RoundStage(r)' = RoundStage(r) /\ SwapsLeft(r)' = SwapsLeft(r)
        /\ InnerLeft(r) = Len(todo[r]) /\ InnerLeft(r)' = Len(todo'[r])
    BY <2>1 DEF LapStage, RoundStage, SwapsLeft, InnerLeft, Picking, Asking
  <2>3. CASE todo'[r] = Tail(todo[r])
    <3>1. Len(todo'[r]) < Len(todo[r])
      BY <1>0, <2>1, <2>3
    <3> QED
      BY <1>1, <2>1, <2>2, <3>1, LowerAt
  <2>4. CASE todo' = todo /\ pc[r] = "urls" /\ pc'[r] = "asking"
    <3>1. InnerStage(r)' < InnerStage(r)
      BY <2>4 DEF InnerStage
    <3>2. InnerLeft(r)' = InnerLeft(r)
      BY <2>2, <2>4
    <3> QED
      BY <1>1, <2>1, <2>2, <3>1, <3>2, LowerAt
  <2> QED
    BY <2>1, <2>3, <2>4
<1>7. CASE SortCompares(r) \/ SwapFirst(r) \/ SwapSecond(r)
  <2>0. sorting[r].i \in Nat /\ sorting[r].j \in Nat
    BY <1>0 DEF Sorts
  <2>1. /\ lap' = lap /\ done' = done /\ Picking(r) /\ Picking(r)' /\ Len(order') = N
        /\ \/ sorting'[r].i = sorting[r].i + 1
           \/ sorting'[r].i = sorting[r].i /\ sorting'[r].j = sorting[r].j - 1
           \/ /\ sorting'[r].i = sorting[r].i /\ sorting'[r].j = sorting[r].j
              /\ \/ pc[r] = "sort" /\ pc'[r] = "swap1"
                 \/ pc[r] = "swap1" /\ pc'[r] = "swap2"
    <3>1. Len(order') = N
      BY TypesInv, OrderLengthNext DEF CoverInv, AskInv, Next
    <3>2. CASE SortCompares(r)
      BY <1>0, <2>0, <3>1, <3>2 DEF SortCompares, Picking, Sorts
    <3>3. CASE SwapFirst(r)
      BY <1>0, <2>0, <3>1, <3>3 DEF SwapFirst, Picking
    <3>4. CASE SwapSecond(r)
      BY <1>0, <2>0, <3>1, <3>4 DEF SwapSecond, Picking, NotSorting
    <3> QED
      BY <1>7, <3>2, <3>3, <3>4
  <2>2. /\ LapStage(r)' = LapStage(r) /\ RoundStage(r)' = RoundStage(r)
        /\ InnerLeft(r) = N + 1 - sorting[r].i /\ InnerLeft(r)' = N + 1 - sorting'[r].i
        /\ SwapsLeft(r) = sorting[r].j /\ SwapsLeft(r)' = sorting'[r].j
    BY <1>0, <2>1 DEF LapStage, RoundStage, SwapsLeft, InnerLeft, Picking, Asking
  <2>3. CASE sorting'[r].i = sorting[r].i + 1
    <3>1. InnerLeft(r)' < InnerLeft(r)
      BY <1>0, <2>0, <2>2, <2>3
    <3> QED
      BY <1>1, <2>1, <2>2, <3>1, LowerAt
  <2>4. CASE sorting'[r].i = sorting[r].i /\ sorting'[r].j = sorting[r].j - 1
    <3>1. InnerLeft(r)' = InnerLeft(r) /\ SwapsLeft(r)' < SwapsLeft(r)
      BY <2>0, <2>2, <2>4
    <3> QED
      BY <1>1, <2>1, <2>2, <3>1, LowerAt
  <2>5. CASE /\ sorting'[r].i = sorting[r].i /\ sorting'[r].j = sorting[r].j
             /\ \/ pc[r] = "sort" /\ pc'[r] = "swap1"
                \/ pc[r] = "swap1" /\ pc'[r] = "swap2"
    <3>1. InnerLeft(r)' = InnerLeft(r) /\ SwapsLeft(r)' = SwapsLeft(r) /\ InnerStage(r)' < InnerStage(r)
      BY <2>2, <2>5 DEF InnerStage
    <3> QED
      BY <1>1, <2>1, <2>2, <3>1, LowerAt
  <2> QED
    BY <2>1, <2>3, <2>4, <2>5
<1> QED
  BY <1>2, <1>3, <1>4, <1>5, <1>6, <1>7 DEF BalanceStep

\* With a limit of retries a Balance cannot go on for ever while the slice keeps all its
\* sources: no step of another request, no swap of the shared slice and no connection that
\* is taken or given back adds to what it has left to do (Balance, tryAllStreams and
\* tryStreamUrls, and the sort between them).
THEOREM BalanceIsBounded == Spec => BalanceRunsDown
<1>1. Init => \A r \in Requests : SortInside(r)
  BY DEF Init, SortInside, Picking
<1>2. CoverInv /\ (\A r \in Requests : SortInside(r)) /\ [Next]_vars
         => (\A r \in Requests : SortInside(r))'
  BY SortInsideInv
<1>3. CoverInv /\ (\A r \in Requests : SortInside(r)) /\ [Next]_vars =>
         [MaxRetries > 0 => \A r \in Requests :
          /\ \A k \in 1 .. 7 : Left(r)[k] \in Nat
          /\ BalanceStep(r) /\ (PickIndex(r) => Intact) => Lower(Left(r)', Left(r))
          /\ ~BalanceStep(r) => Left(r)' = Left(r)]_vars
  <2> SUFFICES ASSUME CoverInv, [Next]_vars, MaxRetries > 0, NEW r \in Requests, SortInside(r)
               PROVE  /\ \A k \in 1 .. 7 : Left(r)[k] \in Nat
                      /\ BalanceStep(r) /\ (PickIndex(r) => Intact) => Lower(Left(r)', Left(r))
                      /\ ~BalanceStep(r) => Left(r)' = Left(r)
    OBVIOUS
  <2>1. \A k \in 1 .. 7 : Left(r)[k] \in Nat
    BY LeftTyped
  <2>2. BalanceStep(r) /\ (PickIndex(r) => Intact) => Lower(Left(r)', Left(r))
    BY BalanceLowers
  <2>3. ~BalanceStep(r) => Left(r)' = Left(r)
    BY LeftStays
  <2> QED
    BY <2>1, <2>2, <2>3
<1> QED
  BY <1>1, <1>2, <1>3, CoverInvariance, PTL DEF Spec, BalanceRunsDown

=============================================================================
