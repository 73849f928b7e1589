----------------------- MODULE StreamRegistryProofs ------------------------
(***************************************************************************)
(* Which coordinator a request is led to, for any number of requests,      *)
(* streams, URLs, coordinators and results.                                *)
(*                                                                         *)
(* The inductive invariant has a part for each property.  CountsWatchers   *)
(* needs that the counted sets are finite and that a request which holds   *)
(* no coordinator watches none (Located).  OwnStream needs that the URL a  *)
(* coordinator is tied to is one of its stream (OfStream), because a       *)
(* redirection searches all coordinators by that URL, and that the result  *)
(* which can be borrowed is the one the writer was started with (Writing). *)
(***************************************************************************)
EXTENDS StreamRegistry, FiniteSetTheorems, TLAPS

WriterStates == {"off", "starting", "running", "closing", "returned"}

\* Types of what belongs to coordinators.
CoordTypes ==
    /\ owner \in Seq(Streams) /\ actualURL \in Seq(Urls \cup {NoUrl})
    /\ ClientCount \in Seq(Nat) /\ writer \in Seq(WriterStates)
    /\ using \in Seq(Nat) /\ LBResultOnWrite \in Seq(Nat)
    /\ Len(actualURL) = Len(owner) /\ Len(ClientCount) = Len(owner) /\ Len(writer) = Len(owner)
    /\ Len(using) = Len(owner) /\ Len(LBResultOnWrite) = Len(owner)
    /\ coordinators \in [Streams -> 0 .. Len(owner)]
    /\ coord \in [Requests -> 0 .. Len(owner)]

\* Types of the rest.
RequestTypes ==
    /\ results \in Seq(Urls)
    /\ \A c \in 1 .. Len(owner) : using[c] <= Len(results) /\ LBResultOnWrite[c] <= Len(results)
    /\ pc \in [Requests -> {"idle", "round", "redirect", "enter", "watching"}]
    /\ stream \in [Requests -> Streams \cup {NoStream}]
    /\ res \in [Requests -> 0 .. Len(results)]
    /\ told \in [Requests -> BOOLEAN] /\ cleaning \in Streams \cup {NoStream}

\* What a request holds where it is.
Located(r) ==
    /\ pc[r] = "idle" <=> coord[r] = 0
    /\ pc[r] # "idle" => stream[r] \in Streams
    /\ pc[r] \in {"redirect", "enter"} <=> res[r] # 0

\* The result a writer was started with, and when it can be borrowed.
Writing(c) ==
    /\ writer[c] = "off" <=> using[c] = 0
    /\ writer[c] \in {"running", "closing"} <=> LBResultOnWrite[c] # 0
    /\ LBResultOnWrite[c] # 0 => LBResultOnWrite[c] = using[c]

Watchers(c) == {r \in Requests : pc[r] = "watching" /\ coord[r] = c}

Counted(c) == IsFiniteSet(Watchers(c)) /\ ClientCount[c] = Cardinality(Watchers(c))

\* Every coordinator is stored under its own stream, and without shared URLs whatever a
\* coordinator or a request holds is of one stream.
OfStream ==
    /\ \A s \in Streams : coordinators[s] # 0 => owner[coordinators[s]] = s
    /\ Disjoint =>
          /\ \A r \in Requests : coord[r] # 0 => owner[coord[r]] = stream[r]
          /\ \A r \in Requests : res[r] # 0 => results[res[r]] \in UrlsOf[stream[r]]
          /\ \A c \in 1 .. Len(owner) :
                /\ using[c] # 0 => results[using[c]] \in UrlsOf[owner[c]]
                /\ actualURL[c] # NoUrl => actualURL[c] \in UrlsOf[owner[c]]

RegistryInv ==
    /\ CoordTypes /\ RequestTypes /\ OfStream
    /\ \A r \in Requests : Located(r)
    /\ \A c \in 1 .. Len(owner) : Writing(c) /\ Counted(c)

-----------------------------------------------------------------------------
(* Sequences.                                                              *)

\* What appending does.
LEMMA Appending ==
    ASSUME NEW S, NEW q \in Seq(S), NEW e \in S
    PROVE  /\ Append(q, e) \in Seq(S) /\ Len(Append(q, e)) = Len(q) + 1
           /\ \A i \in 1 .. Len(q) : Append(q, e)[i] = q[i]
           /\ Append(q, e)[Len(q) + 1] = e
OBVIOUS

\* What replacing an element does.
LEMMA Replacing ==
    ASSUME NEW S, NEW q \in Seq(S), NEW i \in 1 .. Len(q), NEW e \in S
    PROVE  /\ [q EXCEPT ![i] = e] \in Seq(S) /\ Len([q EXCEPT ![i] = e]) = Len(q)
           /\ [q EXCEPT ![i] = e][i] = e
           /\ \A j \in 1 .. Len(q) : j # i => [q EXCEPT ![i] = e][j] = q[j]
OBVIOUS

-----------------------------------------------------------------------------
\* The registry is empty initially.
LEMMA RegistryInit == Init => RegistryInv
<1> SUFFICES ASSUME Init PROVE RegistryInv
  OBVIOUS
<1>1. owner = <<>> /\ Len(owner) = 0 /\ 1 .. Len(owner) = {} /\ Len(results) = 0 /\ results = <<>>
  BY DEF Init
<1>2. CoordTypes
  <2>1. <<>> \in Seq(Streams) /\ <<>> \in Seq(Urls \cup {NoUrl}) /\ <<>> \in Seq(Nat)
        /\ <<>> \in Seq(WriterStates) /\ Len(<<>>) = 0 /\ 0 \in 0 .. 0
    OBVIOUS
  <2> QED
    BY <1>1, <2>1 DEF Init, CoordTypes
<1>3. RequestTypes
  <2>1. <<>> \in Seq(Urls) /\ 0 \in 0 .. 0
    OBVIOUS
  <2> QED
    BY <1>1, <2>1 DEF Init, RequestTypes
<1>4. OfStream
  BY <1>1 DEF Init, OfStream
<1>5. \A r \in Requests : Located(r)
  BY DEF Init, Located
<1> QED
  BY <1>1, <1>2, <1>3, <1>4, <1>5 DEF RegistryInv

\* SetActualURL ties a coordinator that was not tied.
LEMMA Tying ==
    ASSUME CoordTypes, NEW c \in 1 .. Len(owner), NEW url \in Urls \cup {NoUrl}, SetActualURL(c, url)
    PROVE  /\ actualURL' \in Seq(Urls \cup {NoUrl}) /\ Len(actualURL') = Len(owner)
           /\ actualURL'[c] \in {url, actualURL[c]}
           /\ \A d \in 1 .. Len(owner) : d # c => actualURL'[d] = actualURL[d]
<1>1. actualURL \in Seq(Urls \cup {NoUrl}) /\ Len(actualURL) = Len(owner)
  BY DEF CoordTypes
<1>2. PICK e \in {url, actualURL[c]} : actualURL' = [actualURL EXCEPT ![c] = e]
  BY DEF SetActualURL
<1>3. e \in Urls \cup {NoUrl}
  BY <1>1, <1>2
<1> QED
  BY <1>1, <1>2, <1>3, Replacing

\* What the second half of GetOrCreateCoordinator leaves: a coordinator of the stream.
LEMMA LoadedOrCreated ==
    ASSUME CoordTypes, OfStream, NEW r \in Requests, NEW s \in Streams,
           NEW url \in Urls \cup {NoUrl}, LoadOrCreate(r, s, url)
    PROVE  /\ CoordTypes'
           /\ Len(owner) <= Len(owner')
           /\ \E c \in 1 .. Len(owner') :
                 /\ coord' = [coord EXCEPT ![r] = c] /\ owner'[c] = s
                 /\ coordinators' = [coordinators EXCEPT ![s] = c]
                 /\ actualURL'[c] = url \/ (c \in 1 .. Len(owner) /\ actualURL'[c] = actualURL[c])
                 /\ \A d \in 1 .. Len(owner) : d # c => actualURL'[d] = actualURL[d]
           /\ \A d \in 1 .. Len(owner) :
                 /\ owner'[d] = owner[d] /\ ClientCount'[d] = ClientCount[d]
                 /\ writer'[d] = writer[d] /\ using'[d] = using[d]
                 /\ LBResultOnWrite'[d] = LBResultOnWrite[d]
           /\ \A d \in 1 .. Len(owner') : d \in 1 .. Len(owner) \/
                 /\ d = Len(owner) + 1 /\ ClientCount'[d] = 0 /\ writer'[d] = "off"
                 /\ using'[d] = 0 /\ LBResultOnWrite'[d] = 0
<1>1. CASE coordinators[s] # 0
  <2> DEFINE c == coordinators[s]
  <2>1. /\ c \in 1 .. Len(owner) /\ owner[c] = s /\ SetActualURL(c, url)
        /\ coord' = [coord EXCEPT ![r] = c]
        /\ UNCHANGED <<coordinators, owner, ClientCount, writer, using, LBResultOnWrite>>
    BY <1>1 DEF LoadOrCreate, CoordTypes, OfStream
  <2> HIDE DEF c
  <2>2. /\ actualURL' \in Seq(Urls \cup {NoUrl}) /\ Len(actualURL') = Len(owner)
        /\ actualURL'[c] \in {url, actualURL[c]}
        /\ \A d \in 1 .. Len(owner) : d # c => actualURL'[d] = actualURL[d]
    BY <2>1, Tying
  <2>3. CoordTypes'
    BY <2>1, <2>2 DEF CoordTypes
  <2>4. coordinators' = [coordinators EXCEPT ![s] = c]
    BY <2>1 DEF CoordTypes, c
  <2>5. Len(owner') = Len(owner) /\ Len(owner) \in Nat
    BY <2>1 DEF CoordTypes
  <2>6. \A d \in 1 .. Len(owner) :
           /\ owner'[d] = owner[d] /\ ClientCount'[d] = ClientCount[d]
           /\ writer'[d] = writer[d] /\ using'[d] = using[d]
           /\ LBResultOnWrite'[d] = LBResultOnWrite[d]
    BY <2>1
  <2>7. owner'[c] = s /\ c \in 1 .. Len(owner') /\ coord' = [coord EXCEPT ![r] = c]
    BY <2>1, <2>5
  <2>8. actualURL'[c] = url \/ (c \in 1 .. Len(owner) /\ actualURL'[c] = actualURL[c])
    BY <2>1, <2>2
  <2>9. Len(owner) <= Len(owner') /\ \A d \in 1 .. Len(owner') : d \in 1 .. Len(owner)
    BY <2>5
  <2>10. \E e \in 1 .. Len(owner') :
            /\ coord' = [coord EXCEPT ![r] = e] /\ owner'[e] = s
            /\ coordinators' = [coordinators EXCEPT ![s] = e]
            /\ actualURL'[e] = url \/ (e \in 1 .. Len(owner) /\ actualURL'[e] = actualURL[e])
            /\ \A d \in 1 .. Len(owner) : d # e => actualURL'[d] = actualURL[d]
    BY <2>2, <2>4, <2>7, <2>8
  <2> QED
    BY <2>3, <2>6, <2>9, <2>10
<1>2. CASE coordinators[s] = 0
  <2> DEFINE c == Len(owner) + 1
  <2>1. /\ owner' = Append(owner, s) /\ actualURL' = Append(actualURL, url)
        /\ ClientCount' = Append(ClientCount, 0) /\ writer' = Append(writer, "off")
        /\ using' = Append(using, 0) /\ LBResultOnWrite' = Append(LBResultOnWrite, 0)
        /\ coordinators' = [coordinators EXCEPT ![s] = c] /\ coord' = [coord EXCEPT ![r] = c]
    BY <1>2 DEF LoadOrCreate, Create
  <2>0. "off" \in WriterStates /\ 0 \in Nat
    BY DEF WriterStates
  <2>2. /\ owner' \in Seq(Streams) /\ Len(owner') = c /\ owner'[c] = s
        /\ \A d \in 1 .. Len(owner) : owner'[d] = owner[d]
    BY <2>1, Appending DEF CoordTypes
  <2>3. /\ actualURL' \in Seq(Urls \cup {NoUrl}) /\ Len(actualURL') = c /\ actualURL'[c] = url
        /\ \A d \in 1 .. Len(owner) : actualURL'[d] = actualURL[d]
    BY <2>1, Appending DEF CoordTypes
  <2>4. /\ ClientCount' \in Seq(Nat) /\ Len(ClientCount') = c /\ ClientCount'[c] = 0
        /\ \A d \in 1 .. Len(owner) : ClientCount'[d] = ClientCount[d]
    BY <2>0, <2>1, Appending DEF CoordTypes
  <2>5. /\ writer' \in Seq(WriterStates) /\ Len(writer') = c /\ writer'[c] = "off"
        /\ \A d \in 1 .. Len(owner) : writer'[d] = writer[d]
    <3>1. PICK e \in WriterStates : e = "off" /\ writer' = Append(writer, e)
      BY <2>0, <2>1
    <3>2. writer \in Seq(WriterStates) /\ Len(writer) = Len(owner)
      BY DEF CoordTypes
    <3> QED
      BY <3>1, <3>2, Appending
  <2>6. /\ using' \in Seq(Nat) /\ Len(using') = c /\ using'[c] = 0
        /\ \A d \in 1 .. Len(owner) : using'[d] = using[d]
    BY <2>0, <2>1, Appending DEF CoordTypes
  <2>7. /\ LBResultOnWrite' \in Seq(Nat) /\ Len(LBResultOnWrite') = c /\ LBResultOnWrite'[c] = 0
        /\ \A d \in 1 .. Len(owner) : LBResultOnWrite'[d] = LBResultOnWrite[d]
    BY <2>0, <2>1, Appending DEF CoordTypes
  <2>8. Len(owner) \in Nat
    BY DEF CoordTypes
  <2>9. /\ coordinators' \in [Streams -> 0 .. Len(owner')]
        /\ coord' \in [Requests -> 0 .. Len(owner')]
    BY <2>1, <2>2, <2>8 DEF CoordTypes
  <2>10. CoordTypes'
    BY <2>2, <2>3, <2>4, <2>5, <2>6, <2>7, <2>9 DEF CoordTypes
  <2>11. c \in 1 .. Len(owner') /\ \A d \in 1 .. Len(owner') : d \in 1 .. Len(owner) \/ d = c
    BY <2>2, <2>8
  <2>12. Len(owner) <= Len(owner')
    BY <2>2, <2>8
  <2> HIDE DEF c
  <2>13. /\ coord' = [coord EXCEPT ![r] = c] /\ owner'[c] = s
         /\ coordinators' = [coordinators EXCEPT ![s] = c]
         /\ actualURL'[c] = url
         /\ \A d \in 1 .. Len(owner) : d # c => actualURL'[d] = actualURL[d]
    BY <2>1, <2>2, <2>3
  <2>14. \A d \in 1 .. Len(owner) :
                 /\ owner'[d] = owner[d] /\ ClientCount'[d] = ClientCount[d]
                 /\ writer'[d] = writer[d] /\ using'[d] = using[d]
                 /\ LBResultOnWrite'[d] = LBResultOnWrite[d]
    BY <2>2, <2>4, <2>5, <2>6, <2>7
  <2> QED
    BY <2>4, <2>5, <2>6, <2>7, <2>10, <2>11, <2>12, <2>13, <2>14 DEF c
<1> QED
  BY <1>1, <1>2

-----------------------------------------------------------------------------
(* Steps.                                                                  *)

\* What belongs to one coordinator.
LEMMA OneCoordinator ==
    ASSUME CoordTypes, NEW c \in 1 .. Len(owner)
    PROVE  /\ owner[c] \in Streams /\ actualURL[c] \in Urls \cup {NoUrl} /\ ClientCount[c] \in Nat
           /\ writer[c] \in WriterStates /\ using[c] \in Nat /\ LBResultOnWrite[c] \in Nat
<1>1. ASSUME NEW S, NEW q \in Seq(S), NEW i \in 1 .. Len(q) PROVE q[i] \in S
  OBVIOUS
<1>2. /\ owner \in Seq(Streams) /\ actualURL \in Seq(Urls \cup {NoUrl})
      /\ ClientCount \in Seq(Nat) /\ writer \in Seq(WriterStates)
      /\ using \in Seq(Nat) /\ LBResultOnWrite \in Seq(Nat)
      /\ c \in 1 .. Len(actualURL) /\ c \in 1 .. Len(ClientCount) /\ c \in 1 .. Len(writer)
      /\ c \in 1 .. Len(using) /\ c \in 1 .. Len(LBResultOnWrite)
  BY DEF CoordTypes
<1> QED
  BY <1>1, <1>2

\* A request that is somewhere holds a coordinator.
LEMMA HoldsOne ==
    ASSUME RegistryInv, NEW r \in Requests, pc[r] # "idle"
    PROVE  /\ coord[r] \in 1 .. Len(owner) /\ stream[r] \in Streams
           /\ res[r] # 0 => res[r] \in 1 .. Len(results) /\ results[res[r]] \in Urls
BY DEF RegistryInv, CoordTypes, RequestTypes, Located

\* Who watches is finite and counted, so one more changes the count by one.
LEMMA OneMore ==
    ASSUME NEW S, IsFiniteSet(S), NEW r, r \notin S
    PROVE  IsFiniteSet(S \cup {r}) /\ Cardinality(S \cup {r}) = Cardinality(S) + 1
BY FS_AddElement

\* And one less.
LEMMA OneLess ==
    ASSUME NEW S, IsFiniteSet(S), NEW r \in S
    PROVE  /\ IsFiniteSet(S \ {r}) /\ Cardinality(S \ {r}) = Cardinality(S) - 1
           /\ Cardinality(S) \in Nat /\ Cardinality(S) - 1 \in Nat
<1>1. /\ IsFiniteSet(S \ {r}) /\ Cardinality(S \ {r}) = Cardinality(S) - 1
  BY FS_RemoveElement
<1> QED
  BY <1>1, FS_CardinalityType

\* A request without its old place, in a step that neither adds nor removes a watcher.
LEMMA SameWatchers ==
    ASSUME NEW c, Counted(c), ClientCount'[c] = ClientCount[c],
           \A r \in Requests : (pc'[r] = "watching" /\ coord'[r] = c)
                                  <=> (pc[r] = "watching" /\ coord[r] = c)
    PROVE  Counted(c)'
<1>1. Watchers(c)' = Watchers(c)
  BY DEF Watchers
<1> QED
  BY <1>1 DEF Counted

\* Lookup and RedirectMissed: the request gets a coordinator of its stream.
LEMMA Assigned ==
    ASSUME RegistryInv, NEW r \in Requests, NEW s \in Streams, NEW url \in Urls \cup {NoUrl},
           LoadOrCreate(r, s, url), pc[r] # "watching",
           \E p \in {"round", "enter"} : pc' = [pc EXCEPT ![r] = p] /\ (p = "enter" <=> res[r] # 0),
           stream' = [stream EXCEPT ![r] = s], UNCHANGED <<results, res, told, cleaning>>,
           Disjoint /\ url # NoUrl => url \in UrlsOf[s],
           Disjoint /\ res[r] # 0 => results[res[r]] \in UrlsOf[s]
    PROVE  RegistryInv'
<1>0. CoordTypes /\ RequestTypes /\ OfStream
  BY DEF RegistryInv
<1>1. PICK c \in 1 .. Len(owner') :
         /\ coord' = [coord EXCEPT ![r] = c] /\ owner'[c] = s
         /\ coordinators' = [coordinators EXCEPT ![s] = c]
         /\ actualURL'[c] = url \/ (c \in 1 .. Len(owner) /\ actualURL'[c] = actualURL[c])
         /\ \A d \in 1 .. Len(owner) : d # c => actualURL'[d] = actualURL[d]
  BY <1>0, LoadedOrCreated
<1>2. CoordTypes' /\ Len(owner) <= Len(owner') /\ Len(owner) \in Nat
  <2>1. CoordTypes' /\ Len(owner) <= Len(owner')
    BY <1>0, LoadedOrCreated
  <2>2. Len(owner) \in Nat
    BY <1>0 DEF CoordTypes
  <2> QED
    BY <2>1, <2>2
<1>3. \A d \in 1 .. Len(owner) :
         /\ owner'[d] = owner[d] /\ ClientCount'[d] = ClientCount[d]
         /\ writer'[d] = writer[d] /\ using'[d] = using[d]
         /\ LBResultOnWrite'[d] = LBResultOnWrite[d]
  BY <1>0, LoadedOrCreated
<1>4. \A d \in 1 .. Len(owner') : d \in 1 .. Len(owner) \/
         /\ d = Len(owner) + 1 /\ ClientCount'[d] = 0 /\ writer'[d] = "off"
         /\ using'[d] = 0 /\ LBResultOnWrite'[d] = 0
  BY <1>0, LoadedOrCreated
<1>5. PICK p \in {"round", "enter"} :
         pc' = [pc EXCEPT ![r] = p] /\ (p = "enter" <=> res[r] # 0)
  OBVIOUS
<1>6. RequestTypes'
  <2>1. /\ pc' \in [Requests -> {"idle", "round", "redirect", "enter", "watching"}]
        /\ stream' \in [Requests -> Streams \cup {NoStream}]
    BY <1>0, <1>5 DEF RequestTypes
  <2>2. \A d \in 1 .. Len(owner') :
           using'[d] <= Len(results) /\ LBResultOnWrite'[d] <= Len(results)
    BY <1>0, <1>3, <1>4 DEF RequestTypes
  <2> QED
    BY <1>0, <2>1, <2>2 DEF RequestTypes
<1>7. \A q \in Requests : q # r => coord'[q] = coord[q] /\ pc'[q] = pc[q] /\ stream'[q] = stream[q]
  BY <1>0, <1>1, <1>5 DEF CoordTypes, RequestTypes
<1>8. coord'[r] = c /\ pc'[r] = p /\ stream'[r] = s /\ c # 0
  BY <1>0, <1>1, <1>5 DEF CoordTypes, RequestTypes
<1>9. \A q \in Requests : Located(q)'
  BY <1>5, <1>7, <1>8 DEF RegistryInv, Located
<1>10. \A d \in 1 .. Len(owner') : Writing(d)'
  <2> SUFFICES ASSUME NEW d \in 1 .. Len(owner') PROVE Writing(d)'
    OBVIOUS
  <2>1. CASE d \in 1 .. Len(owner)
    BY <1>3, <2>1 DEF RegistryInv, Writing
  <2>2. CASE d \notin 1 .. Len(owner)
    BY <1>4, <2>2 DEF Writing
  <2> QED
    BY <2>1, <2>2
<1>11. \A d \in 1 .. Len(owner') : Counted(d)'
  <2> SUFFICES ASSUME NEW d \in 1 .. Len(owner') PROVE Counted(d)'
    OBVIOUS
  <2>1. CASE d \in 1 .. Len(owner)
    BY <1>3, <1>5, <1>7, <1>8, <2>1, SameWatchers DEF RegistryInv
  <2>2. CASE d \notin 1 .. Len(owner)
    <3>1. \A q \in Requests : coord[q] # d
      BY <1>0, <2>2 DEF CoordTypes
    <3>2. Watchers(d)' = {}
      BY <1>5, <1>7, <1>8, <3>1 DEF Watchers
    <3> QED
      BY <1>4, <2>2, <3>2, FS_EmptySet DEF Counted
  <2> QED
    BY <2>1, <2>2
<1>12. OfStream'
  <2>1. \A t \in Streams : coordinators'[t] # 0 => owner'[coordinators'[t]] = t
    <3>1. \A t \in Streams : coordinators[t] # 0 => coordinators[t] \in 1 .. Len(owner)
      BY <1>0 DEF CoordTypes
    <3>2. /\ coordinators'[s] = c
          /\ \A t \in Streams : t # s => coordinators'[t] = coordinators[t]
      BY <1>0, <1>1 DEF CoordTypes
    <3> QED
      BY <1>0, <1>1, <1>3, <3>1, <3>2 DEF OfStream
  <2>2. \A q \in Requests : coord'[q] # 0 /\ Disjoint => owner'[coord'[q]] = stream'[q]
    <3>1. \A q \in Requests : coord[q] # 0 => coord[q] \in 1 .. Len(owner)
      BY <1>0 DEF CoordTypes
    <3> QED
      BY <1>0, <1>1, <1>3, <1>7, <1>8, <3>1 DEF OfStream
  <2>3. \A q \in Requests : res[q] # 0 /\ Disjoint => results[res[q]] \in UrlsOf[stream'[q]]
    BY <1>0, <1>7, <1>8 DEF OfStream
  <2>4. \A d \in 1 .. Len(owner') : Disjoint /\ using'[d] # 0 => results[using'[d]] \in UrlsOf[owner'[d]]
    BY <1>0, <1>3, <1>4 DEF OfStream
  <2>5. \A d \in 1 .. Len(owner') : d # c => d \in 1 .. Len(owner)
    <3>1. ASSUME NEW d \in 1 .. Len(owner'), d # c, d \notin 1 .. Len(owner) PROVE FALSE
      <4>1. d = Len(owner) + 1
        BY <1>4, <3>1
      <4>2. c \in 1 .. Len(owner)
        BY <1>4, <3>1, <4>1
      <4>3. LoadOrCreate(r, s, url) /\ coordinators[s] \in 0 .. Len(owner)
        BY <1>0 DEF CoordTypes
      <4>4. coord'[r] = Len(owner) + 1 \/ Len(owner') = Len(owner)
        BY <1>0, <4>3 DEF LoadOrCreate, CoordTypes
      <4> QED
        BY <1>2, <1>8, <3>1, <4>1, <4>2, <4>4
    <3> QED
      BY <3>1
  <2>6. \A d \in 1 .. Len(owner') :
           Disjoint /\ actualURL'[d] # NoUrl => actualURL'[d] \in UrlsOf[owner'[d]]
    <3>1. ASSUME NEW d \in 1 .. Len(owner'), Disjoint, actualURL'[d] # NoUrl
          PROVE  actualURL'[d] \in UrlsOf[owner'[d]]
      <4>1. CASE d # c
        BY <1>0, <1>1, <1>3, <2>5, <3>1, <4>1 DEF OfStream
      <4>2. CASE d = c /\ actualURL'[c] = url
        BY <1>1, <3>1, <4>2
      <4>3. CASE d = c /\ c \in 1 .. Len(owner) /\ actualURL'[c] = actualURL[c]
        BY <1>0, <1>3, <3>1, <4>3 DEF OfStream
      <4> QED
        BY <1>1, <4>1, <4>2, <4>3
    <3> QED
      BY <3>1
  <2>7. Disjoint' <=> Disjoint
    BY DEF Disjoint
  <2> QED
    BY <2>1, <2>2, <2>3, <2>4, <2>6, <2>7 DEF OfStream
<1> QED
  BY <1>2, <1>6, <1>9, <1>10, <1>11, <1>12 DEF RegistryInv

\* A request goes on with what the registry has, and no coordinator changes but for
\* the URL that it is tied to.
LEMMA GoesOn ==
    ASSUME RegistryInv, NEW r \in Requests, pc[r] \in {"round", "redirect"},
           NEW p \in {"redirect", "enter"}, pc' = [pc EXCEPT ![r] = p],
           NEW c \in 1 .. Len(owner), coord' = [coord EXCEPT ![r] = c],
           Disjoint => owner[c] = stream[r],
           NEW n \in Nat \ {0}, res' = [res EXCEPT ![r] = n], n \in 1 .. Len(results'),
           Disjoint => results'[n] \in UrlsOf[stream[r]],
           results' \in Seq(Urls), Len(results) <= Len(results'),
           \A m \in 1 .. Len(results) : results'[m] = results[m],
           actualURL' \in Seq(Urls \cup {NoUrl}), Len(actualURL') = Len(owner),
           \A d \in 1 .. Len(owner) : actualURL'[d] # actualURL[d] /\ Disjoint =>
                                         actualURL'[d] \in UrlsOf[owner[d]],
           UNCHANGED <<coordinators, owner, ClientCount, writer, using, LBResultOnWrite,
                       stream, told, cleaning>>
    PROVE  RegistryInv'
<1>0. CoordTypes /\ RequestTypes /\ OfStream
  BY DEF RegistryInv
<1>1. \A q \in Requests : q # r => coord'[q] = coord[q] /\ pc'[q] = pc[q] /\ res'[q] = res[q]
  BY <1>0 DEF CoordTypes, RequestTypes
<1>2. coord'[r] = c /\ pc'[r] = p /\ res'[r] = n
  BY <1>0 DEF CoordTypes, RequestTypes
<1>3. CoordTypes'
  BY <1>0 DEF CoordTypes
<1>4. Len(results) \in Nat /\ Len(results') \in Nat
  BY <1>0 DEF RequestTypes
<1>5. RequestTypes'
  <2>1. pc' \in [Requests -> {"idle", "round", "redirect", "enter", "watching"}]
        /\ res' \in [Requests -> 0 .. Len(results')]
    BY <1>0, <1>4 DEF RequestTypes
  <2>2. \A d \in 1 .. Len(owner) : using[d] \in Nat /\ LBResultOnWrite[d] \in Nat
    BY <1>0, OneCoordinator
  <2>3. \A d \in 1 .. Len(owner) : using[d] <= Len(results') /\ LBResultOnWrite[d] <= Len(results')
    BY <1>0, <1>4, <2>2 DEF RequestTypes
  <2> QED
    BY <1>0, <2>1, <2>3 DEF RequestTypes
<1>6. \A q \in Requests : Located(q)'
  BY <1>1, <1>2 DEF RegistryInv, Located
<1>7. \A d \in 1 .. Len(owner) : Writing(d)' /\ Counted(d)'
  <2> SUFFICES ASSUME NEW d \in 1 .. Len(owner) PROVE Writing(d)' /\ Counted(d)'
    OBVIOUS
  <2>1. Writing(d)'
    BY DEF RegistryInv, Writing
  <2>2. Counted(d)'
    BY <1>1, <1>2, SameWatchers DEF RegistryInv
  <2> QED
    BY <2>1, <2>2
<1>8. OfStream'
  <2>1. Disjoint' <=> Disjoint
    BY DEF Disjoint
  <2>2. \A q \in Requests : coord'[q] # 0 /\ Disjoint => owner[coord'[q]] = stream[q]
    BY <1>0, <1>1, <1>2 DEF OfStream
  <2>3. \A q \in Requests : res'[q] # 0 /\ Disjoint => results'[res'[q]] \in UrlsOf[stream[q]]
    <3>1. \A q \in Requests : res[q] # 0 => res[q] \in 1 .. Len(results)
      BY <1>0 DEF RequestTypes
    <3> QED
      BY <1>0, <1>1, <1>2, <3>1 DEF OfStream
  <2>4. \A d \in 1 .. Len(owner) : Disjoint /\ using[d] # 0 => results'[using[d]] \in UrlsOf[owner[d]]
    <3>1. \A d \in 1 .. Len(owner) : using[d] # 0 => using[d] \in 1 .. Len(results)
      <4>1. \A d \in 1 .. Len(owner) : using[d] \in Nat /\ using[d] <= Len(results)
        BY <1>0, OneCoordinator DEF RequestTypes
      <4> QED
        BY <1>4, <4>1
    <3> QED
      BY <1>0, <3>1 DEF OfStream
  <2>5. \A d \in 1 .. Len(owner) : Disjoint /\ actualURL'[d] # NoUrl => actualURL'[d] \in UrlsOf[owner[d]]
    BY <1>0 DEF OfStream
  <2> QED
    BY <1>0, <2>1, <2>2, <2>3, <2>4, <2>5 DEF OfStream
<1> QED
  BY <1>3, <1>5, <1>6, <1>7, <1>8 DEF RegistryInv

\* HandleStream counts its client in and starts a writer with the client's result.
LEMMA EnterInv ==
    ASSUME RegistryInv, NEW r \in Requests, Enter(r)
    PROVE  RegistryInv'
<1>0. CoordTypes /\ RequestTypes /\ OfStream /\ Located(r)
  BY DEF RegistryInv
<1>c. PICK c \in 1 .. Len(owner) : c = coord[r]
  BY HoldsOne DEF Enter
<1>1. /\ c \in 1 .. Len(owner) /\ stream[r] \in Streams
      /\ res[r] \in 1 .. Len(results) /\ res[r] # 0 /\ pc[r] = "enter" /\ res[r] \in Nat
  BY <1>0, HoldsOne DEF Enter, Located, RequestTypes
<1>2. Writing(c) /\ Counted(c)
  BY <1>1 DEF RegistryInv
<1>3. /\ ClientCount' = [ClientCount EXCEPT ![c] = @ + 1]
      /\ writer' = [writer EXCEPT ![c] = IF WriterActive(c) THEN @ ELSE "starting"]
      /\ using' = [using EXCEPT ![c] = IF WriterActive(c) THEN @ ELSE res[r]]
      /\ pc' = [pc EXCEPT ![r] = "watching"] /\ res' = [res EXCEPT ![r] = 0]
      /\ UNCHANGED <<coordinators, owner, actualURL, LBResultOnWrite, results, stream, coord, told, cleaning>>
  BY <1>c DEF Enter, Goto
<1>4. /\ ClientCount' \in Seq(Nat) /\ Len(ClientCount') = Len(owner)
      /\ ClientCount'[c] = ClientCount[c] + 1
      /\ \A d \in 1 .. Len(owner) : d # c => ClientCount'[d] = ClientCount[d]
  <2>1. ClientCount[c] + 1 \in Nat
    BY <1>0, <1>1, OneCoordinator
  <2> QED
    BY <1>0, <1>1, <1>3, <2>1, Replacing DEF CoordTypes
<1>5. /\ writer' \in Seq(WriterStates) /\ Len(writer') = Len(owner)
      /\ writer'[c] = IF WriterActive(c) THEN writer[c] ELSE "starting"
      /\ \A d \in 1 .. Len(owner) : d # c => writer'[d] = writer[d]
  <2>1. PICK e \in WriterStates : /\ e = (IF WriterActive(c) THEN writer[c] ELSE "starting")
                                  /\ writer' = [writer EXCEPT ![c] = e]
    BY <1>0, <1>1, <1>3, OneCoordinator DEF WriterStates
  <2>2. writer \in Seq(WriterStates) /\ Len(writer) = Len(owner)
    BY <1>0 DEF CoordTypes
  <2> QED
    BY <1>1, <2>1, <2>2, Replacing
<1>6. /\ using' \in Seq(Nat) /\ Len(using') = Len(owner)
      /\ using'[c] = IF WriterActive(c) THEN using[c] ELSE res[r]
      /\ \A d \in 1 .. Len(owner) : d # c => using'[d] = using[d]
  <2>1. PICK e \in Nat : /\ e = (IF WriterActive(c) THEN using[c] ELSE res[r])
                         /\ using' = [using EXCEPT ![c] = e]
    BY <1>0, <1>1, <1>3, OneCoordinator
  <2>2. using \in Seq(Nat) /\ Len(using) = Len(owner)
    BY <1>0 DEF CoordTypes
  <2> QED
    BY <1>1, <2>1, <2>2, Replacing
<1>7. CoordTypes'
  BY <1>0, <1>3, <1>4, <1>5, <1>6 DEF CoordTypes
<1>8. RequestTypes'
  <2>1. /\ pc' \in [Requests -> {"idle", "round", "redirect", "enter", "watching"}]
        /\ res' \in [Requests -> 0 .. Len(results)]
    BY <1>0, <1>1, <1>3 DEF RequestTypes
  <2>2. \A d \in 1 .. Len(owner) : using'[d] <= Len(results)
    BY <1>0, <1>1, <1>6 DEF RequestTypes
  <2> QED
    BY <1>0, <1>3, <2>1, <2>2 DEF RequestTypes
<1>9. \A q \in Requests : Located(q)'
  BY <1>0, <1>1, <1>3 DEF RegistryInv, Located, RequestTypes
<1>10. \A d \in 1 .. Len(owner) : Writing(d)'
  <2>1. ASSUME NEW d \in 1 .. Len(owner), d # c PROVE Writing(d)'
    BY <1>3, <1>5, <1>6, <2>1 DEF RegistryInv, Writing
  <2>2. Writing(c)'
    BY <1>1, <1>2, <1>3, <1>5, <1>6 DEF Writing, WriterActive
  <2> QED
    BY <2>1, <2>2
<1>11. \A d \in 1 .. Len(owner) : Counted(d)'
  <2>1. ASSUME NEW d \in 1 .. Len(owner), d # c PROVE Counted(d)'
    BY <1>c, <1>0, <1>1, <1>3, <1>4, <2>1, SameWatchers DEF RegistryInv, RequestTypes
  <2>2. Counted(c)'
    <3>1. Watchers(c)' = Watchers(c) \cup {r} /\ r \notin Watchers(c)
      BY <1>c, <1>0, <1>1, <1>3 DEF Watchers, RequestTypes
    <3> QED
      BY <1>2, <1>4, <3>1, OneMore DEF Counted
  <2> QED
    BY <2>1, <2>2
<1>12. OfStream'
  <2>1. Disjoint' <=> Disjoint
    BY DEF Disjoint
  <2>2. Disjoint => owner[c] = stream[r] /\ results[res[r]] \in UrlsOf[stream[r]]
    BY <1>c, <1>0, <1>1 DEF OfStream
  <2>3. \A d \in 1 .. Len(owner) : Disjoint /\ using'[d] # 0 => results[using'[d]] \in UrlsOf[owner[d]]
    BY <1>0, <1>1, <1>6, <2>2 DEF OfStream
  <2>4. \A q \in Requests : res'[q] # 0 => res'[q] = res[q]
    BY <1>0, <1>3 DEF RequestTypes
  <2> QED
    BY <1>0, <1>3, <2>1, <2>3, <2>4 DEF OfStream
<1> QED
  BY <1>3, <1>7, <1>8, <1>9, <1>10, <1>11, <1>12 DEF RegistryInv

\* A request that leaves its place, and with it its coordinator unless it goes on to
\* the next round, and is counted out if it watched.
LEMMA Leaves ==
    ASSUME RegistryInv, NEW r \in Requests, pc[r] \in {"round", "watching"},
           \/ Goto(r, "round") /\ UNCHANGED <<stream, coord>>
           \/ Finish(r),
           pc[r] = "watching" => ClientCount' = [ClientCount EXCEPT ![coord[r]] = @ - 1],
           pc[r] # "watching" => ClientCount' = ClientCount,
           told' \in [Requests -> BOOLEAN],
           UNCHANGED <<coordinators, owner, actualURL, writer, using, LBResultOnWrite, results,
                       res, cleaning>>
    PROVE  RegistryInv'
<1>0. CoordTypes /\ RequestTypes /\ OfStream /\ Located(r)
  BY DEF RegistryInv
<1>c. PICK c \in 1 .. Len(owner) : c = coord[r]
  BY HoldsOne
<1>1. c \in 1 .. Len(owner) /\ stream[r] \in Streams /\ res[r] = 0
  BY <1>0, HoldsOne DEF Located
<1>2. Writing(c) /\ Counted(c)
  BY <1>1 DEF RegistryInv
<1>3. /\ \/ pc'[r] = "round" /\ coord'[r] = coord[r] /\ stream'[r] = stream[r]
         \/ pc'[r] = "idle" /\ coord'[r] = 0 /\ stream'[r] = NoStream
      /\ \A q \in Requests : q # r => pc'[q] = pc[q] /\ coord'[q] = coord[q] /\ stream'[q] = stream[q]
  BY <1>0 DEF Goto, Finish, CoordTypes, RequestTypes
<1>4. /\ pc' \in [Requests -> {"idle", "round", "redirect", "enter", "watching"}]
      /\ coord' \in [Requests -> 0 .. Len(owner)]
      /\ stream' \in [Requests -> Streams \cup {NoStream}]
  <2>1. 0 \in 0 .. Len(owner)
    BY <1>0 DEF CoordTypes
  <2>2. \E p \in {"idle", "round"} : pc' = [pc EXCEPT ![r] = p]
    BY DEF Goto, Finish
  <2>3. coord' = coord \/ coord' = [coord EXCEPT ![r] = 0]
    BY DEF Finish
  <2>4. stream' = stream \/ stream' = [stream EXCEPT ![r] = NoStream]
    BY DEF Finish
  <2>5. pc' \in [Requests -> {"idle", "round", "redirect", "enter", "watching"}]
    BY <1>0, <2>2 DEF RequestTypes
  <2>6. coord' \in [Requests -> 0 .. Len(owner)]
    BY <1>0, <2>1, <2>3 DEF CoordTypes
  <2>7. stream' \in [Requests -> Streams \cup {NoStream}]
    BY <1>0, <2>4 DEF RequestTypes
  <2> QED
    BY <2>5, <2>6, <2>7
<1>5. /\ ClientCount' \in Seq(Nat) /\ Len(ClientCount') = Len(owner)
      /\ ClientCount'[c] = IF pc[r] = "watching" THEN ClientCount[c] - 1 ELSE ClientCount[c]
      /\ \A d \in 1 .. Len(owner) : d # c => ClientCount'[d] = ClientCount[d]
  <2>1. CASE pc[r] = "watching"
    <3>1. r \in Watchers(c)
      BY <1>c, <2>1 DEF Watchers
    <3>2. ClientCount[c] - 1 \in Nat
      BY <1>2, <3>1, OneLess DEF Counted
    <3>3. ClientCount' = [ClientCount EXCEPT ![c] = ClientCount[c] - 1]
      BY <1>c, <2>1
    <3> QED
      BY <1>0, <1>1, <2>1, <3>2, <3>3, Replacing DEF CoordTypes
  <2>2. CASE pc[r] # "watching"
    BY <1>0, <2>2 DEF CoordTypes
  <2> QED
    BY <2>1, <2>2
<1>6. CoordTypes' /\ RequestTypes'
  BY <1>0, <1>4, <1>5 DEF CoordTypes, RequestTypes
<1>7. \A q \in Requests : Located(q)'
  BY <1>c, <1>0, <1>1, <1>3 DEF RegistryInv, Located
<1>8. \A d \in 1 .. Len(owner) : Writing(d)'
  BY DEF RegistryInv, Writing
<1>9. \A d \in 1 .. Len(owner) : Counted(d)'
  <2>1. ASSUME NEW d \in 1 .. Len(owner), d # c PROVE Counted(d)'
    BY <1>c, <1>1, <1>3, <1>5, <2>1, SameWatchers DEF RegistryInv
  <2>2. CASE pc[r] = "watching"
    <3>1. Watchers(c)' = Watchers(c) \ {r} /\ r \in Watchers(c)
      BY <1>c, <1>3, <2>2 DEF Watchers
    <3>2. Counted(c)'
      BY <1>2, <1>5, <2>2, <3>1, OneLess DEF Counted
    <3> QED
      BY <2>1, <3>2
  <2>3. CASE pc[r] # "watching"
    <3>1. Counted(c)'
      BY <1>2, <1>3, <1>5, <2>3, SameWatchers
    <3> QED
      BY <2>1, <3>1
  <2> QED
    BY <2>2, <2>3
<1>10. OfStream'
  <2>1. Disjoint' <=> Disjoint
    BY DEF Disjoint
  <2>2. \A q \in Requests : coord'[q] # 0 /\ Disjoint => owner[coord'[q]] = stream'[q]
    BY <1>0, <1>3 DEF OfStream
  <2>3. \A q \in Requests : res[q] # 0 /\ Disjoint => results[res[q]] \in UrlsOf[stream'[q]]
    BY <1>0, <1>1, <1>3 DEF OfStream
  <2> QED
    BY <1>0, <2>1, <2>2, <2>3 DEF OfStream
<1> QED
  BY <1>6, <1>7, <1>8, <1>9, <1>10 DEF RegistryInv

\* Whoever watches stays counted while requests and counts stay.
LEMMA CountsStay ==
    ASSUME RegistryInv, UNCHANGED <<owner, ClientCount, pc, coord>>
    PROVE  \A d \in 1 .. Len(owner) : Counted(d)'
BY SameWatchers DEF RegistryInv

\* The writer of a coordinator begins, returns and ends.
LEMMA WriterInv ==
    ASSUME RegistryInv, NEW c \in Coords, WriterStep(c)
    PROVE  RegistryInv'
<1>0. CoordTypes /\ RequestTypes /\ OfStream
  BY DEF RegistryInv
<1>1. c \in 1 .. Len(owner)
  BY <1>0 DEF Coords, CoordTypes
<1>2. Writing(c) /\ using[c] \in Nat /\ using[c] <= Len(results) /\ Len(results) \in Nat
  BY <1>0, <1>1, OneCoordinator DEF RegistryInv, RequestTypes
<1>3. /\ UNCHANGED <<coordinators, owner, ClientCount, results, pc, stream, coord, res, cleaning>>
      /\ told' \in [Requests -> BOOLEAN]
  <2>1. CASE WriterErrs(c)
    <3>1. told' = [r \in Requests |-> told[r] \/ (pc[r] = "watching" /\ coord[r] = c)]
      BY <2>1 DEF WriterErrs
    <3>2. \A r \in Requests : (told[r] \/ (pc[r] = "watching" /\ coord[r] = c)) \in BOOLEAN
      OBVIOUS
    <3>3. told' \in [Requests -> BOOLEAN]
      BY <3>1, <3>2
    <3> QED
      BY <2>1, <3>3 DEF WriterErrs
  <2>2. CASE WriterBegins(c) \/ WriterReturns(c) \/ WriterEnds(c)
    BY <1>0, <2>2 DEF WriterBegins, WriterReturns, WriterEnds, requestVars, RequestTypes
  <2> QED
    BY <2>1, <2>2 DEF WriterStep
<1>4. PICK w \in WriterStates, u \in {using[c], 0}, l \in {LBResultOnWrite[c], using[c], 0} :
         /\ writer' = [writer EXCEPT ![c] = w]
         /\ using' = [using EXCEPT ![c] = u]
         /\ LBResultOnWrite' = [LBResultOnWrite EXCEPT ![c] = l]
         /\ w = "off" <=> u = 0
         /\ w \in {"running", "closing"} <=> l # 0
         /\ l # 0 => l = u
  <2>0. /\ using = [using EXCEPT ![c] = using[c]]
        /\ LBResultOnWrite = [LBResultOnWrite EXCEPT ![c] = LBResultOnWrite[c]]
    BY <1>0 DEF CoordTypes
  <2>1. CASE WriterBegins(c)
    <3>1. /\ writer' = [writer EXCEPT ![c] = "running"] /\ writer[c] = "starting"
          /\ using' = using /\ LBResultOnWrite' = [LBResultOnWrite EXCEPT ![c] = using[c]]
      BY <2>1 DEF WriterBegins, GotoW
    <3> QED
      BY <1>2, <2>0, <3>1 DEF Writing, WriterStates
  <2>2. CASE WriterErrs(c)
    <3>1. /\ writer' = [writer EXCEPT ![c] = "closing"] /\ writer[c] = "running"
          /\ using' = using /\ LBResultOnWrite' = LBResultOnWrite
      BY <2>2 DEF WriterErrs, GotoW
    <3> QED
      BY <1>2, <2>0, <3>1 DEF Writing, WriterStates
  <2>3. CASE WriterReturns(c)
    <3>1. /\ writer' = [writer EXCEPT ![c] = "returned"] /\ writer[c] = "closing"
          /\ using' = using /\ LBResultOnWrite' = [LBResultOnWrite EXCEPT ![c] = 0]
      BY <2>3 DEF WriterReturns, GotoW
    <3> QED
      BY <1>2, <2>0, <3>1 DEF Writing, WriterStates
  <2>4. CASE WriterEnds(c)
    <3>1. /\ writer' = [writer EXCEPT ![c] = "off"] /\ writer[c] = "returned"
          /\ using' = [using EXCEPT ![c] = 0] /\ LBResultOnWrite' = LBResultOnWrite
      BY <2>4 DEF WriterEnds, GotoW
    <3> QED
      BY <1>2, <2>0, <3>1 DEF Writing, WriterStates
  <2> QED
    BY <2>1, <2>2, <2>3, <2>4 DEF WriterStep
<1>5. LBResultOnWrite[c] \in Nat /\ LBResultOnWrite[c] <= Len(results)
  BY <1>0, <1>1, OneCoordinator DEF RequestTypes
<1>6. /\ writer' \in Seq(WriterStates) /\ Len(writer') = Len(owner) /\ writer'[c] = w
      /\ \A d \in 1 .. Len(owner) : d # c => writer'[d] = writer[d]
  BY <1>0, <1>1, <1>4, Replacing DEF CoordTypes
<1>7. /\ using' \in Seq(Nat) /\ Len(using') = Len(owner) /\ using'[c] = u
      /\ \A d \in 1 .. Len(owner) : d # c => using'[d] = using[d]
  <2>1. u \in Nat /\ using \in Seq(Nat) /\ Len(using) = Len(owner)
    BY <1>0, <1>2, <1>4 DEF CoordTypes
  <2> QED
    BY <1>1, <1>4, <2>1, Replacing
<1>8. /\ LBResultOnWrite' \in Seq(Nat) /\ Len(LBResultOnWrite') = Len(owner) /\ LBResultOnWrite'[c] = l
      /\ \A d \in 1 .. Len(owner) : d # c => LBResultOnWrite'[d] = LBResultOnWrite[d]
  BY <1>0, <1>1, <1>2, <1>4, <1>5, Replacing DEF CoordTypes
<1>9. /\ actualURL' \in Seq(Urls \cup {NoUrl}) /\ Len(actualURL') = Len(owner)
      /\ \A d \in 1 .. Len(owner) : actualURL'[d] # actualURL[d] /\ Disjoint =>
                                       actualURL'[d] \in UrlsOf[owner[d]]
  <2>1. CASE WriterEnds(c)
    <3>1. SetActualURL(c, results[using[c]]) /\ using[c] \in 1 .. Len(results)
      BY <1>2, <2>1 DEF WriterEnds, GotoW, Writing
    <3>2. results[using[c]] \in Urls
      BY <1>0, <3>1 DEF RequestTypes
    <3>3. Disjoint => results[using[c]] \in UrlsOf[owner[c]]
      BY <1>0, <1>1, <1>2, <3>1 DEF OfStream
    <3> QED
      BY <1>0, <1>1, <3>1, <3>2, <3>3, Tying
  <2>2. CASE ~WriterEnds(c)
    <3>1. actualURL' = actualURL
      BY <2>2 DEF WriterStep, WriterBegins, WriterErrs, WriterReturns
    <3> QED
      BY <1>0, <3>1 DEF CoordTypes
  <2> QED
    BY <2>1, <2>2
<1>10. CoordTypes'
  BY <1>0, <1>3, <1>6, <1>7, <1>8, <1>9 DEF CoordTypes
<1>11. RequestTypes'
  <2>1. \A d \in 1 .. Len(owner) : using'[d] <= Len(results) /\ LBResultOnWrite'[d] <= Len(results)
    BY <1>0, <1>2, <1>4, <1>5, <1>7, <1>8 DEF RequestTypes
  <2> QED
    BY <1>0, <1>3, <2>1 DEF RequestTypes
<1>12. \A q \in Requests : Located(q)'
  BY <1>3 DEF RegistryInv, Located
<1>13. \A d \in 1 .. Len(owner) : Writing(d)'
  <2>1. ASSUME NEW d \in 1 .. Len(owner), d # c PROVE Writing(d)'
    BY <1>6, <1>7, <1>8, <2>1 DEF RegistryInv, Writing
  <2>2. Writing(c)'
    BY <1>4, <1>6, <1>7, <1>8 DEF Writing
  <2> QED
    BY <2>1, <2>2
<1>14. \A d \in 1 .. Len(owner) : Counted(d)'
  BY <1>3, CountsStay
<1>15. OfStream'
  <2>1. Disjoint' <=> Disjoint
    BY DEF Disjoint
  <2>2. \A d \in 1 .. Len(owner) : using'[d] # 0 => using'[d] = using[d]
    BY <1>4, <1>7
  <2>3. \A d \in 1 .. Len(owner) : Disjoint /\ using'[d] # 0 => results[using'[d]] \in UrlsOf[owner[d]]
    BY <1>0, <2>2 DEF OfStream
  <2>4. \A d \in 1 .. Len(owner) : Disjoint /\ actualURL'[d] # NoUrl => actualURL'[d] \in UrlsOf[owner[d]]
    BY <1>0, <1>9 DEF OfStream
  <2> QED
    BY <1>0, <1>3, <2>1, <2>3, <2>4 DEF OfStream
<1> QED
  BY <1>3, <1>10, <1>11, <1>12, <1>13, <1>14, <1>15 DEF RegistryInv

\* cleanup only takes entries out of the map.
LEMMA CleanupInv ==
    ASSUME RegistryInv, CleanupStep \/ UNCHANGED vars
    PROVE  RegistryInv'
<1>0. CoordTypes /\ RequestTypes /\ OfStream
  BY DEF RegistryInv
<1>1. /\ UNCHANGED <<coordVars, results, requestVars>> /\ cleaning' \in Streams \cup {NoStream}
      /\ \/ coordinators' = coordinators
         \/ \E s \in Streams : coordinators' = [coordinators EXCEPT ![s] = 0]
  BY <1>0 DEF CleanupStep, CleanupFinds, CleanupRemoves, vars, RequestTypes
<1>2. 0 \in 0 .. Len(owner)
  BY <1>0 DEF CoordTypes
<1>3. /\ coordinators' \in [Streams -> 0 .. Len(owner)]
      /\ \A s \in Streams : coordinators'[s] # 0 => coordinators'[s] = coordinators[s]
  BY <1>0, <1>1, <1>2 DEF CoordTypes
<1>4. CoordTypes' /\ RequestTypes'
  BY <1>0, <1>1, <1>3 DEF CoordTypes, RequestTypes, coordVars, requestVars
<1>5. (\A r \in Requests : Located(r)') /\ \A d \in 1 .. Len(owner) : Writing(d)'
  BY <1>1 DEF RegistryInv, Located, Writing, coordVars, requestVars
<1>6. \A d \in 1 .. Len(owner) : Counted(d)'
  BY <1>1, CountsStay DEF coordVars, requestVars
<1>7. OfStream'
  <2>1. Disjoint' <=> Disjoint
    BY DEF Disjoint
  <2> QED
    BY <1>0, <1>1, <1>3, <2>1 DEF OfStream, coordVars, requestVars
<1> QED
  BY <1>1, <1>4, <1>5, <1>6, <1>7 DEF RegistryInv, coordVars

\* A round takes a result, fresh or borrowed; a borrowed one may be of another URL than
\* the coordinator's, but never of another stream.
LEMMA RoundInv ==
    ASSUME RegistryInv, NEW r \in Requests,
           AskBalancer(r) \/ BorrowResult(r) \/ RedirectFound(r)
    PROVE  RegistryInv'
<1>0. CoordTypes /\ RequestTypes /\ OfStream /\ Located(r)
  BY DEF RegistryInv
<1>1. PICK c \in 1 .. Len(owner) : c = coord[r] /\ stream[r] \in Streams
  BY HoldsOne DEF AskBalancer, BorrowResult, RedirectFound
<1>2. Disjoint => owner[c] = stream[r]
  BY <1>0, <1>1 DEF OfStream
<1>3. /\ coord = [coord EXCEPT ![r] = c] /\ res = [res EXCEPT ![r] = res[r]]
      /\ Len(results) \in Nat /\ results \in Seq(Urls)
      /\ actualURL \in Seq(Urls \cup {NoUrl}) /\ Len(actualURL) = Len(owner)
  BY <1>0, <1>1 DEF CoordTypes, RequestTypes
<1>4. CASE AskBalancer(r)
  <2>1. PICK x \in UrlsOf[stream[r]] : results' = Append(results, x)
    BY <1>4 DEF AskBalancer
  <2>2. x \in Urls
    BY <1>1, <2>1 DEF Urls
  <2> DEFINE n == Len(results) + 1
  <2>3. /\ results' \in Seq(Urls) /\ Len(results') = n /\ results'[n] = x
        /\ \A m \in 1 .. Len(results) : results'[m] = results[m]
    BY <1>3, <2>1, <2>2, Appending
  <2>4. /\ pc[r] = "round" /\ pc' = [pc EXCEPT ![r] = "enter"] /\ res' = [res EXCEPT ![r] = n]
        /\ coord' = coord
        /\ UNCHANGED <<coordinators, owner, ClientCount, writer, using, LBResultOnWrite,
                       stream, told, cleaning, actualURL>>
    BY <1>4 DEF AskBalancer, Goto, coordVars
  <2>5. n \in Nat \ {0} /\ Len(results) <= n /\ n \in 1 .. n
    BY <1>3
  <2> HIDE DEF n
  <2> QED
    BY <1>2, <1>3, <2>1, <2>3, <2>4, <2>5, GoesOn
<1>5. CASE BorrowResult(r)
  <2> DEFINE n == LBResultOnWrite[c]
  <2>1. /\ n # 0 /\ SetActualURL(c, results[n]) /\ pc[r] = "round" /\ res' = [res EXCEPT ![r] = n]
        /\ \E p \in {"enter", "redirect"} : pc' = [pc EXCEPT ![r] = p]
        /\ UNCHANGED <<coordinators, owner, ClientCount, writer, using, LBResultOnWrite,
                       results, stream, coord, told, cleaning>>
    BY <1>1, <1>5 DEF BorrowResult, Goto
  <2>2. n \in 1 .. Len(results) /\ n \in Nat \ {0} /\ n = using[c]
    <3>1. n \in Nat /\ n <= Len(results)
      BY <1>0, OneCoordinator DEF RequestTypes
    <3>2. Writing(c)
      BY DEF RegistryInv
    <3> QED
      BY <1>3, <2>1, <3>1, <3>2 DEF Writing
  <2>3. results[n] \in Urls /\ (Disjoint => results[n] \in UrlsOf[owner[c]])
    BY <1>0, <1>3, <2>2 DEF OfStream
  <2>4. /\ actualURL' \in Seq(Urls \cup {NoUrl}) /\ Len(actualURL') = Len(owner)
        /\ \A d \in 1 .. Len(owner) : actualURL'[d] # actualURL[d] /\ Disjoint =>
                                         actualURL'[d] \in UrlsOf[owner[d]]
    BY <1>0, <2>1, <2>3, Tying
  <2>5. Disjoint => results[n] \in UrlsOf[stream[r]]
    BY <1>2, <2>3
  <2> HIDE DEF n
  <2>6. n \in 1 .. Len(results') /\ results' \in Seq(Urls) /\ Len(results) <= Len(results')
        /\ results' = results /\ coord' = [coord EXCEPT ![r] = c]
    BY <1>3, <2>1, <2>2
  <2>7. PICK p \in {"enter", "redirect"} : pc' = [pc EXCEPT ![r] = p]
    BY <2>1
  <2> QED
    BY <1>2, <2>1, <2>2, <2>4, <2>5, <2>6, <2>7, GoesOn
<1>6. CASE RedirectFound(r)
  <2> DEFINE n == res[r]
  <2>1. PICK e \in TiedTo(results[n]) : coord' = [coord EXCEPT ![r] = e]
    BY <1>6 DEF RedirectFound
  <2>2. e \in 1 .. Len(owner) /\ actualURL[e] = results[n]
    BY <1>0, <2>1 DEF TiedTo, Coords, CoordTypes
  <2>3. /\ pc[r] = "redirect" /\ pc' = [pc EXCEPT ![r] = "enter"]
        /\ UNCHANGED <<coordinators, owner, actualURL, ClientCount, writer, using, LBResultOnWrite,
                       results, res, stream, told, cleaning>>
    BY <1>6 DEF RedirectFound, Goto, coordVars
  <2>4. n \in Nat \ {0} /\ n \in 1 .. Len(results) /\ results[n] \in Urls
    BY <1>0, <1>3, <2>3, HoldsOne DEF Located
  <2>5. results[n] # NoUrl
    BY <2>4, UrlsAreGiven
  <2>6. Disjoint => results[n] \in UrlsOf[stream[r]]
    BY <1>0, <2>4 DEF OfStream
  <2>7. Disjoint => results[n] \in UrlsOf[owner[e]]
    BY <1>0, <2>2, <2>5 DEF OfStream
  <2>8. Disjoint => owner[e] = stream[r]
    BY <1>0, <1>1, <2>2, <2>6, <2>7, OneCoordinator DEF Disjoint
  <2> HIDE DEF n
  <2>9. n \in 1 .. Len(results') /\ results' \in Seq(Urls) /\ Len(results) <= Len(results')
        /\ results' = results /\ res' = [res EXCEPT ![r] = n]
    BY <1>3, <2>3, <2>4 DEF n
  <2> QED
    BY <1>3, <2>1, <2>2, <2>3, <2>4, <2>6, <2>8, <2>9, GoesOn
<1> QED
  BY <1>4, <1>5, <1>6

\* A new request, and one whose redirection finds no coordinator of the URL, is given the
\* coordinator of its stream.
LEMMA AssignInv ==
    ASSUME RegistryInv, NEW r \in Requests, Lookup(r) \/ RedirectMissed(r)
    PROVE  RegistryInv'
<1>0. CoordTypes /\ RequestTypes /\ OfStream /\ Located(r)
  BY DEF RegistryInv
<1>1. CASE Lookup(r)
  <2>1. PICK s \in Streams : LoadOrCreate(r, s, NoUrl) /\ stream' = [stream EXCEPT ![r] = s]
    BY <1>1 DEF Lookup
  <2>2. /\ pc[r] = "idle" /\ pc' = [pc EXCEPT ![r] = "round"] /\ res[r] = 0
        /\ UNCHANGED <<results, res, told, cleaning>>
    BY <1>0, <1>1 DEF Lookup, Goto, Located
  <2>3. \E p \in {"round", "enter"} : pc' = [pc EXCEPT ![r] = p] /\ (p = "enter" <=> res[r] # 0)
    BY <2>2
  <2> QED
    BY <2>1, <2>2, <2>3, Assigned
<1>2. CASE RedirectMissed(r)
  <2> DEFINE url == results[res[r]]
  <2>1. /\ pc[r] = "redirect" /\ pc' = [pc EXCEPT ![r] = "enter"] /\ res[r] # 0
        /\ LoadOrCreate(r, stream[r], url) /\ UNCHANGED <<stream, results, res, told, cleaning>>
    BY <1>0, <1>2 DEF RedirectMissed, Goto, Located
  <2>2. stream[r] \in Streams /\ url \in Urls /\ (Disjoint => url \in UrlsOf[stream[r]])
    BY <1>0, <2>1, HoldsOne DEF OfStream
  <2>3. \E p \in {"round", "enter"} : pc' = [pc EXCEPT ![r] = p] /\ (p = "enter" <=> res[r] # 0)
    BY <2>1
  <2>4. stream' = [stream EXCEPT ![r] = stream[r]]
    BY <1>0, <2>1 DEF RequestTypes
  <2> QED
    BY <2>1, <2>2, <2>3, <2>4, Assigned
<1> QED
  BY <1>1, <1>2

\* GiveUp and Return let go of a coordinator.
LEMMA LeaveInv ==
    ASSUME RegistryInv, NEW r \in Requests, GiveUp(r) \/ Return(r)
    PROVE  RegistryInv'
<1>0. RequestTypes
  BY DEF RegistryInv
<1>1. CASE GiveUp(r)
  BY <1>0, <1>1, Leaves DEF GiveUp, coordVars, RequestTypes
<1>2. CASE Return(r)
  BY <1>0, <1>2, Leaves DEF Return, RequestTypes
<1> QED
  BY <1>1, <1>2

\* RegistryInv is an inductive invariant.
THEOREM RegistryInvariance == Spec => []RegistryInv
<1>1. RegistryInv /\ [Next]_vars => RegistryInv'
  BY AssignInv, RoundInv, EnterInv, LeaveInv, WriterInv, CleanupInv DEF Next, RequestStep
<1> QED
  BY <1>1, RegistryInit, PTL DEF Spec

-----------------------------------------------------------------------------
\* The state of the registry, its coordinators and its requests keeps its types.
THEOREM RegistryTypesKept == Spec => []RegistryTypeOK
<1>1. RegistryInv => RegistryTypeOK
  <2> SUFFICES ASSUME RegistryInv PROVE RegistryTypeOK
    OBVIOUS
  <2>0. CoordTypes /\ RequestTypes
    BY DEF RegistryInv
  <2>1. Coords = 1 .. Len(owner)
    BY <2>0 DEF CoordTypes, Coords
  <2>2. \A c \in Coords :
           /\ actualURL[c] \in Urls \cup {NoUrl} /\ ClientCount[c] \in Nat
           /\ writer[c] \in {"off", "starting", "running", "closing", "returned"}
           /\ {using[c], LBResultOnWrite[c]} \subseteq 0 .. Len(results)
    <3> SUFFICES ASSUME NEW c \in 1 .. Len(owner)
                 PROVE  /\ actualURL[c] \in Urls \cup {NoUrl} /\ ClientCount[c] \in Nat
                        /\ writer[c] \in {"off", "starting", "running", "closing", "returned"}
                        /\ {using[c], LBResultOnWrite[c]} \subseteq 0 .. Len(results)
      BY <2>1
    <3>1. /\ actualURL[c] \in Urls \cup {NoUrl} /\ ClientCount[c] \in Nat
          /\ writer[c] \in {"off", "starting", "running", "closing", "returned"}
          /\ using[c] \in Nat /\ LBResultOnWrite[c] \in Nat
      BY <2>0, OneCoordinator DEF WriterStates
    <3>2. /\ using[c] <= Len(results) /\ LBResultOnWrite[c] <= Len(results) /\ Len(results) \in Nat
      BY <2>0 DEF RequestTypes
    <3> QED
      BY <3>1, <3>2
  <2> QED
    BY <2>0, <2>2 DEF RegistryTypeOK, CoordTypes, RequestTypes
<1> QED
  BY <1>1, RegistryInvariance, PTL

\* No request is led to another stream's coordinator if no URL is listed under two
\* streams (the search by URL in GetOrCreateCoordinator, the borrowed LBResultOnWrite
\* and SetActualURL).
THEOREM KeepsToItsStream == Spec => []OwnStream
<1>1. RegistryInv => OwnStream
  <2> SUFFICES ASSUME RegistryInv, Disjoint
               PROVE  /\ \A r \in Requests, c \in Coords : Holds(r, c) => owner[c] = stream[r]
                      /\ \A c \in Coords : using[c] # 0 => results[using[c]] \in UrlsOf[owner[c]]
    BY DEF OwnStream
  <2>0. CoordTypes /\ OfStream
    BY DEF RegistryInv
  <2>1. Coords = 1 .. Len(owner) /\ 0 \notin Coords
    BY <2>0 DEF CoordTypes, Coords
  <2> QED
    BY <2>0, <2>1 DEF OfStream, Holds
<1> QED
  BY <1>1, RegistryInvariance, PTL

\* The count that cleanup relies on is the number of requests that watch
\* (RegisterClient and UnregisterClient over rounds and redirections).
THEOREM WatchersCounted == Spec => []CountsWatchers
<1>1. RegistryInv => CountsWatchers
  <2> SUFFICES ASSUME RegistryInv, NEW c \in Coords
               PROVE  ClientCount[c] = Cardinality(Watchers(c))
    BY DEF CountsWatchers, Watchers
  <2>1. c \in 1 .. Len(owner)
    BY DEF RegistryInv, CoordTypes, Coords
  <2> QED
    BY <2>1 DEF RegistryInv, Counted
<1> QED
  BY <1>1, RegistryInvariance, PTL

\* A step gives a request only a coordinator that is in the registry, and stores only
\* a new one.
LEMMA NoneRevives ==
    ASSUME RegistryInv, [Next]_vars, NEW c \in Coords,
           ~Mapped(c), \A r \in Requests : ~Holds(r, c)
    PROVE  (~Mapped(c) /\ \A r \in Requests : ~Holds(r, c))'
<1>0. CoordTypes /\ RequestTypes /\ OfStream
  BY DEF RegistryInv
<1>1. c \in 1 .. Len(owner) /\ owner[c] \in Streams /\ c # 0 /\ c # Len(owner) + 1
      /\ coordinators[owner[c]] # c
  BY <1>0, OneCoordinator DEF Coords, CoordTypes, Mapped
<1>2. \A r \in Requests : coord[r] # c
  BY DEF Holds
<1>3. SUFFICES /\ owner'[c] = owner[c] /\ coordinators'[owner[c]] # c
               /\ \A r \in Requests : coord'[r] # c
  BY DEF Mapped, Holds
<1>4. ASSUME NEW r \in Requests, NEW s \in Streams, NEW url \in Urls \cup {NoUrl}, LoadOrCreate(r, s, url)
      PROVE  /\ owner'[c] = owner[c] /\ coordinators'[owner[c]] # c
             /\ \A q \in Requests : coord'[q] # c
  <2>1. CASE coordinators[s] # 0
    <3>1. /\ UNCHANGED <<coordinators, owner>> /\ coord' = [coord EXCEPT ![r] = coordinators[s]]
      BY <1>4, <2>1 DEF LoadOrCreate
    <3>2. coordinators[s] # c
      BY <1>0, <1>1, <2>1 DEF OfStream
    <3> QED
      BY <1>0, <1>1, <1>2, <3>1, <3>2 DEF CoordTypes
  <2>2. CASE coordinators[s] = 0
    <3>1. /\ owner' = Append(owner, s) /\ coordinators' = [coordinators EXCEPT ![s] = Len(owner) + 1]
          /\ coord' = [coord EXCEPT ![r] = Len(owner) + 1]
      BY <1>4, <2>2 DEF LoadOrCreate, Create
    <3>2. owner'[c] = owner[c]
      BY <1>0, <1>1, <3>1, Appending DEF CoordTypes
    <3> QED
      BY <1>0, <1>1, <1>2, <3>1, <3>2 DEF CoordTypes
  <2> QED
    BY <2>1, <2>2
<1>5. ASSUME NEW r \in Requests, Lookup(r) \/ RedirectMissed(r)
      PROVE  /\ owner'[c] = owner[c] /\ coordinators'[owner[c]] # c
             /\ \A q \in Requests : coord'[q] # c
  <2>1. CASE Lookup(r)
    BY <1>4, <2>1 DEF Lookup
  <2>2. CASE RedirectMissed(r)
    <3>1. stream[r] \in Streams /\ results[res[r]] \in Urls
      BY <2>2, HoldsOne DEF RedirectMissed, RegistryInv, Located
    <3> QED
      BY <1>4, <2>2, <3>1 DEF RedirectMissed
  <2> QED
    BY <1>5, <2>1, <2>2
<1>6. ASSUME NEW r \in Requests, RedirectFound(r)
      PROVE  /\ owner'[c] = owner[c] /\ coordinators'[owner[c]] # c
             /\ \A q \in Requests : coord'[q] # c
  <2>1. PICK e \in TiedTo(results[res[r]]) : coord' = [coord EXCEPT ![r] = e]
    BY <1>6 DEF RedirectFound
  <2>2. Mapped(e) /\ e # c
    BY <2>1 DEF TiedTo
  <2> QED
    BY <1>0, <1>1, <1>2, <1>6, <2>1, <2>2 DEF RedirectFound, coordVars, CoordTypes
<1>7. ASSUME NEW r \in Requests, AskBalancer(r) \/ BorrowResult(r) \/ GiveUp(r) \/ Enter(r) \/ Return(r)
      PROVE  /\ owner'[c] = owner[c] /\ coordinators'[owner[c]] # c
             /\ \A q \in Requests : coord'[q] # c
  <2>1. UNCHANGED <<owner, coordinators>> /\ (coord' = coord \/ coord' = [coord EXCEPT ![r] = 0])
    BY <1>7 DEF AskBalancer, BorrowResult, GiveUp, Enter, Return, Finish, coordVars
  <2> QED
    BY <1>0, <1>1, <1>2, <2>1 DEF CoordTypes
<1>8. ASSUME UNCHANGED vars \/ CleanupStep \/ \E d \in Coords : WriterStep(d)
      PROVE  /\ owner'[c] = owner[c] /\ coordinators'[owner[c]] # c
             /\ \A q \in Requests : coord'[q] # c
  <2>1. /\ UNCHANGED <<owner, coord>>
        /\ coordinators' = coordinators \/ \E s \in Streams : coordinators' = [coordinators EXCEPT ![s] = 0]
    BY <1>0, <1>8 DEF vars, CleanupStep, CleanupFinds, CleanupRemoves, WriterStep, WriterBegins, WriterErrs,
                WriterReturns, WriterEnds, coordVars, requestVars, RequestTypes
  <2> QED
    BY <1>0, <1>1, <1>2, <2>1 DEF CoordTypes
<1> QED
  BY <1>5, <1>6, <1>7, <1>8 DEF Next, RequestStep

\* What left the registry and is held by no request stays so: its ring is garbage.
THEOREM DeadCoordinatorsStayDead == Spec => DeadStaysDead
<1>1. RegistryInv /\ [Next]_vars =>
         [\A c \in Coords :
             ~Mapped(c) /\ (\A r \in Requests : ~Holds(r, c))
                 => (~Mapped(c) /\ \A r \in Requests : ~Holds(r, c))']_vars
  BY NoneRevives
<1> QED
  BY <1>1, RegistryInvariance, PTL DEF Spec, DeadStaysDead

=============================================================================
