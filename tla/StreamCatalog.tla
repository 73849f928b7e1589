--------------------------- MODULE StreamCatalog ----------------------------
(***************************************************************************)
(* What one update makes of the listings of its sources: parseLine writes  *)
(* the URL index that stream requests are resolved with, checkFilter drops *)
(* listings, the sorter (sourceproc/sorting.go) merges the streams of one  *)
(* title in shards that are partly in memory and partly in files, and      *)
(* compileM3U hands over the sorted channels.  The process may stop, and   *)
(* writes may fail, between any two steps.                                 *)
(*                                                                         *)
(* A listing is its place in the order of (SourceM3U, SourceIndex), which  *)
(* is what mergeStreamInfoAttributes compares.  The value of an attribute  *)
(* is the listing it comes from.                                           *)
(***************************************************************************)
EXTENDS Integers, Sequences, FiniteSets, SequencesExt

CONSTANTS Listings, Titles, Sources,
          Lists,      \* the sets of listings that an update may find
          Attrs,      \* the attributes a listing may have, "chno" among them
          Slots,      \* pairs of a shard and a sanitized title
          Shards,
          TitleOf, SourceOf, UrlOf, ShowsOf, ChnoOf, \* of each listing
          Included, Excluded, \* listings that an include / exclude filter matches
          HasIncludes,        \* some include filter is set
          SlotOf,             \* of each title
          RankOf, CleanRankOf, \* the place in string order of a title as it
                              \* is, and of what sanitizeField makes of it
          Unnamable,  \* titles whose base64 form has a "/", or makes the name of
                      \* the index file longer than a file system allows
          ShardOf,    \* of each slot
          Prefixed,   \* of each source: the sources whose index starts with its own
          None,       \* no value
          FlushAt,    \* buffered streams that make a shard be written (250)
          MaxUpdates, MaxCrashes, MaxFaults \* bounds

ASSUME ListingsOrdered == Listings \subseteq Nat
ASSUME ListsListed == Lists \subseteq SUBSET Listings
ASSUME FlushAtPositive == FlushAt \in Nat \ {0}
(* A listing has a title and a source; a title has its slot, by hash and   *)
(* by sanitized name, and the index of a source starts with itself.        *)
ASSUME ListingsPlaced ==
    /\ TitleOf \in [Listings -> Titles] /\ SourceOf \in [Listings -> Sources]
    /\ ShowsOf \in [Listings -> SUBSET Attrs]
    /\ SlotOf \in [Titles -> Slots] /\ ShardOf \in [Slots -> Shards]
    /\ \A i \in Sources : i \in Prefixed[i]
ASSUME SlotsFinite == IsFiniteSet(Slots)
ASSUME TitlesRanked ==
    RankOf \in [Titles -> Nat] /\ CleanRankOf \in [Titles -> Nat]
ASSUME ChannelNumbers == "chno" \in Attrs /\ ChnoOf \in [Listings -> Int]
ASSUME NoneIsNoListing == None \notin Listings

Key == {"title", "tvg-chno"}
Direction == {"asc", "desc"}

VARIABLES
    pc,        \* "down", "idle", "load", "flush"
    sorting,   \* SORTING_KEY and SORTING_DIRECTION
    todo,      \* listings not yet parsed
    streamCh,  \* streams that wait for a worker
    flushing,  \* shards GetSortedEntries has not flushed yet
    index, buffer,  \* shardMap: the slots known, the streams not yet written
    disk, file,     \* each shard file: its state, and what it holds
    critical,
    out, done, \* what the last published playlist lists; how the last update ended
    urlIndex,  \* the files of the streams directory
    torn,      \* those cut off while they were written
    given,     \* history: streams that this update accepted
    dropped,   \* history: streams added while the first of their slot was buffered
    faulty,    \* history: a write of this update failed
    cut,       \* history: "left" by an update cut off, then "carried" by the next
    damaged,   \* history: titles with an index file that failed or was torn
    updates, crashes, faults

sorterVars == <<index, buffer, disk, file>>
indexVars == <<urlIndex, torn, damaged>>
counters == <<updates, crashes, faults>>
vars == <<pc, sorting, todo, streamCh, flushing, sorterVars, critical, out, done,
          indexVars, given, dropped, faulty, cut, counters>>

NoEntries == [k \in Slots |-> None]
Entry == [title : Titles, by : [Attrs -> Listings \cup {None}], from : Listings]
ASSUME NoneIsNoEntry == None \notin Entry

(* The StreamInfo that parseLine makes; URLs is not part of its JSON.  A   *)
(* title is taken to be valid UTF-8: the JSON of a shard changes others.   *)
StreamInfo(l) ==
    [title |-> TitleOf[l],
     by |-> [a \in Attrs |-> IF a \in ShowsOf[l] THEN l ELSE None],
     from |-> l]

(* Mutant: the later stream wins.                                          *)
MergeNewer(base, new) ==
    [base EXCEPT !.by = [a \in Attrs |-> IF new.by[a] = None THEN @[a] ELSE new.by[a]]]

(* The base keeps what it has; only what it lacks is taken from the other. *)
mergeStreamInfoAttributes(base, new) ==
    [title |-> base.title,
     by |-> [a \in Attrs |-> IF base.by[a] = None THEN new.by[a] ELSE base.by[a]],
     from |-> IF new.from < base.from THEN new.from ELSE base.from]

checkFilter(l) == l \in Included \/ (l \notin Excluded /\ ~HasIncludes)

InShard(sh) == {k \in Slots : ShardOf[k] = sh}
Buffered(b, sh) == {k \in InShard(sh) : b[k] # None}
Filed(sh) == {k \in InShard(sh) : file[k] # None}

-----------------------------------------------------------------------------
(* The order of the playlist.                                              *)

(* Strings are sequences of characters, which have the order of their      *)
(* codes; "~" comes after every character of a title's rank.               *)
StringLess(s, t) ==
    \/ \E i \in 1 .. Len(s) : /\ i <= Len(t) /\ s[i] < t[i]
                              /\ \A j \in 1 .. i - 1 : s[j] = t[j]
    \/ IsStrictPrefix(s, t)

Digits[n \in Nat] == IF n < 10 THEN <<n>> ELSE Append(Digits[n \div 10], n % 10)

(* Mutant: numbers are compared without leading zeros.                     *)
Unpadded(n, width) == Digits[n]

Padded(n, width) ==
    LET d == Digits[n]
    IN [i \in 1 .. (IF Len(d) < width THEN width - Len(d) ELSE 0) |-> 0] \o d

MaxInt32 == 2147483647
Tilde == 126
Minus == -3

(* fmt.Sprintf("%0*d"): the sign takes a place of the width.  "-" comes    *)
(* three codes before the digit 0.                                         *)
ZeroPadded(n, width) ==
    IF n < 0 THEN <<Minus>> \o Padded(-n, width - 1) ELSE Padded(n, width)

normalizeNumericField(l, width, direction) ==
    IF l = None THEN <<>>
    ELSE IF direction = "desc" THEN ZeroPadded(MaxInt32 - ChnoOf[l], width)
    ELSE ZeroPadded(ChnoOf[l], width)

normalizeStringField(t, direction) ==
    IF direction = "desc" THEN <<Tilde, RankOf[t]>> ELSE <<CleanRankOf[t]>>

getSortKey(e) ==
    IF sorting.key = "tvg-chno"
    THEN normalizeNumericField(e.by["chno"], 10, sorting.dir)
    ELSE normalizeStringField(e.title, sorting.dir)

(* sort.Slice over the maps of the shards: equal keys come in any order.   *)
SortedBy(s) == \A i, j \in DOMAIN s : i < j => ~StringLess(getSortKey(s[j]), getSortKey(s[i]))

-----------------------------------------------------------------------------
Init ==
    /\ pc = "down" /\ sorting = [key |-> "title", dir |-> "asc"]
    /\ todo = {} /\ streamCh = {} /\ flushing = {}
    /\ index = {} /\ buffer = NoEntries
    /\ disk = [sh \in Shards |-> "none"] /\ file = NoEntries
    /\ critical = FALSE /\ out = <<>> /\ done = "never"
    /\ urlIndex = {} /\ torn = {} /\ damaged = {}
    /\ given = {} /\ dropped = {} /\ faulty = FALSE /\ cut = "no"
    /\ updates = 0 /\ crashes = 0 /\ faults = 0

(* A process starts with the environment it is given.                      *)
Boot(env) ==
    /\ pc = "down"
    /\ pc' = "idle" /\ sorting' = env /\ done' = "never"
    /\ UNCHANGED <<todo, streamCh, flushing, sorterVars, critical, out, indexVars,
                   given, dropped, faulty, cut, counters>>

(* The process stops: shard files, the URL index and the playlist stay.    *)
Stops ==
    /\ crashes < MaxCrashes /\ crashes' = crashes + 1
    /\ pc' = "down"
    /\ todo' = {} /\ streamCh' = {} /\ flushing' = {} /\ index' = {} /\ buffer' = NoEntries
    /\ critical' = FALSE /\ given' = {} /\ dropped' = {} /\ faulty' = FALSE
    /\ cut' = IF pc = "idle" THEN cut ELSE "left"
    /\ done' = "never"
    /\ UNCHANGED <<sorting, out, updates, faults>>

Crash == pc # "down" /\ Stops /\ UNCHANGED <<disk, file, indexVars>>

(* newSortingManager: the directory is not emptied.  What the sources list *)
(* changes from one update to the next.                                    *)
NewUpdate(ls) ==
    /\ pc = "idle" /\ updates < MaxUpdates
    /\ updates' = updates + 1 /\ pc' = "load"
    /\ todo' = ls /\ index' = {} /\ buffer' = NoEntries
    /\ critical' = FALSE /\ done' = "never" /\ given' = {} /\ dropped' = {} /\ faulty' = FALSE
    /\ cut' = IF cut = "left" THEN "carried" ELSE "no"
    /\ UNCHANGED <<sorting, streamCh, flushing, disk, file, out, indexVars, crashes, faults>>

-----------------------------------------------------------------------------
(* parseLine and checkFilter.  Producers and workers run concurrently:     *)
(* listings are parsed, and streams added, in any order.                   *)

IndexFile(l) == [title |-> TitleOf[l], src |-> SourceOf[l], url |-> UrlOf[l]]

Parsed(l) ==
    /\ todo' = todo \ {l}
    /\ streamCh' = IF checkFilter(l) THEN streamCh \cup {l} ELSE streamCh
    /\ given' = IF checkFilter(l) THEN given \cup {l} ELSE given

(* Mutant: one file is kept for a title.                                   *)
ExistsByTitle(l) == \E f \in urlIndex \cup torn : f.title = TitleOf[l]

Exists(l) == IndexFile(l) \in urlIndex \cup torn

parseRest == <<pc, sorting, flushing, sorterVars, critical, out, done, dropped, cut,
               updates, crashes>>

(* The file is there, whatever it holds, or the write succeeds.            *)
ParseLine(l) ==
    /\ pc = "load" /\ l \in todo
    /\ Exists(l) \/ TitleOf[l] \notin Unnamable
    /\ Parsed(l)
    /\ urlIndex' = IF Exists(l) THEN urlIndex ELSE urlIndex \cup {IndexFile(l)}
    /\ UNCHANGED <<parseRest, torn, damaged, faulty, faults>>

(* The directory or the file cannot be written, which is only logged, or   *)
(* os.Stat fails otherwise than for a file that is not there, upon which   *)
(* parseLine does not write it.  For a name with a "/" the one never       *)
(* works, for a name that is too long the other.                           *)
ParseUnwritten(l) ==
    /\ pc = "load" /\ l \in todo /\ ~Exists(l)
    /\ Parsed(l)
    /\ IF TitleOf[l] \in Unnamable
       THEN UNCHANGED <<faulty, faults, damaged>>
       ELSE /\ faults < MaxFaults /\ faults' = faults + 1
            /\ faulty' = TRUE /\ damaged' = damaged \cup {TitleOf[l]}
    /\ UNCHANGED <<parseRest, urlIndex, torn>>

(* The process stops inside os.WriteFile.                                  *)
ParseCut(l) ==
    /\ pc = "load" /\ l \in todo /\ ~Exists(l) /\ TitleOf[l] \notin Unnamable
    /\ torn' = torn \cup {IndexFile(l)} /\ damaged' = damaged \cup {TitleOf[l]}
    /\ Stops /\ UNCHANGED <<disk, file, urlIndex>>

(* ParseStreamInfoBySlug: the token gives the title, and the files whose   *)
(* name starts with the title and the index give the URLs of a source.     *)
LoadStreamURLs(t, i) ==
    {f.url : f \in {g \in urlIndex : g.title = t /\ g.src \in Prefixed[i]}}

-----------------------------------------------------------------------------
(* AddToSorter, which holds the lock of the shard throughout.              *)

Outcome == {"written", "not created", "not encoded"}

(* writeShard: os.Create truncates the file before it is encoded.  "not    *)
(* created" is also a file that readShard could not open before that.      *)
writeShard(sh, entries, how) ==
    /\ IF how = "written" THEN UNCHANGED <<faulty, faults>>
       ELSE faults < MaxFaults /\ faults' = faults + 1 /\ faulty' = TRUE
    /\ file' = CASE how = "written" -> entries
                 [] how = "not created" -> file
                 [] OTHER -> [k \in Slots |-> IF ShardOf[k] = sh THEN None ELSE file[k]]
    /\ disk' = CASE how = "written" -> [disk EXCEPT ![sh] = "good"]
                 [] how = "not created" -> disk
                 [] OTHER -> [disk EXCEPT ![sh] = "corrupt"]

(* What flushShard writes: a buffered stream replaces the one in the file. *)
Flushed(b, sh) == [k \in Slots |-> IF k \in Buffered(b, sh) THEN b[k] ELSE file[k]]

(* The buffer is emptied only after a write that succeeded.                *)
flushShard(sh, b, how) ==
    /\ writeShard(sh, Flushed(b, sh), how)
    /\ buffer' = IF how = "written"
                 THEN [k \in Slots |-> IF ShardOf[k] = sh THEN None ELSE b[k]]
                 ELSE b

(* What a stat of the shard file adds to the index.                        *)
Indexed(k) == index \cup Filed(ShardOf[k])

addRest == <<pc, sorting, todo, flushing, out, done, indexVars, given, cut, updates, crashes>>

(* A slot not seen yet: the stream is buffered, and the shard flushed once *)
(* the buffer is full.                                                     *)
AddNew(l, how) ==
    LET k == SlotOf[TitleOf[l]]
        sh == ShardOf[k]
        b == [buffer EXCEPT ![k] = StreamInfo(l)]
    IN /\ pc = "load" /\ l \in streamCh
       /\ k \notin Indexed(k) /\ disk[sh] # "corrupt"
       /\ streamCh' = streamCh \ {l}
       /\ index' = Indexed(k) \cup {k}
       /\ \/ /\ Cardinality(Buffered(b, sh)) < FlushAt /\ how = "written"
             /\ buffer' = b /\ UNCHANGED <<disk, file, faulty, faults, critical>>
          \/ /\ Cardinality(Buffered(b, sh)) >= FlushAt
             /\ flushShard(sh, b, how)
             /\ critical' = (critical \/ how # "written")
       /\ UNCHANGED <<addRest, dropped>>

(* handleExisting: it looks for the stream in the file only.               *)
AddExisting(l, how) ==
    LET k == SlotOf[TitleOf[l]]
        s == IF file[k] = None THEN StreamInfo(l)
             ELSE mergeStreamInfoAttributes(file[k], StreamInfo(l))
    IN /\ pc = "load" /\ l \in streamCh
       /\ k \in Indexed(k) /\ disk[ShardOf[k]] # "corrupt"
       /\ streamCh' = streamCh \ {l}
       /\ index' = IF k \in index THEN index ELSE Indexed(k)
       /\ writeShard(ShardOf[k], [file EXCEPT ![k] = s], how)
       /\ critical' = (critical \/ how # "written")
       /\ dropped' = IF buffer[k] = None THEN dropped ELSE dropped \cup {l}
       /\ UNCHANGED <<addRest, buffer>>

(* The shard cannot be decoded.                                            *)
AddUnreadable(l) ==
    /\ pc = "load" /\ l \in streamCh /\ disk[ShardOf[SlotOf[TitleOf[l]]]] = "corrupt"
    /\ streamCh' = streamCh \ {l} /\ critical' = TRUE
    /\ UNCHANGED <<addRest, sorterVars, dropped, faulty, faults>>

(* Adding the stream writes the file of its shard.                         *)
Writes(l) ==
    LET k == SlotOf[TitleOf[l]]
    IN k \in Indexed(k) \/ Cardinality(Buffered(buffer, ShardOf[k])) + 1 >= FlushAt

(* The process stops inside writeShard.                                    *)
WriteCut(sh) ==
    /\ disk[sh] # "corrupt"
    /\ \/ pc = "load" /\ \E l \in streamCh : Writes(l) /\ ShardOf[SlotOf[TitleOf[l]]] = sh
       \/ pc = "flush" /\ sh \in flushing /\ Buffered(buffer, sh) # {}
    /\ disk' = [disk EXCEPT ![sh] = "corrupt"]
    /\ file' = [k \in Slots |-> IF ShardOf[k] = sh THEN None ELSE file[k]]
    /\ Stops /\ UNCHANGED indexVars

-----------------------------------------------------------------------------
(* compileM3U.                                                             *)

(* Mutant: the loop stops one shard short.                                 *)
StartFlushingShort ==
    /\ pc = "load" /\ todo = {} /\ streamCh = {}
    /\ pc' = "flush" /\ flushing' = Shards \ {Max(Shards)}
    /\ UNCHANGED <<sorting, todo, streamCh, sorterVars, critical, out, done, indexVars,
                   given, dropped, faulty, cut, counters>>

StartFlushing ==
    /\ pc = "load" /\ todo = {} /\ streamCh = {}
    /\ pc' = "flush" /\ flushing' = Shards
    /\ UNCHANGED <<sorting, todo, streamCh, sorterVars, critical, out, done, indexVars,
                   given, dropped, faulty, cut, counters>>

(* One round of the first loop of GetSortedEntries: an error is logged.    *)
FlushShard(sh, how) ==
    /\ pc = "flush" /\ sh \in flushing /\ \A o \in flushing : sh <= o
    /\ flushing' = flushing \ {sh}
    /\ IF Buffered(buffer, sh) = {} \/ disk[sh] = "corrupt"
       THEN how = "written" /\ UNCHANGED <<buffer, disk, file, faulty, faults>>
       ELSE flushShard(sh, buffer, how)
    /\ UNCHANGED <<pc, sorting, todo, streamCh, index, critical, out, done, indexVars,
                   given, dropped, cut, updates, crashes>>

(* Mutant: sortingMgr.Close is not called after an error.                  *)
CloseUnlessError ==
    /\ UNCHANGED <<cut, faults>>
    /\ IF critical' THEN UNCHANGED <<disk, file>>
       ELSE disk' = [sh \in Shards |-> "none"] /\ file' = NoEntries

(* sortingMgr.Close, whose error is ignored.                               *)
Close ==
    \/ /\ disk' = [sh \in Shards |-> "none"] /\ file' = NoEntries
       /\ UNCHANGED <<cut, faults>>
    \/ /\ faults < MaxFaults /\ faults' = faults + 1 /\ cut' = "left"
       /\ UNCHANGED <<disk, file>>

(* The second loop, the callback and Close.  A shard that cannot be        *)
(* decoded, or a playlist that cannot be written, is critical.             *)
Emit(wrote) ==
    LET read == \A sh \in Shards : disk[sh] # "corrupt"
        entries == {file[k] : k \in {j \in Slots : file[j] # None}}
    IN /\ pc = "flush" /\ flushing = {}
       /\ pc' = "idle" /\ index' = {} /\ buffer' = NoEntries
       /\ faulty' = (faulty \/ ~wrote)
       /\ critical' = (critical \/ ~read \/ ~wrote)
       /\ done' = IF critical' THEN "failed" ELSE "published"
       /\ IF critical' THEN UNCHANGED out
          ELSE \E s \in SetToSeqs(entries) : SortedBy(s) /\ out' = s
       /\ Close
       /\ UNCHANGED <<sorting, todo, streamCh, flushing, indexVars, given, dropped,
                      updates, crashes>>

-----------------------------------------------------------------------------
Next ==
    \/ \E k \in Key, d \in Direction : Boot([key |-> k, dir |-> d])
    \/ Crash
    \/ \E ls \in Lists : NewUpdate(ls)
    \/ \E l \in Listings :
          \/ ParseLine(l) \/ ParseUnwritten(l) \/ ParseCut(l) \/ AddUnreadable(l)
          \/ \E how \in Outcome : AddNew(l, how) \/ AddExisting(l, how)
    \/ StartFlushing
    \/ \E sh \in Shards : \/ WriteCut(sh)
                          \/ \E how \in Outcome : FlushShard(sh, how)
    \/ \E wrote \in BOOLEAN : Emit(wrote)

Spec == Init /\ [][Next]_vars

-----------------------------------------------------------------------------
(* What GetSortedEntries would give at this point of an update.            *)
View == [k \in Slots |-> IF pc \notin {"load", "flush"} THEN None
                         ELSE IF buffer[k] # None THEN buffer[k] ELSE file[k]]

LeftOver == IF pc \in {"load", "flush"} THEN NoEntries ELSE file

Fills(e, f) ==
    /\ f.title = e.title /\ f.from <= e.from
    /\ \A a \in Attrs : e.by[a] # None => f.by[a] = e.by[a]

Table == INSTANCE ChannelTable
            WITH Entries <- Entry, table <- View, left <- LeftOver, failed <- faulty

(* The shards in memory and on disk are one table: whether a stream is     *)
(* buffered, written, merged in the file or flushed over it, a channel     *)
(* keeps what its first stream gave it, none is lost before a write has    *)
(* failed, and only an update that was cut off hands channels to the next. *)
ImplementsTable == Table!Spec

(* A published playlist has every channel that a source listed and the     *)
(* filters let through, with every attribute that one of its listings has, *)
(* in whatever order the workers added them.  Not so if a write failed, a  *)
(* failed flush being only logged; and a listing that comes while the      *)
(* first one of its channel is still buffered gives no attributes.         *)
NothingLost ==
    done = "published" /\ ~faulty =>
        \A l \in given : \E i \in DOMAIN out :
            /\ SlotOf[out[i].title] = SlotOf[TitleOf[l]]
            /\ l \notin dropped => \A a \in ShowsOf[l] : out[i].by[a] # None

(* The files of an update that was cut off, or that Close could not        *)
(* remove, reach no further than the next update.  Every other publishes   *)
(* nothing but what it accepted, and fails only by a write of its own.     *)
LeftoversOnce ==
    cut = "no" =>
        /\ critical => faulty
        /\ done = "published" =>
              \A i \in DOMAIN out :
                  out[i].from \in given /\ \A a \in Attrs : out[i].by[a] \in given \cup {None}

(* A published channel can be played: its title resolves to URLs whatever  *)
(* happened since, and after an update to the URL each source now lists.   *)
(* Not so for a title whose base64 form has a "/" or is too long for the   *)
(* name of a file, or whose index file could not be looked up or written,  *)
(* or was torn: it exists and is never rewritten.                          *)
Resolvable ==
    LET broken == Unnamable \cup damaged
    IN /\ \A i \in DOMAIN out :
             out[i].title \in broken \/ \E s \in Sources : LoadStreamURLs(out[i].title, s) # {}
       /\ \A l \in given \ todo :
             TitleOf[l] \in broken \/ UrlOf[l] \in LoadStreamURLs(TitleOf[l], SourceOf[l])

(* The playlist is in the order of its channel numbers, those without one  *)
(* first, though the keys are compared as strings.  Not so for a number    *)
(* that is negative or above MaxInt32, whose padded strings do not have    *)
(* the order of the numbers.  Titles are ascending in both directions: the *)
(* "~" of a descending key only precedes it, and keeps the title as it is  *)
(* where an ascending key sanitizes it.                                    *)
Sorted ==
    done = "published" =>
        \A i, j \in DOMAIN out : i < j =>
            LET t == out[i].title
                u == out[j].title
                m == out[i].by["chno"]
                n == out[j].by["chno"]
            IN IF sorting.key = "title"
               THEN IF sorting.dir = "asc" THEN CleanRankOf[t] <= CleanRankOf[u]
                    ELSE RankOf[t] <= RankOf[u]
               ELSE \/ m = None
                    \/ /\ n # None
                       /\ {ChnoOf[m], ChnoOf[n]} \subseteq 0 .. MaxInt32 =>
                             IF sorting.dir = "asc" THEN ChnoOf[m] <= ChnoOf[n]
                             ELSE ChnoOf[m] >= ChnoOf[n]

=============================================================================
