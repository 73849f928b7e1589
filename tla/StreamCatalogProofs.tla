------------------------- MODULE StreamCatalogProofs ------------------------
(***************************************************************************)
(* What the sorter and the URL index keep, for any listings, titles,       *)
(* shards and buffer size, whatever fails and wherever the process stops.  *)
(*                                                                         *)
(* Shape is kept by every step, and the rest rests on it:                  *)
(*   Homed     an entry is in the slot of its title, and a buffered one is *)
(*             known to the index, so that a new slot is an empty one;     *)
(*   Streams   what waits for a worker was accepted and parsed;            *)
(*   AtRest    between updates only those cut off leave files behind.      *)
(* With it the table of ChannelTable is implemented, and inductive are:    *)
(*   Own       an update that found none holds only what it accepted;      *)
(*   Found     the title of an entry has a file in the URL index;          *)
(*   Kept      without a failure every accepted stream is in the table;    *)
(*   Written   the shards that were flushed have nothing left to write.    *)
(* and, for the order of the playlist, OrderInv: what is published was     *)
(* sorted under the environment the process still has.  That strings of    *)
(* padded numbers have the order of the numbers is proved from the         *)
(* recursive definition of Digits, by least counterexamples.               *)
(***************************************************************************)
EXTENDS StreamCatalog, FiniteSetTheorems, NaturalsInduction, WellFoundedInduction,
        SequenceTheorems, TLAPS

Cell == Entry \cup {None}
Cells == [Slots -> Cell]
Places == {"down", "idle", "load", "flush"}
IndexFiles == {IndexFile(l) : l \in Listings}

\* Types of the variables, as far as the other parts need them.
CatTypes ==
    /\ pc \in Places /\ todo \subseteq Listings /\ streamCh \subseteq Listings
    /\ index \subseteq Slots /\ buffer \in Cells /\ file \in Cells
    /\ disk \in [Shards -> {"none", "good", "corrupt"}]
    /\ critical \in BOOLEAN /\ faulty \in BOOLEAN
    /\ given \subseteq Listings /\ dropped \subseteq Listings
    /\ urlIndex \subseteq IndexFiles /\ torn \subseteq IndexFiles
    /\ \A i \in DOMAIN out : out[i] \in Entry

\* The slot a listing goes to.
SlotFor(l) == SlotOf[TitleOf[l]]

-----------------------------------------------------------------------------
(* Entries.                                                                *)

\* The entry of a stream shows what the listing shows.
LEMMA InfoTyped ==
    ASSUME NEW l \in Listings
    PROVE  /\ StreamInfo(l) \in Entry /\ StreamInfo(l) # None
           /\ StreamInfo(l).title = TitleOf[l] /\ StreamInfo(l).from = l
           /\ \A a \in Attrs : /\ StreamInfo(l).by[a] \in {l, None}
                               /\ a \in ShowsOf[l] => StreamInfo(l).by[a] # None
           /\ SlotFor(l) \in Slots /\ ShardOf[SlotFor(l)] \in Shards
<1>1. StreamInfo(l) \in Entry
  BY ListingsPlaced DEF StreamInfo, Entry
<1>2. /\ StreamInfo(l).title = TitleOf[l] /\ StreamInfo(l).from = l
      /\ \A a \in Attrs : StreamInfo(l).by[a] = IF a \in ShowsOf[l] THEN l ELSE None
  BY DEF StreamInfo
<1>3. SlotFor(l) \in Slots /\ ShardOf[SlotFor(l)] \in Shards
  BY ListingsPlaced DEF SlotFor
<1> QED
  BY <1>1, <1>2, <1>3, NoneIsNoEntry, NoneIsNoListing

\* A merged entry is of the same channel and only filled in.
LEMMA MergeTyped ==
    ASSUME NEW e \in Entry, NEW f \in Entry
    PROVE  LET g == mergeStreamInfoAttributes(e, f) IN
           /\ g \in Entry /\ g # None /\ g.title = e.title /\ g.from \in {e.from, f.from}
           /\ g.from <= e.from
           /\ \A a \in Attrs : /\ g.by[a] \in {e.by[a], f.by[a]}
                               /\ e.by[a] # None => g.by[a] = e.by[a]
                               /\ f.by[a] # None => g.by[a] # None
<1> DEFINE g == mergeStreamInfoAttributes(e, f)
<1>1. e.from \in Nat /\ f.from \in Nat /\ e.from \in Listings /\ f.from \in Listings
      /\ e.title \in Titles /\ e.by \in [Attrs -> Listings \cup {None}]
      /\ f.by \in [Attrs -> Listings \cup {None}]
  BY ListingsOrdered DEF Entry
<1>2. /\ g.title = e.title
      /\ g.from = IF f.from < e.from THEN f.from ELSE e.from
      /\ g.by = [a \in Attrs |-> IF e.by[a] = None THEN f.by[a] ELSE e.by[a]]
  BY DEF mergeStreamInfoAttributes
<1>3. g \in Entry
  BY <1>1 DEF mergeStreamInfoAttributes, Entry
<1>4. g.from \in {e.from, f.from} /\ g.from <= e.from
  BY <1>1, <1>2
<1>5. \A a \in Attrs : /\ g.by[a] \in {e.by[a], f.by[a]}
                       /\ e.by[a] # None => g.by[a] = e.by[a]
                       /\ f.by[a] # None => g.by[a] # None
  BY <1>2
<1> HIDE DEF g
<1>6. g # None
  BY <1>3, NoneIsNoEntry
<1> QED
  BY <1>2, <1>3, <1>4, <1>5, <1>6 DEF g

-----------------------------------------------------------------------------
(* What the sorter's steps do to the buffer and the shard files.           *)

\* writeShard: the file holds the entries, stays, or loses those of its shard.
LEMMA Writing ==
    ASSUME CatTypes, NEW sh \in Shards, NEW entries \in Cells, NEW how \in Outcome,
           writeShard(sh, entries, how)
    PROVE  /\ file' \in Cells /\ disk' \in [Shards -> {"none", "good", "corrupt"}]
           /\ faulty' \in BOOLEAN /\ (faulty => faulty') /\ (how # "written" => faulty')
           /\ \A t \in Shards : t # sh => disk'[t] = disk[t]
           /\ how # "not encoded" /\ disk[sh] # "corrupt" => disk'[sh] # "corrupt"
           /\ how = "written" => file' = entries
           /\ how = "not created" => file' = file
           /\ how = "not encoded" =>
                 \A k \in Slots : file'[k] = IF ShardOf[k] = sh THEN None ELSE file[k]
<1>0. file \in Cells /\ disk \in [Shards -> {"none", "good", "corrupt"}] /\ faulty \in BOOLEAN
  BY DEF CatTypes
<1>1. faulty' \in BOOLEAN /\ (faulty => faulty') /\ (how # "written" => faulty')
  BY <1>0 DEF writeShard
<1>2. CASE how = "written"
  BY <1>0, <1>1, <1>2 DEF writeShard
<1>3. CASE how = "not created"
  BY <1>0, <1>1, <1>3 DEF writeShard
<1>4. CASE how = "not encoded"
  <2>1. /\ file' = [k \in Slots |-> IF ShardOf[k] = sh THEN None ELSE file[k]]
        /\ disk' = [disk EXCEPT ![sh] = "corrupt"]
    BY <1>4 DEF writeShard
  <2>2. file' \in Cells
    BY <1>0, <2>1 DEF Cells, Cell
  <2> QED
    BY <1>0, <1>1, <1>4, <2>1, <2>2
<1> QED
  BY <1>2, <1>3, <1>4 DEF Outcome

\* flushShard: the buffered entries of the shard go to its file, or stay.
LEMMA Flushing ==
    ASSUME CatTypes, NEW sh \in Shards, NEW b \in Cells, NEW how \in Outcome,
           flushShard(sh, b, how)
    PROVE  /\ file' \in Cells /\ buffer' \in Cells /\ disk' \in [Shards -> {"none", "good", "corrupt"}]
           /\ faulty' \in BOOLEAN /\ (faulty => faulty') /\ (how # "written" => faulty')
           /\ \A t \in Shards : t # sh => disk'[t] = disk[t]
           /\ how # "not encoded" /\ disk[sh] # "corrupt" => disk'[sh] # "corrupt"
           /\ \A k \in Slots :
                 /\ ShardOf[k] # sh => buffer'[k] = b[k] /\ file'[k] = file[k]
                 /\ how = "written" /\ ShardOf[k] = sh =>
                       buffer'[k] = None /\ file'[k] = (IF b[k] # None THEN b[k] ELSE file[k])
                 /\ how # "written" => buffer'[k] = b[k] /\ file'[k] \in {file[k], None}
<1> DEFINE entries == Flushed(b, sh)
<1>0. file \in Cells /\ b \in Cells
  BY DEF CatTypes
<1>1. writeShard(sh, entries, how)
  BY DEF flushShard
<1>2. \A k \in Slots : entries[k] = IF ShardOf[k] = sh /\ b[k] # None THEN b[k] ELSE file[k]
  BY DEF Flushed, Buffered, InShard
<1>3. entries \in Cells
  BY <1>0 DEF Flushed, Cells
<1> HIDE DEF entries
<1>4. /\ file' \in Cells /\ disk' \in [Shards -> {"none", "good", "corrupt"}]
      /\ faulty' \in BOOLEAN /\ (faulty => faulty') /\ (how # "written" => faulty')
      /\ \A t \in Shards : t # sh => disk'[t] = disk[t]
      /\ how # "not encoded" /\ disk[sh] # "corrupt" => disk'[sh] # "corrupt"
      /\ how = "written" => file' = entries
      /\ how = "not created" => file' = file
      /\ how = "not encoded" =>
            \A k \in Slots : file'[k] = IF ShardOf[k] = sh THEN None ELSE file[k]
  BY <1>1, <1>3, Writing
<1>5. buffer' = IF how = "written" THEN [k \in Slots |-> IF ShardOf[k] = sh THEN None ELSE b[k]] ELSE b
  BY DEF flushShard
<1>6. buffer' \in Cells
  BY <1>0, <1>5 DEF Cells, Cell
<1>7. ASSUME NEW k \in Slots
      PROVE  /\ ShardOf[k] # sh => buffer'[k] = b[k] /\ file'[k] = file[k]
             /\ how = "written" /\ ShardOf[k] = sh =>
                   buffer'[k] = None /\ file'[k] = (IF b[k] # None THEN b[k] ELSE file[k])
             /\ how # "written" => buffer'[k] = b[k] /\ file'[k] \in {file[k], None}
  BY <1>2, <1>4, <1>5 DEF Outcome
<1> QED
  BY <1>4, <1>6, <1>7

\* What the sorter holds for a slot.
Holds(k) == IF buffer[k] # None THEN buffer[k] ELSE file[k]

\* The sorter's variables keep their types, and a failure is remembered.
SorterTypes ==
    /\ index \subseteq Slots /\ buffer \in Cells /\ file \in Cells
    /\ disk \in [Shards -> {"none", "good", "corrupt"}]
    /\ critical \in BOOLEAN /\ faulty \in BOOLEAN

\* A shard file is only damaged by a failure.
Remembers ==
    /\ faulty => faulty'
    /\ critical' => critical \/ faulty'
    /\ \A t \in Shards : disk'[t] = "corrupt" => disk[t] = "corrupt" \/ faulty'

\* The first stream of a slot makes its entry, wherever that ends up.
LEMMA AddsNew ==
    ASSUME CatTypes, NEW l \in Listings, NEW how \in Outcome, AddNew(l, how)
    PROVE  LET k == SlotFor(l) IN
           /\ SorterTypes' /\ Remembers
           /\ k \notin index /\ file[k] = None /\ index \subseteq index' /\ k \in index'
           /\ Holds(k)' = StreamInfo(l)
           /\ buffer'[k] \in {StreamInfo(l), None} /\ file'[k] \in {StreamInfo(l), None}
           /\ \A j \in Slots \ {k} :
                 /\ buffer'[j] \in {buffer[j], None} /\ file'[j] \in {file[j], buffer[j], None}
                 /\ Holds(j)' = Holds(j) \/ (faulty' /\ Holds(j)' = None)
<1> DEFINE k == SlotFor(l)
           sh == ShardOf[k]
           b == [buffer EXCEPT ![k] = StreamInfo(l)]
<1>0. /\ k \in Slots /\ sh \in Shards /\ StreamInfo(l) \in Entry /\ StreamInfo(l) # None
      /\ buffer \in Cells /\ file \in Cells /\ index \subseteq Slots /\ critical \in BOOLEAN
      /\ disk \in [Shards -> {"none", "good", "corrupt"}] /\ faulty \in BOOLEAN
  BY InfoTyped DEF CatTypes
<1>1. /\ k \notin Indexed(k) /\ disk[sh] # "corrupt" /\ index' = Indexed(k) \cup {k}
      /\ \/ buffer' = b /\ UNCHANGED <<disk, file, faulty, critical>>
         \/ flushShard(sh, b, how) /\ critical' = (critical \/ how # "written")
  BY DEF AddNew, SlotFor
<1>2. b \in Cells /\ b[k] = StreamInfo(l) /\ \A j \in Slots : j # k => b[j] = buffer[j]
  BY <1>0 DEF Cells, Cell
<1> HIDE DEF b
<1>3. k \notin index /\ file[k] = None /\ index' \subseteq Slots /\ index \subseteq index' /\ k \in index'
  BY <1>0, <1>1 DEF Indexed, Filed, InShard
<1>4. CASE buffer' = b /\ UNCHANGED <<disk, file, faulty, critical>>
  BY <1>0, <1>2, <1>3, <1>4 DEF SorterTypes, Remembers, Holds
<1>5. CASE flushShard(sh, b, how) /\ critical' = (critical \/ how # "written")
  <2>1. /\ file' \in Cells /\ buffer' \in Cells /\ disk' \in [Shards -> {"none", "good", "corrupt"}]
        /\ faulty' \in BOOLEAN /\ (faulty => faulty') /\ (how # "written" => faulty')
        /\ \A t \in Shards : t # sh => disk'[t] = disk[t]
        /\ how # "not encoded" => disk'[sh] # "corrupt"
        /\ \A j \in Slots :
              /\ ShardOf[j] # sh => buffer'[j] = b[j] /\ file'[j] = file[j]
              /\ how = "written" /\ ShardOf[j] = sh =>
                    buffer'[j] = None /\ file'[j] = (IF b[j] # None THEN b[j] ELSE file[j])
              /\ how # "written" => buffer'[j] = b[j] /\ file'[j] \in {file[j], None}
    BY <1>0, <1>1, <1>2, <1>5, Flushing
  <2>2. SorterTypes' /\ Remembers
    BY <1>0, <1>3, <1>5, <2>1 DEF SorterTypes, Remembers
  <2>3. /\ Holds(k)' = StreamInfo(l)
        /\ buffer'[k] \in {StreamInfo(l), None} /\ file'[k] \in {StreamInfo(l), None}
    BY <1>0, <1>2, <1>3, <2>1 DEF Holds
  <2>4. ASSUME NEW j \in Slots \ {k}
        PROVE  /\ buffer'[j] \in {buffer[j], None} /\ file'[j] \in {file[j], buffer[j], None}
               /\ Holds(j)' = Holds(j) \/ (faulty' /\ Holds(j)' = None)
    BY <1>0, <1>2, <2>1 DEF Holds
  <2> QED
    BY <1>3, <2>2, <2>3, <2>4
<1> QED
  BY <1>1, <1>4, <1>5

\* A stream of a slot that is known fills in the entry of the file, or makes one.
LEMMA AddsExisting ==
    ASSUME CatTypes, NEW l \in Listings, NEW how \in Outcome, AddExisting(l, how)
    PROVE  LET k == SlotFor(l)
               s == IF file[k] = None THEN StreamInfo(l)
                    ELSE mergeStreamInfoAttributes(file[k], StreamInfo(l))
           IN
           /\ SorterTypes' /\ Remembers /\ buffer' = buffer /\ index \subseteq index'
           /\ file'[k] \in {s, file[k], None} /\ s \in Entry
           /\ buffer[k] # None => Holds(k)' = Holds(k)
           /\ buffer[k] = None => \/ Holds(k) = file[k] /\ Holds(k)' = s
                                  \/ faulty' /\ Holds(k)' \in {Holds(k), None}
           /\ \A j \in Slots \ {k} :
                 /\ file'[j] \in {file[j], None}
                 /\ Holds(j)' = Holds(j) \/ (faulty' /\ Holds(j)' = None)
<1> DEFINE k == SlotFor(l)
           sh == ShardOf[k]
           s == IF file[k] = None THEN StreamInfo(l)
                ELSE mergeStreamInfoAttributes(file[k], StreamInfo(l))
           entries == [file EXCEPT ![k] = s]
<1>0. /\ k \in Slots /\ sh \in Shards /\ StreamInfo(l) \in Entry /\ StreamInfo(l) # None
      /\ buffer \in Cells /\ file \in Cells /\ index \subseteq Slots /\ critical \in BOOLEAN
      /\ disk \in [Shards -> {"none", "good", "corrupt"}] /\ faulty \in BOOLEAN
  BY InfoTyped DEF CatTypes
<1>1. /\ writeShard(sh, entries, how) /\ critical' = (critical \/ how # "written")
      /\ buffer' = buffer /\ index' = (IF k \in index THEN index ELSE Indexed(k)) /\ disk[sh] # "corrupt"
  BY DEF AddExisting, SlotFor
<1>2. s \in Entry
  <2>1. file[k] \in Entry \/ file[k] = None
    BY <1>0 DEF Cells, Cell
  <2> QED
    BY <1>0, <2>1, MergeTyped
<1> HIDE DEF s
<1>3. entries \in Cells /\ entries[k] = s /\ \A j \in Slots : j # k => entries[j] = file[j]
  BY <1>0, <1>2 DEF Cells, Cell
<1> HIDE DEF entries
<1>4. /\ file' \in Cells /\ disk' \in [Shards -> {"none", "good", "corrupt"}]
      /\ faulty' \in BOOLEAN /\ (faulty => faulty') /\ (how # "written" => faulty')
      /\ \A t \in Shards : t # sh => disk'[t] = disk[t]
      /\ how # "not encoded" /\ disk[sh] # "corrupt" => disk'[sh] # "corrupt"
      /\ how = "written" => file' = entries
      /\ how = "not created" => file' = file
      /\ how = "not encoded" =>
            \A j \in Slots : file'[j] = IF ShardOf[j] = sh THEN None ELSE file[j]
  BY <1>0, <1>1, <1>3, Writing
<1>5. SorterTypes' /\ Remembers /\ index \subseteq index'
  <2>1. index' \subseteq Slots /\ index \subseteq index'
    BY <1>0, <1>1 DEF Indexed, Filed, InShard
  <2> QED
    BY <1>0, <1>1, <1>4, <2>1 DEF SorterTypes, Remembers
<1>6. /\ file'[k] \in {s, file[k], None}
      /\ how = "written" => file'[k] = s
      /\ how # "written" => faulty' /\ file'[k] \in {file[k], None}
  BY <1>0, <1>3, <1>4 DEF Outcome
<1>7. /\ buffer[k] # None => Holds(k)' = Holds(k)
      /\ buffer[k] = None => \/ Holds(k) = file[k] /\ Holds(k)' = s
                             \/ faulty' /\ Holds(k)' \in {Holds(k), None}
  BY <1>0, <1>1, <1>6 DEF Holds
<1>8. ASSUME NEW j \in Slots \ {k}
      PROVE  /\ file'[j] \in {file[j], None}
             /\ Holds(j)' = Holds(j) \/ (faulty' /\ Holds(j)' = None)
  <2>1. file'[j] = file[j] \/ (faulty' /\ file'[j] = None)
    BY <1>0, <1>3, <1>4, <1>8 DEF Outcome
  <2> QED
    BY <1>1, <1>8, <2>1 DEF Holds
<1> QED
  BY <1>1, <1>2, <1>5, <1>6, <1>7, <1>8 DEF s

\* A flush moves the entries of a shard; only one that fails can lose some.
LEMMA Flushes ==
    ASSUME CatTypes, NEW sh \in Shards, NEW how \in Outcome, FlushShard(sh, how)
    PROVE  /\ SorterTypes' /\ Remembers /\ UNCHANGED <<critical, index>>
           /\ \A t \in Shards : t # sh => disk'[t] = disk[t]
           /\ \A j \in Slots :
                 /\ buffer'[j] \in {buffer[j], None} /\ file'[j] \in {file[j], buffer[j], None}
                 /\ Holds(j)' = Holds(j) \/ (faulty' /\ Holds(j)' = None)
                 /\ ShardOf[j] = sh => buffer'[j] = None \/ faulty' \/ disk'[sh] = "corrupt"
<1>0. /\ buffer \in Cells /\ file \in Cells /\ index \subseteq Slots /\ critical \in BOOLEAN
      /\ disk \in [Shards -> {"none", "good", "corrupt"}] /\ faulty \in BOOLEAN
  BY DEF CatTypes
<1>1. critical' = critical /\ index' = index
  BY DEF FlushShard
<1>2. CASE Buffered(buffer, sh) = {} \/ disk[sh] = "corrupt"
  <2>1. UNCHANGED <<buffer, disk, file, faulty>>
    BY <1>2 DEF FlushShard
  <2>2. \A j \in Slots : ShardOf[j] = sh => buffer'[j] = None \/ disk'[sh] = "corrupt"
    BY <1>2, <2>1 DEF Buffered, InShard
  <2> QED
    BY <1>0, <1>1, <2>1, <2>2 DEF SorterTypes, Remembers, Holds
<1>3. CASE ~(Buffered(buffer, sh) = {} \/ disk[sh] = "corrupt")
  <2>0. flushShard(sh, buffer, how)
    BY <1>3 DEF FlushShard
  <2>1. /\ file' \in Cells /\ buffer' \in Cells /\ disk' \in [Shards -> {"none", "good", "corrupt"}]
        /\ faulty' \in BOOLEAN /\ (faulty => faulty') /\ (how # "written" => faulty')
        /\ \A t \in Shards : t # sh => disk'[t] = disk[t]
        /\ how # "not encoded" => disk'[sh] # "corrupt"
        /\ \A j \in Slots :
              /\ ShardOf[j] # sh => buffer'[j] = buffer[j] /\ file'[j] = file[j]
              /\ how = "written" /\ ShardOf[j] = sh =>
                    buffer'[j] = None /\ file'[j] = (IF buffer[j] # None THEN buffer[j] ELSE file[j])
              /\ how # "written" => buffer'[j] = buffer[j] /\ file'[j] \in {file[j], None}
    BY <1>0, <1>3, <2>0, Flushing
  <2>2. SorterTypes' /\ Remembers
    BY <1>0, <1>1, <2>1 DEF SorterTypes, Remembers
  <2>3. ASSUME NEW j \in Slots
        PROVE  /\ buffer'[j] \in {buffer[j], None} /\ file'[j] \in {file[j], buffer[j], None}
               /\ Holds(j)' = Holds(j) \/ (faulty' /\ Holds(j)' = None)
               /\ ShardOf[j] = sh => buffer'[j] = None \/ faulty' \/ disk'[sh] = "corrupt"
    BY <2>1, <2>3 DEF Holds
  <2> QED
    BY <1>1, <2>1, <2>2, <2>3
<1> QED
  BY <1>2, <1>3

\* What the playlist lists is what the shard files hold, each entry once.
LEMMA Emits ==
    ASSUME CatTypes, NEW wrote \in BOOLEAN, Emit(wrote), ~critical'
    PROVE  /\ \A i \in DOMAIN out' : \E k \in Slots : file[k] # None /\ out'[i] = file[k]
           /\ \A k \in Slots : file[k] # None => \E i \in DOMAIN out' : out'[i] = file[k]
<1> DEFINE named == {j \in Slots : file[j] # None}
           entries == {file[k] : k \in named}
           D == 1 .. Cardinality(entries)
           at == [k \in named |-> file[k]]
<1>1. PICK s \in SetToSeqs(entries) : out' = s
  BY DEF Emit
<1>2. IsFiniteSet(named)
  BY SlotsFinite, FS_Subset
<1>3. at \in Surjection(named, entries)
  BY DEF Surjection
<1>4. IsFiniteSet(entries)
  <2> HIDE DEF entries, named, at
  <2> QED
    BY <1>2, <1>3, FS_Surjection
<1> HIDE DEF entries
<1>5. s \in [D -> entries] /\ \A i, j \in D : i # j => s[i] # s[j]
  BY DEF SetToSeqs
<1>6. Cardinality(entries) \in Nat
  BY <1>4, FS_CardinalityType
<1>7. IsFiniteSet(D) /\ Cardinality(D) = Cardinality(entries)
  BY <1>6, FS_Interval
<1>8. s \in Injection(D, entries)
  <2>1. \A i, j \in D : s[i] = s[j] => i = j
    BY <1>5
  <2> HIDE DEF D
  <2>2. IsInjective(s)
    BY <1>5, <2>1 DEF IsInjective
  <2> QED
    BY <1>5, <2>2 DEF Injection
<1>9. s \in Surjection(D, entries)
  <2> HIDE DEF D
  <2> QED
    BY <1>4, <1>7, <1>8, FS_Injection
<1>10. \A e \in entries : \E i \in D : s[i] = e
  <2> HIDE DEF D
  <2> QED
    BY <1>9 DEF Surjection
<1>11. DOMAIN out' = D /\ \A i \in D : out'[i] \in entries
  BY <1>1, <1>5
<1> HIDE DEF D
<1>12. \A i \in DOMAIN out' : \E k \in Slots : file[k] # None /\ out'[i] = file[k]
  BY <1>11 DEF entries
<1>13. \A k \in Slots : file[k] # None => \E i \in DOMAIN out' : out'[i] = file[k]
  BY <1>1, <1>10, <1>11 DEF entries
<1> QED
  BY <1>12, <1>13

\* What stays when the process stops.
LEMMA Halts ==
    ASSUME CatTypes, Stops,
           file' \in Cells, disk' \in [Shards -> {"none", "good", "corrupt"}],
           urlIndex' \subseteq IndexFiles, torn' \subseteq IndexFiles
    PROVE  /\ CatTypes' /\ pc' = "down" /\ buffer' = NoEntries
           /\ streamCh' = {} /\ given' = {} /\ todo' = {} /\ index' = {} /\ out' = out
           /\ done' = "never" /\ critical' = FALSE /\ faulty' = FALSE
           /\ cut' = IF pc = "idle" THEN cut ELSE "left"
<1>1. /\ pc' = "down" /\ buffer' = NoEntries
      /\ streamCh' = {} /\ given' = {} /\ dropped' = {} /\ todo' = {} /\ index' = {} /\ out' = out
      /\ done' = "never" /\ critical' = FALSE /\ faulty' = FALSE
      /\ cut' = IF pc = "idle" THEN cut ELSE "left"
  BY DEF Stops
<1>2. NoEntries \in Cells
  BY DEF NoEntries, Cells, Cell
<1>3. CatTypes'
  BY <1>1, <1>2 DEF CatTypes, Places
<1> QED
  BY <1>1, <1>3

\* A process stops and leaves at most the entries that its files held.
Halting ==
    \/ Crash
    \/ \E l \in Listings : ParseCut(l)
    \/ \E sh \in Shards : WriteCut(sh)

\* The three ways a process stops.
LEMMA HaltsAnywhere ==
    ASSUME CatTypes, Halting
    PROVE  /\ CatTypes' /\ pc' = "down" /\ buffer' = NoEntries
           /\ streamCh' = {} /\ given' = {} /\ todo' = {} /\ index' = {} /\ out' = out
           /\ done' = "never" /\ critical' = FALSE /\ faulty' = FALSE
           /\ cut' = IF pc = "idle" THEN cut ELSE "left"
           /\ \A k \in Slots : file'[k] \in {file[k], None}
           /\ pc = "idle" => file' = file /\ disk' = disk
           /\ pc # "down" /\ urlIndex' = urlIndex /\ damaged \subseteq damaged'
           /\ torn \subseteq torn' /\ \A f \in torn' : f \in torn \/ f.title \in damaged'
<1>0. file \in Cells /\ disk \in [Shards -> {"none", "good", "corrupt"}]
      /\ urlIndex \subseteq IndexFiles /\ torn \subseteq IndexFiles
  BY DEF CatTypes
<1>1. CASE Crash
  BY <1>0, <1>1, Halts DEF Crash, indexVars
<1>2. ASSUME NEW l \in Listings, ParseCut(l) PROVE
           /\ CatTypes' /\ pc' = "down" /\ buffer' = NoEntries
           /\ streamCh' = {} /\ given' = {} /\ todo' = {} /\ index' = {} /\ out' = out
           /\ done' = "never" /\ critical' = FALSE /\ faulty' = FALSE
           /\ cut' = IF pc = "idle" THEN cut ELSE "left"
           /\ \A k \in Slots : file'[k] \in {file[k], None}
           /\ pc = "idle" => file' = file /\ disk' = disk
           /\ pc # "down" /\ urlIndex' = urlIndex /\ damaged \subseteq damaged'
           /\ torn \subseteq torn' /\ \A f \in torn' : f \in torn \/ f.title \in damaged'
  <2>1. /\ pc = "load" /\ Stops /\ UNCHANGED <<disk, file, urlIndex>>
        /\ torn' = torn \cup {IndexFile(l)} /\ damaged' = damaged \cup {TitleOf[l]}
    BY <1>2 DEF ParseCut
  <2>2. IndexFile(l) \in IndexFiles /\ IndexFile(l).title = TitleOf[l]
    BY DEF IndexFiles, IndexFile
  <2> QED
    BY <1>0, <2>1, <2>2, Halts
<1>3. ASSUME NEW sh \in Shards, WriteCut(sh) PROVE
           /\ CatTypes' /\ pc' = "down" /\ buffer' = NoEntries
           /\ streamCh' = {} /\ given' = {} /\ todo' = {} /\ index' = {} /\ out' = out
           /\ done' = "never" /\ critical' = FALSE /\ faulty' = FALSE
           /\ cut' = IF pc = "idle" THEN cut ELSE "left"
           /\ \A k \in Slots : file'[k] \in {file[k], None}
           /\ pc = "idle" => file' = file /\ disk' = disk
           /\ pc # "down" /\ urlIndex' = urlIndex /\ damaged \subseteq damaged'
           /\ torn \subseteq torn' /\ \A f \in torn' : f \in torn \/ f.title \in damaged'
  <2>1. /\ pc \in {"load", "flush"} /\ Stops /\ UNCHANGED <<urlIndex, torn, damaged>>
        /\ disk' = [disk EXCEPT ![sh] = "corrupt"]
        /\ file' = [k \in Slots |-> IF ShardOf[k] = sh THEN None ELSE file[k]]
    BY <1>3 DEF WriteCut, indexVars
  <2>2. file' \in Cells /\ disk' \in [Shards -> {"none", "good", "corrupt"}]
    BY <1>0, <2>1 DEF Cells, Cell
  <2> QED
    BY <1>0, <2>1, <2>2, Halts
<1> QED
  BY <1>1, <1>2, <1>3 DEF Halting

\* The types are kept.
LEMMA TypesInv == CatTypes /\ [Next]_vars => CatTypes'
<1> SUFFICES ASSUME CatTypes, [Next]_vars PROVE CatTypes'
  OBVIOUS
<1> USE DEF sorterVars, indexVars, counters, parseRest, addRest
<1>0. NoEntries \in Cells /\ [sh \in Shards |-> "none"] \in [Shards -> {"none", "good", "corrupt"}]
  BY DEF NoEntries, Cells, Cell
<1>p. {"down", "idle", "load", "flush"} = Places
  BY DEF Places
<1>1. CASE UNCHANGED vars
  BY <1>1 DEF vars, CatTypes
<1>2. ASSUME NEW e, Boot(e) PROVE CatTypes'
  BY <1>2, <1>p DEF Boot, CatTypes
<1>3. CASE Halting
  BY <1>3, HaltsAnywhere
<1>4. ASSUME NEW ls \in Lists, NewUpdate(ls) PROVE CatTypes'
  <2>1. ls \subseteq Listings /\ pc' \in Places
    BY <1>4, <1>p, ListsListed DEF NewUpdate
  <2> QED
    BY <1>0, <1>4, <2>1 DEF NewUpdate, CatTypes
<1>5. ASSUME NEW l \in Listings, ParseLine(l) \/ ParseUnwritten(l) PROVE CatTypes'
  <2>1. todo' \subseteq Listings /\ streamCh' \subseteq Listings /\ given' \subseteq Listings
    BY <1>5 DEF ParseLine, ParseUnwritten, Parsed, CatTypes
  <2>2. urlIndex' \subseteq IndexFiles
    BY <1>5 DEF ParseLine, ParseUnwritten, CatTypes, IndexFiles
  <2>3. faulty' \in BOOLEAN
    BY <1>5 DEF ParseLine, ParseUnwritten, CatTypes
  <2> QED
    BY <1>5, <2>1, <2>2, <2>3 DEF ParseLine, ParseUnwritten, CatTypes
<1>6. ASSUME NEW l \in Listings, AddUnreadable(l) PROVE CatTypes'
  BY <1>6 DEF AddUnreadable, CatTypes
<1>7. ASSUME NEW l \in Listings, NEW how \in Outcome, AddNew(l, how) \/ AddExisting(l, how) PROVE CatTypes'
  <2>1. SorterTypes'
    BY <1>7, AddsNew, AddsExisting
  <2>2. /\ UNCHANGED <<pc, todo, out, urlIndex, torn, given>> /\ streamCh' \subseteq streamCh
        /\ dropped' \subseteq dropped \cup {l}
    BY <1>7 DEF AddNew, AddExisting
  <2> QED
    BY <2>1, <2>2 DEF SorterTypes, CatTypes
<1>8. CASE StartFlushing
  BY <1>8, <1>p DEF StartFlushing, CatTypes
<1>9. ASSUME NEW sh \in Shards, NEW how \in Outcome, FlushShard(sh, how) PROVE CatTypes'
  <2>1. SorterTypes'
    BY <1>9, Flushes
  <2>2. UNCHANGED <<pc, todo, streamCh, out, urlIndex, torn, given, dropped>>
    BY <1>9 DEF FlushShard
  <2> QED
    BY <2>1, <2>2 DEF SorterTypes, CatTypes
<1>10. ASSUME NEW wrote \in BOOLEAN, Emit(wrote) PROVE CatTypes'
  <2>1. pc' \in Places /\ index' = {} /\ buffer' = NoEntries
        /\ UNCHANGED <<todo, streamCh, urlIndex, torn, given, dropped>>
    BY <1>10, <1>p DEF Emit
  <2>2. critical' \in BOOLEAN /\ faulty' \in BOOLEAN
    BY <1>10 DEF Emit, CatTypes
  <2>3. file' \in Cells /\ disk' \in [Shards -> {"none", "good", "corrupt"}]
    BY <1>0, <1>10 DEF Emit, Close, CatTypes
  <2>4. \A i \in DOMAIN out' : out'[i] \in Entry
    <3>1. CASE critical'
      BY <1>10, <3>1 DEF Emit, CatTypes
    <3>2. CASE ~critical'
      BY <1>10, <3>2, Emits DEF CatTypes, Cells, Cell
    <3> QED
      BY <3>1, <3>2
  <2> QED
    BY <1>0, <2>1, <2>2, <2>3, <2>4 DEF CatTypes
<1> QED
  BY <1>1, <1>2, <1>3, <1>4, <1>5, <1>6, <1>7, <1>8, <1>9, <1>10 DEF Next, Halting


-----------------------------------------------------------------------------
(* The shape of the sorter's state.                                        *)

Updating == pc \in {"load", "flush"}

\* Entries are in the slot of their title; the index knows what is buffered.
Homed ==
    \A k \in Slots :
        /\ buffer[k] # None => k \in index /\ SlotOf[buffer[k].title] = k
        /\ file[k] # None => SlotOf[file[k].title] = k

\* What waits for a worker was accepted, and nothing accepted is yet to come.
Streams ==
    /\ streamCh \subseteq given /\ given \cap todo = {}
    /\ pc # "load" => streamCh = {}
    /\ pc # "idle" => done # "published"

\* Between updates nothing is buffered; only one cut off leaves files.
AtRest ==
    /\ ~Updating => buffer = NoEntries
    /\ ~Updating /\ cut # "left" => file = NoEntries /\ \A sh \in Shards : disk[sh] # "corrupt"
    /\ Updating => cut # "left"

Shape == CatTypes /\ Homed /\ Streams /\ AtRest

\* An entry a worker leaves in a slot was there, or is its stream's.
Kin(e, k, l) ==
    \/ e \in {buffer[k], file[k]}
    \/ k = SlotFor(l) /\ e = StreamInfo(l)
    \/ k = SlotFor(l) /\ file[k] # None /\ e = mergeStreamInfoAttributes(file[k], StreamInfo(l))

\* Whatever a worker's write comes to, the entries it leaves are akin.
LEMMA Kinship ==
    ASSUME CatTypes, NEW l \in Listings, NEW how \in Outcome,
           AddNew(l, how) \/ AddExisting(l, how), NEW k \in Slots
    PROVE  /\ buffer'[k] # None => Kin(buffer'[k], k, l)
           /\ file'[k] # None => Kin(file'[k], k, l)
           /\ buffer'[k] # None => buffer[k] # None \/ k \in index'
           /\ index \subseteq index'
<1>1. CASE AddNew(l, how)
  BY <1>1, AddsNew DEF Kin
<1>2. CASE AddExisting(l, how)
  <2>1. /\ buffer' = buffer /\ index \subseteq index'
        /\ k # SlotFor(l) => file'[k] \in {file[k], None}
        /\ k = SlotFor(l) => file'[k] \in {IF file[k] = None THEN StreamInfo(l)
                                ELSE mergeStreamInfoAttributes(file[k], StreamInfo(l)), file[k], None}
    BY <1>2, AddsExisting
  <2> QED
    BY <2>1 DEF Kin
<1> QED
  BY <1>1, <1>2

\* The shape is kept.
LEMMA ShapeInv == Shape /\ [Next]_vars => Shape'
<1> SUFFICES ASSUME Shape, [Next]_vars PROVE Shape'
  OBVIOUS
<1> USE DEF sorterVars, indexVars, counters, parseRest, addRest
<1>t. CatTypes /\ CatTypes'
  BY TypesInv DEF Shape
<1>e. \A k \in Slots : NoEntries[k] = None
  BY DEF NoEntries
<1>g. \A k \in Slots : buffer[k] \in Cell /\ file[k] \in Cell
  BY <1>t DEF CatTypes, Cells
<1>1. CASE UNCHANGED vars
  BY <1>1 DEF vars, Shape, CatTypes, Homed, Streams, AtRest, Updating
<1>2. ASSUME NEW e, Boot(e) PROVE Shape'
  BY <1>t, <1>2 DEF Boot, Shape, Homed, Streams, AtRest, Updating
<1>3. CASE Halting
  <2>1. /\ pc' = "down" /\ buffer' = NoEntries
        /\ streamCh' = {} /\ given' = {} /\ todo' = {} /\ done' = "never"
        /\ cut' = IF pc = "idle" THEN cut ELSE "left"
        /\ \A k \in Slots : file'[k] \in {file[k], None}
        /\ pc = "idle" => file' = file /\ disk' = disk
    BY <1>t, <1>3, HaltsAnywhere
  <2>2. Homed'
    BY <1>e, <2>1 DEF Shape, Homed
  <2>3. Streams'
    BY <2>1 DEF Streams
  <2>4. AtRest'
    BY <2>1 DEF Shape, AtRest, Updating
  <2> QED
    BY <1>t, <2>2, <2>3, <2>4 DEF Shape
<1>4. ASSUME NEW ls \in Lists, NewUpdate(ls) PROVE Shape'
  BY <1>t, <1>e, <1>4 DEF NewUpdate, Shape, Homed, Streams, AtRest, Updating
<1>5. ASSUME NEW l \in Listings, ParseLine(l) \/ ParseUnwritten(l) PROVE Shape'
  <2>1. /\ pc = "load" /\ l \in todo /\ Parsed(l)
        /\ UNCHANGED <<pc, flushing, index, buffer, disk, file, critical, out, done, dropped, cut>>
    BY <1>5 DEF ParseLine, ParseUnwritten
  <2>2. Streams'
    BY <2>1 DEF Parsed, Shape, Streams
  <2> QED
    BY <1>t, <2>1, <2>2 DEF Shape, Homed, AtRest, Updating
<1>6. ASSUME NEW l \in Listings, AddUnreadable(l) PROVE Shape'
  BY <1>t, <1>6 DEF AddUnreadable, Shape, Homed, Streams, AtRest, Updating
<1>7. ASSUME NEW l \in Listings, NEW how \in Outcome, AddNew(l, how) \/ AddExisting(l, how) PROVE Shape'
  <2>1. /\ pc = "load" /\ UNCHANGED <<pc, todo, out, done, given, cut>> /\ streamCh' \subseteq streamCh
    BY <1>7 DEF AddNew, AddExisting
  <2>2. ASSUME NEW k \in Slots, NEW e \in Entry, Kin(e, k, l) PROVE SlotOf[e.title] = k
    <3>1. StreamInfo(l) \in Entry /\ SlotOf[StreamInfo(l).title] = SlotFor(l)
      BY InfoTyped DEF SlotFor
    <3>2. CASE e \in {buffer[k], file[k]}
      BY <3>2, NoneIsNoEntry DEF Shape, Homed
    <3>3. CASE k = SlotFor(l) /\ e = StreamInfo(l)
      BY <3>1, <3>3
    <3>4. CASE k = SlotFor(l) /\ file[k] # None /\ e = mergeStreamInfoAttributes(file[k], StreamInfo(l))
      <4>1. file[k] \in Entry
        BY <1>g, <3>4 DEF Cell
      <4>2. e.title = file[k].title
        BY <3>1, <3>4, <4>1, MergeTyped
      <4> QED
        BY <3>4, <4>2 DEF Shape, Homed
    <3> QED
      BY <2>2, <3>2, <3>3, <3>4 DEF Kin
  <2>3. \A k \in Slots : buffer'[k] \in Cell /\ file'[k] \in Cell
    BY <1>t DEF CatTypes, Cells
  <2>4. Homed'
    <3> SUFFICES ASSUME NEW k \in Slots
                 PROVE  /\ buffer'[k] # None => k \in index' /\ SlotOf[buffer'[k].title] = k
                        /\ file'[k] # None => SlotOf[file'[k].title] = k
      BY DEF Homed
    <3>1. /\ buffer'[k] # None => Kin(buffer'[k], k, l)
          /\ file'[k] # None => Kin(file'[k], k, l)
          /\ buffer'[k] # None => buffer[k] # None \/ k \in index'
          /\ index \subseteq index'
      BY <1>t, <1>7, Kinship
    <3> QED
      BY <2>2, <2>3, <3>1 DEF Shape, Homed, Cell
  <2> QED
    BY <1>t, <2>1, <2>4 DEF Shape, Streams, AtRest, Updating
<1>8. CASE StartFlushing
  BY <1>t, <1>8 DEF StartFlushing, Shape, Homed, Streams, AtRest, Updating
<1>9. ASSUME NEW sh \in Shards, NEW how \in Outcome, FlushShard(sh, how) PROVE Shape'
  <2>1. /\ pc = "flush" /\ UNCHANGED <<pc, todo, streamCh, out, done, given, cut, index>>
    BY <1>9 DEF FlushShard
  <2>2. \A j \in Slots : buffer'[j] \in {buffer[j], None} /\ file'[j] \in {file[j], buffer[j], None}
    BY <1>t, <1>9, Flushes
  <2>3. Homed'
    BY <2>1, <2>2 DEF Shape, Homed
  <2> QED
    BY <1>t, <2>1, <2>3 DEF Shape, Streams, AtRest, Updating
<1>10. ASSUME NEW wrote \in BOOLEAN, Emit(wrote) PROVE Shape'
  <2>1. /\ pc = "flush" /\ pc' = "idle" /\ index' = {} /\ buffer' = NoEntries
        /\ UNCHANGED <<todo, streamCh, given>> /\ Close
    BY <1>10 DEF Emit
  <2>2. \/ disk' = [sh \in Shards |-> "none"] /\ file' = NoEntries
        \/ cut' = "left" /\ UNCHANGED <<disk, file>>
    BY <2>1 DEF Close
  <2>3. Homed' /\ AtRest'
    BY <1>e, <2>1, <2>2 DEF Shape, Homed, AtRest, Updating
  <2> QED
    BY <1>t, <2>1, <2>3 DEF Shape, Streams
<1> QED
  BY <1>1, <1>2, <1>3, <1>4, <1>5, <1>6, <1>7, <1>8, <1>9, <1>10 DEF Next, Halting

\* A process starts with empty shards.
LEMMA ShapeInit == Init => Shape
<1> SUFFICES ASSUME Init PROVE Shape
  OBVIOUS
<1>0. NoEntries \in Cells /\ [sh \in Shards |-> "none"] \in [Shards -> {"none", "good", "corrupt"}]
  BY DEF NoEntries, Cells, Cell
<1>1. CatTypes
  <2>1. pc \in Places
    BY DEF Init, Places
  <2>2. \A i \in DOMAIN out : out[i] \in Entry
    BY DEF Init
  <2> QED
    BY <1>0, <2>1, <2>2 DEF Init, CatTypes
<1> QED
  BY <1>1 DEF Init, Shape, Homed, Streams, AtRest, NoEntries

\* The shape holds throughout.
LEMMA ShapeAlways == Spec => []Shape
BY ShapeInit, ShapeInv, PTL DEF Spec


-----------------------------------------------------------------------------
(* The sorter implements the table.                                        *)

\* The view of the sorter is a table, and nothing is left while one updates.
Viewed ==
    /\ View \in [Slots -> Cell] /\ LeftOver \in [Slots -> Cell]
    /\ Updating => LeftOver = NoEntries /\ \A k \in Slots : View[k] = Holds(k)
    /\ ~Updating => View = NoEntries /\ LeftOver = file

\* It is so in every state.
LEMMA Views == CatTypes => Viewed
<1> SUFFICES ASSUME CatTypes PROVE Viewed
  OBVIOUS
<1>1. buffer \in Cells /\ file \in Cells
  BY DEF CatTypes
<1>2. View \in [Slots -> Cell]
  BY <1>1 DEF View, Cells, Cell
<1>3. LeftOver \in [Slots -> Cell]
  BY <1>1 DEF LeftOver, NoEntries, Cells, Cell
<1>4. Updating => LeftOver = NoEntries /\ \A k \in Slots : View[k] = Holds(k)
  BY DEF Updating, LeftOver, View, Holds
<1>5. ~Updating => View = NoEntries /\ LeftOver = file
  BY DEF Updating, LeftOver, View, NoEntries
<1> QED
  BY <1>2, <1>3, <1>4, <1>5 DEF Viewed

\* And so in the next one.
LEMMA ViewsNext == CatTypes' => Viewed'
BY Views, PTL

\* What the table calls empty, and its values.
LEMMA Tabled == Table!Empty = NoEntries /\ Table!Tables = [Slots -> Cell]
BY DEF Table!Empty, Table!Tables, NoEntries, Cell

\* A step of an update that keeps or loses entries loses them to a failure.
LEMMA Loses ==
    ASSUME CatTypes, CatTypes', Updating, Updating', faulty => faulty',
           \A k \in Slots : Holds(k)' = Holds(k) \/ (faulty' /\ Holds(k)' = None)
    PROVE  Table!Lose
<1>1. /\ View' \in Table!Tables /\ LeftOver' = LeftOver
      /\ \A k \in Slots : View[k] = Holds(k) /\ View'[k] = Holds(k)'
  <2>1. /\ LeftOver = NoEntries /\ \A k \in Slots : View[k] = Holds(k)
    BY Views DEF Viewed
  <2>2. /\ View' \in [Slots -> Cell] /\ LeftOver' = NoEntries
        /\ \A k \in Slots : View'[k] = Holds(k)'
    BY ViewsNext DEF Viewed, NoEntries
  <2> QED
    BY <2>1, <2>2, Tabled
<1> QED
  BY <1>1 DEF Table!Lose, Table!Changes, Table!KeptIn

\* Every step of the sorter is one of the table, or leaves it alone.
LEMMA TableStep ==
    ASSUME Shape, [Next]_vars
    PROVE  [Table!Next]_<<View, LeftOver, faulty>>
<1> USE DEF sorterVars, indexVars, counters, parseRest, addRest
<1>s. Shape'
  BY ShapeInv
<1>t. CatTypes /\ CatTypes'
  BY <1>s DEF Shape
<1>c. ASSUME ~Updating' PROVE Table!Cut
  <2>1. View' = NoEntries /\ LeftOver' \in [Slots -> Cell]
    BY <1>t, <1>c, ViewsNext DEF Viewed, NoEntries
  <2> QED
    BY <2>1, Tabled DEF Table!Cut
<1>q. ASSUME UNCHANGED <<pc, buffer, file, faulty>>
      PROVE  UNCHANGED <<View, LeftOver, faulty>>
  BY <1>q DEF View, LeftOver, NoEntries
<1>1. CASE UNCHANGED vars
  BY <1>1, <1>q DEF vars
<1>2. ASSUME NEW e, Boot(e) PROVE UNCHANGED <<View, LeftOver, faulty>>
  BY <1>2 DEF Boot, View, LeftOver, NoEntries
<1>3. CASE Halting
  <2>1. pc' = "down"
    BY <1>t, <1>3, HaltsAnywhere
  <2> QED
    BY <1>c, <2>1 DEF Updating, Table!Next
<1>4. ASSUME NEW ls \in Lists, NewUpdate(ls) PROVE Table!Begin
  <2>1. /\ ~Updating /\ Updating' /\ buffer' = NoEntries /\ file' = file /\ faulty' = FALSE
    BY <1>4 DEF NewUpdate, Updating
  <2>2. View = NoEntries /\ LeftOver = file /\ file \in Cells
    BY <1>t, <2>1, Views DEF CatTypes, Viewed
  <2>3. View' = file
    <3>1. View' = [k \in Slots |-> IF NoEntries[k] # None THEN NoEntries[k] ELSE file[k]]
      BY <2>1 DEF View, Updating
    <3>2. View' = [k \in Slots |-> file[k]]
      BY <3>1 DEF NoEntries
    <3> QED
      BY <2>2, <3>2 DEF Cells
  <2>4. LeftOver' = NoEntries
    BY <2>1 DEF LeftOver, Updating, NoEntries
  <2> QED
    BY <2>1, <2>2, <2>3, <2>4, Tabled DEF Table!Begin
<1>5. ASSUME NEW l \in Listings, ParseLine(l) \/ ParseUnwritten(l)
      PROVE  Table!Lose
  <2>1. /\ pc = "load" /\ UNCHANGED <<pc, buffer, file>> /\ (faulty => faulty')
    BY <1>5 DEF ParseLine, ParseUnwritten
  <2> QED
    BY <1>t, <2>1, Loses DEF Updating, Holds
<1>6. ASSUME NEW l \in Listings, AddUnreadable(l) PROVE UNCHANGED <<View, LeftOver, faulty>>
  BY <1>6, <1>q DEF AddUnreadable
<1>7. ASSUME NEW l \in Listings, NEW how \in Outcome, AddNew(l, how) \/ AddExisting(l, how)
      PROVE  Table!Lose \/ Table!Put(SlotFor(l)) \/ Table!Fill(SlotFor(l))
  <2> DEFINE k == SlotFor(l)
             s == IF file[k] = None THEN StreamInfo(l)
                  ELSE mergeStreamInfoAttributes(file[k], StreamInfo(l))
  <2>0. k \in Slots /\ StreamInfo(l) \in Entry /\ StreamInfo(l) # None
    BY InfoTyped
  <2>1. pc = "load" /\ pc' = pc /\ Updating /\ Updating'
    BY <1>7 DEF AddNew, AddExisting, Updating
  <2>2. /\ Remembers
        /\ \A j \in Slots \ {k} : Holds(j)' = Holds(j) \/ (faulty' /\ Holds(j)' = None)
        /\ \/ Holds(k) = None /\ Holds(k)' = StreamInfo(l)
           \/ Holds(k) = file[k] /\ Holds(k)' = s
           \/ Holds(k)' = Holds(k)
           \/ faulty' /\ Holds(k)' \in {Holds(k), None}
    <3>1. CASE AddNew(l, how)
      <4>1. buffer[k] = None
        BY <1>t, <2>0, <3>1, AddsNew DEF Shape, Homed
      <4> QED
        BY <1>t, <3>1, <4>1, AddsNew DEF Holds, Remembers
    <3>2. CASE AddExisting(l, how)
      BY <1>t, <3>2, AddsExisting DEF Remembers
    <3> QED
      BY <1>7, <3>1, <3>2
  <2>3. /\ View' \in Table!Tables /\ LeftOver' = LeftOver
        /\ \A j \in Slots : View[j] = Holds(j) /\ View'[j] = Holds(j)'
    <3>1. /\ LeftOver = NoEntries /\ \A j \in Slots : View[j] = Holds(j)
      BY <1>t, <2>1, Views DEF Viewed
    <3>2. /\ View' \in [Slots -> Cell] /\ LeftOver' = NoEntries
          /\ \A j \in Slots : View'[j] = Holds(j)'
      BY <1>t, <2>1, ViewsNext DEF Viewed, NoEntries
    <3> QED
      BY <3>1, <3>2, Tabled
  <2>4. Table!Changes /\ Table!KeptIn(Slots \ {k})
    <3>1. Table!KeptIn(Slots \ {k})
      BY <2>2, <2>3 DEF Table!KeptIn
    <3>2. Table!Changes
      BY <2>2, <2>3 DEF Table!Changes, Remembers
    <3> QED
      BY <3>1, <3>2
  <2>5. CASE Holds(k) = None /\ Holds(k)' = StreamInfo(l)
    BY <2>0, <2>3, <2>4, <2>5 DEF Table!Put
  <2>6. CASE Holds(k) = file[k] /\ Holds(k)' = s
    <3>1. CASE file[k] = None
      BY <2>0, <2>3, <2>4, <2>6, <3>1 DEF Table!Put
    <3>2. CASE file[k] # None
      <4>1. file[k] \in Entry
        BY <1>t, <2>0, <3>2 DEF CatTypes, Cells, Cell
      <4>2. s # None /\ Fills(file[k], s)
        BY <2>0, <3>2, <4>1, MergeTyped DEF Fills
      <4> HIDE DEF s
      <4> QED
        BY <2>0, <2>3, <2>4, <2>6, <3>2, <4>2 DEF Table!Fill
    <3> QED
      BY <3>1, <3>2
  <2>7. CASE Holds(k)' = Holds(k) \/ (faulty' /\ Holds(k)' \in {Holds(k), None})
    <3>0. \A j \in Slots : Holds(j)' = Holds(j) \/ (faulty' /\ Holds(j)' = None)
      BY <2>2, <2>7
    <3>1. Table!Lose
      BY <1>t, <2>1, <2>2, <3>0, Loses DEF Remembers
    <3> QED
      BY <3>1
  <2> HIDE DEF s
  <2> QED
    BY <2>2, <2>5, <2>6, <2>7
<1>8. CASE StartFlushing
  <2>1. Updating /\ Updating' /\ UNCHANGED <<buffer, file, faulty>>
    BY <1>8 DEF StartFlushing, Updating
  <2> QED
    BY <1>t, <2>1, Loses DEF Holds, Table!Next
<1>9. ASSUME NEW sh \in Shards, NEW how \in Outcome, FlushShard(sh, how) PROVE Table!Lose
  <2>1. Updating /\ Updating'
    BY <1>9 DEF FlushShard, Updating
  <2>2. Remembers /\ \A j \in Slots : Holds(j)' = Holds(j) \/ (faulty' /\ Holds(j)' = None)
    BY <1>t, <1>9, Flushes
  <2> QED
    BY <1>t, <2>1, <2>2, Loses DEF Remembers
<1>10. ASSUME NEW wrote \in BOOLEAN, Emit(wrote) PROVE Table!Cut
  <2>1. pc' = "idle"
    BY <1>10 DEF Emit
  <2> QED
    BY <1>c, <2>1 DEF Updating
<1>11. ASSUME NEW l \in Listings, NEW how \in Outcome, AddNew(l, how) \/ AddExisting(l, how)
       PROVE  Table!Next
  <2>1. SlotFor(l) \in Slots
    BY InfoTyped
  <2> QED
    BY <1>7, <1>11, <2>1 DEF Table!Next
<1>12. (Table!Begin \/ Table!Lose \/ Table!Cut) => Table!Next
  BY DEF Table!Next
<1> QED
  BY <1>1, <1>2, <1>3, <1>4, <1>5, <1>6, <1>8, <1>9, <1>10, <1>11, <1>12 DEF Next, Halting

\* ImplementsTable: the shards, half in memory and half in files that may be
\* lost, are one table in which the first stream of a channel makes its entry
\* and later ones only fill in what it lacks (AddToSorter, handleExisting,
\* GetSortedEntries); a channel is lost only once a write has failed, and only
\* an update that was cut off leaves channels to the next.
THEOREM TableIsKept == Spec => ImplementsTable
<1>1. Init => Table!Init
  BY DEF Init, Table!Init, Table!Empty, View, LeftOver, NoEntries
<1>2. Shape /\ [Next]_vars => [Table!Next]_<<View, LeftOver, faulty>>
  BY TableStep
<1> QED
  BY <1>1, <1>2, ShapeAlways, PTL DEF Spec, ImplementsTable, Table!Spec


-----------------------------------------------------------------------------
(* What an update that found nothing publishes is its own.                 *)

\* Every listing an entry was made from was accepted by this update.
OwnEntry(e) == e.from \in given /\ \A a \in Attrs : e.by[a] \in given \cup {None}

\* An update that found no files fails by its own writes, and holds its own.
Own ==
    Updating /\ cut = "no" =>
        /\ critical => faulty
        /\ \A sh \in Shards : disk[sh] = "corrupt" => faulty
        /\ \A k \in Slots : /\ buffer[k] # None => OwnEntry(buffer[k])
                            /\ file[k] # None => OwnEntry(file[k])

OwnInv == Own /\ LeftoversOnce

\* What is akin to entries of the update's own is the update's own.
LEMMA KinOwn ==
    ASSUME CatTypes, NEW l \in given, NEW k \in Slots, NEW e \in Entry, Kin(e, k, l),
           buffer[k] # None => OwnEntry(buffer[k]), file[k] # None => OwnEntry(file[k])
    PROVE  OwnEntry(e)
<1>0. l \in Listings /\ file[k] \in Cell
  BY DEF CatTypes, Cells
<1>1. CASE e \in {buffer[k], file[k]}
  BY <1>1, NoneIsNoEntry
<1>2. CASE e = StreamInfo(l)
  <2>1. e.from = l /\ \A a \in Attrs : e.by[a] \in {l, None}
    BY <1>0, <1>2, InfoTyped
  <2> QED
    BY <2>1 DEF OwnEntry
<1>3. CASE file[k] # None /\ e = mergeStreamInfoAttributes(file[k], StreamInfo(l))
  <2>0. file[k] \in Entry /\ StreamInfo(l) \in Entry
    BY <1>0, <1>3, InfoTyped DEF Cell
  <2>1. StreamInfo(l).from = l /\ \A a \in Attrs : StreamInfo(l).by[a] \in {l, None}
    BY <1>0, InfoTyped
  <2>2. /\ e.from \in {file[k].from, StreamInfo(l).from}
        /\ \A a \in Attrs : e.by[a] \in {file[k].by[a], StreamInfo(l).by[a]}
    BY <1>3, <2>0, MergeTyped
  <2>3. OwnEntry(file[k])
    BY <1>3
  <2> QED
    BY <2>1, <2>2, <2>3 DEF OwnEntry
<1> QED
  BY <1>1, <1>2, <1>3 DEF Kin

\* Steps keep it.
LEMMA OwnStep == Shape /\ OwnInv /\ [Next]_vars => OwnInv'
<1> SUFFICES ASSUME Shape, OwnInv, [Next]_vars PROVE OwnInv'
  OBVIOUS
<1> USE DEF sorterVars, indexVars, counters, parseRest, addRest
<1>s. Shape'
  BY ShapeInv
<1>t. CatTypes /\ CatTypes' /\ (pc # "idle" => done # "published") /\ (pc' # "idle" => done' # "published")
  BY <1>s DEF Shape, Streams
<1>e. \A k \in Slots : NoEntries[k] = None
  BY DEF NoEntries
<1>w. ASSUME Updating' PROVE Own' => LeftoversOnce'
  BY <1>t, <1>w DEF Updating, Own, LeftoversOnce
<1>q. ASSUME UNCHANGED <<buffer, file, given>>
      PROVE  \A k \in Slots : /\ buffer[k] # None /\ OwnEntry(buffer[k]) => OwnEntry(buffer[k])'
                              /\ file[k] # None /\ OwnEntry(file[k]) => OwnEntry(file[k])'
  BY <1>q DEF OwnEntry
<1>1. CASE UNCHANGED vars
  BY <1>1, <1>q DEF vars, OwnInv, Own, LeftoversOnce, Updating, OwnEntry
<1>2. ASSUME NEW e, Boot(e) PROVE OwnInv'
  BY <1>2 DEF Boot, OwnInv, Own, LeftoversOnce, Updating
<1>3. CASE Halting
  <2>1. pc' = "down" /\ done' = "never" /\ critical' = FALSE
    BY <1>t, <1>3, HaltsAnywhere
  <2> QED
    BY <2>1 DEF OwnInv, Own, LeftoversOnce, Updating
<1>4. ASSUME NEW ls \in Lists, NewUpdate(ls) PROVE OwnInv'
  <2>1. /\ pc = "idle" /\ pc' = "load" /\ critical' = FALSE /\ buffer' = NoEntries
        /\ UNCHANGED <<disk, file>> /\ (cut' = "no" => cut # "left")
    BY <1>4 DEF NewUpdate
  <2>2. Own'
    BY <1>e, <2>1 DEF Own, Shape, AtRest, Updating
  <2> QED
    BY <1>w, <2>1, <2>2 DEF OwnInv, Updating
<1>5. ASSUME NEW l \in Listings, ParseLine(l) \/ ParseUnwritten(l) PROVE OwnInv'
  <2>1. /\ pc = "load" /\ Parsed(l) /\ (faulty => faulty')
        /\ UNCHANGED <<pc, buffer, disk, file, critical, cut>>
    BY <1>5 DEF ParseLine, ParseUnwritten
  <2>2. given \subseteq given'
    BY <2>1 DEF Parsed
  <2>3. Own'
    BY <2>1, <2>2 DEF OwnInv, Own, OwnEntry, Updating
  <2> QED
    BY <1>w, <2>1, <2>3 DEF OwnInv, Updating
<1>6. ASSUME NEW l \in Listings, AddUnreadable(l) PROVE OwnInv'
  <2>1. /\ pc = "load" /\ disk[ShardOf[SlotFor(l)]] = "corrupt"
        /\ UNCHANGED <<pc, buffer, disk, file, given, faulty, cut>>
    BY <1>6 DEF AddUnreadable, SlotFor
  <2>2. ShardOf[SlotFor(l)] \in Shards
    BY InfoTyped
  <2>3. Own'
    BY <2>1, <2>2 DEF OwnInv, Own, OwnEntry, Updating
  <2> QED
    BY <1>w, <2>1, <2>3 DEF OwnInv, Updating
<1>7. ASSUME NEW l \in Listings, NEW how \in Outcome, AddNew(l, how) \/ AddExisting(l, how) PROVE OwnInv'
  <2>1. /\ pc = "load" /\ UNCHANGED <<pc, given, cut>> /\ l \in streamCh
    BY <1>7 DEF AddNew, AddExisting
  <2>2. l \in given
    BY <2>1 DEF Shape, Streams
  <2>3. Remembers
    BY <1>t, <1>7, AddsNew, AddsExisting
  <2>4. ASSUME Own, cut = "no", NEW k \in Slots
        PROVE  /\ buffer'[k] # None => OwnEntry(buffer'[k])
               /\ file'[k] # None => OwnEntry(file'[k])
    <3>1. buffer'[k] \in Cell /\ file'[k] \in Cell
      BY <1>t DEF CatTypes, Cells
    <3>2. /\ buffer'[k] # None => Kin(buffer'[k], k, l)
          /\ file'[k] # None => Kin(file'[k], k, l)
      BY <1>t, <1>7, Kinship
    <3>3. /\ buffer[k] # None => OwnEntry(buffer[k])
          /\ file[k] # None => OwnEntry(file[k])
      BY <2>1, <2>4 DEF Own, Updating
    <3>4. buffer'[k] # None => OwnEntry(buffer'[k])
      BY <1>t, <2>2, <3>1, <3>2, <3>3, KinOwn DEF Cell
    <3>5. file'[k] # None => OwnEntry(file'[k])
      BY <1>t, <2>2, <3>1, <3>2, <3>3, KinOwn DEF Cell
    <3> QED
      BY <3>4, <3>5
  <2>5. Own'
    BY <2>1, <2>3, <2>4 DEF OwnInv, Own, OwnEntry, Updating, Remembers
  <2> QED
    BY <1>w, <2>1, <2>5 DEF OwnInv, Updating
<1>8. CASE StartFlushing
  <2>1. pc' = "flush" /\ pc = "load" /\ UNCHANGED <<buffer, disk, file, critical, given, faulty, cut>>
    BY <1>8 DEF StartFlushing
  <2>2. Own'
    BY <2>1 DEF OwnInv, Own, OwnEntry, Updating
  <2> QED
    BY <1>w, <2>1, <2>2 DEF OwnInv, Updating
<1>9. ASSUME NEW sh \in Shards, NEW how \in Outcome, FlushShard(sh, how) PROVE OwnInv'
  <2>1. pc = "flush" /\ UNCHANGED <<pc, given, cut>>
    BY <1>9 DEF FlushShard
  <2>2. /\ Remembers /\ UNCHANGED critical
        /\ \A j \in Slots : buffer'[j] \in {buffer[j], None} /\ file'[j] \in {file[j], buffer[j], None}
    BY <1>t, <1>9, Flushes
  <2>3. Own'
    BY <2>1, <2>2 DEF OwnInv, Own, OwnEntry, Updating, Remembers
  <2> QED
    BY <1>w, <2>1, <2>3 DEF OwnInv, Updating
<1>10. ASSUME NEW wrote \in BOOLEAN, Emit(wrote) PROVE OwnInv'
  <2>1. /\ pc = "flush" /\ pc' = "idle" /\ UNCHANGED given /\ Close
        /\ faulty' = (faulty \/ ~wrote)
        /\ critical' = (critical \/ ~(\A sh \in Shards : disk[sh] # "corrupt") \/ ~wrote)
        /\ done' = IF critical' THEN "failed" ELSE "published"
    BY <1>10 DEF Emit
  <2>2. cut' = "no" => cut = "no"
    BY <2>1 DEF Close
  <2>3. Own'
    BY <2>1 DEF Own, Updating
  <2>4. ASSUME cut' = "no" PROVE critical' => faulty'
    BY <2>1, <2>2, <2>4 DEF OwnInv, Own, Updating
  <2>5. ASSUME cut' = "no", done' = "published", NEW i \in DOMAIN out'
        PROVE  out'[i].from \in given' /\ \A a \in Attrs : out'[i].by[a] \in given' \cup {None}
    <3>1. ~critical'
      BY <2>1, <2>5
    <3>2. PICK k \in Slots : file[k] # None /\ out'[i] = file[k]
      BY <1>t, <1>10, <2>5, <3>1, Emits
    <3>3. OwnEntry(file[k])
      BY <2>1, <2>2, <2>5, <3>2 DEF OwnInv, Own, Updating
    <3> QED
      BY <2>1, <3>2, <3>3 DEF OwnEntry
  <2>6. LeftoversOnce'
    BY <2>4, <2>5 DEF LeftoversOnce
  <2> QED
    BY <2>3, <2>6 DEF OwnInv
<1> QED
  BY <1>1, <1>2, <1>3, <1>4, <1>5, <1>6, <1>7, <1>8, <1>9, <1>10 DEF Next, Halting

\* LeftoversOnce: the shard files of an update that was cut off, or that Close
\* could not remove (newSortingManager empties nothing), reach no further than
\* the next update; any other publishes only what it accepted, and fails only
\* by a write of its own.
THEOREM LeftoversReachOneUpdate == Spec => []LeftoversOnce
<1>1. Init => OwnInv
  BY DEF Init, OwnInv, Own, LeftoversOnce, Updating
<1>2. Shape /\ OwnInv /\ [Next]_vars => OwnInv'
  BY OwnStep
<1>3. OwnInv => LeftoversOnce
  BY DEF OwnInv
<1> QED
  BY <1>1, <1>2, <1>3, ShapeAlways, PTL DEF Spec


-----------------------------------------------------------------------------
(* A published channel can be played.                                      *)

\* A title whose token finds a file of the URL index, or one never well written.
Known(t) == t \in Unnamable \cup damaged \/ \E f \in urlIndex : f.title = t

\* The URL index knows what was accepted, and every title that has an entry.
Found ==
    /\ \A f \in torn : f.title \in damaged
    /\ \A l \in given : TitleOf[l] \in Unnamable \cup damaged \/ IndexFile(l) \in urlIndex
    /\ \A k \in Slots : /\ buffer[k] # None => Known(buffer[k].title)
                        /\ file[k] # None => Known(file[k].title)
    /\ \A i \in DOMAIN out : Known(out[i].title)

\* It is enough for the titles of the playlist to resolve.
LEMMA FoundResolves == CatTypes /\ Found => Resolvable
<1> SUFFICES ASSUME CatTypes, Found PROVE Resolvable
  OBVIOUS
<1>1. ASSUME NEW f \in urlIndex
      PROVE  /\ f.src \in Sources
             /\ f.url \in LoadStreamURLs(f.title, f.src)
  <2>1. PICK l \in Listings : f = IndexFile(l)
    BY DEF CatTypes, IndexFiles
  <2>2. f.src \in Sources /\ f.src \in Prefixed[f.src]
    BY <2>1, ListingsPlaced DEF IndexFile
  <2> QED
    BY <2>2 DEF LoadStreamURLs
<1>2. ASSUME NEW i \in DOMAIN out
      PROVE  \/ out[i].title \in Unnamable \cup damaged
             \/ \E s \in Sources : LoadStreamURLs(out[i].title, s) # {}
  <2>1. CASE \E f \in urlIndex : f.title = out[i].title
    <3>1. PICK f \in urlIndex : f.title = out[i].title
      BY <2>1
    <3> QED
      BY <1>1, <3>1
  <2> QED
    BY <2>1 DEF Found, Known
<1>3. ASSUME NEW l \in given \ todo
      PROVE  TitleOf[l] \in Unnamable \cup damaged \/ UrlOf[l] \in LoadStreamURLs(TitleOf[l], SourceOf[l])
  <2>1. IndexFile(l).title = TitleOf[l] /\ IndexFile(l).src = SourceOf[l] /\ IndexFile(l).url = UrlOf[l]
    BY DEF IndexFile
  <2> QED
    BY <1>1, <2>1 DEF Found
<1> QED
  BY <1>2, <1>3 DEF Resolvable

\* A title that is known stays known.
LEMMA KnownStays ==
    ASSUME urlIndex \subseteq urlIndex', damaged \subseteq damaged', NEW t, Known(t)
    PROVE  Known(t)'
BY DEF Known

\* The title of what is akin to known entries is known.
LEMMA KinKnown ==
    ASSUME CatTypes, NEW l \in Listings, NEW k \in Slots, NEW e \in Entry, Kin(e, k, l),
           Known(TitleOf[l]),
           buffer[k] # None => Known(buffer[k].title), file[k] # None => Known(file[k].title)
    PROVE  Known(e.title)
<1>0. file[k] \in Cell /\ StreamInfo(l) \in Entry /\ StreamInfo(l).title = TitleOf[l]
  BY InfoTyped DEF CatTypes, Cells
<1>1. CASE e \in {buffer[k], file[k]}
  BY <1>1, NoneIsNoEntry
<1>2. CASE e = StreamInfo(l)
  BY <1>0, <1>2
<1>3. CASE file[k] # None /\ e = mergeStreamInfoAttributes(file[k], StreamInfo(l))
  <2>0. file[k] \in Entry
    BY <1>0, <1>3 DEF Cell
  <2>1. e.title = file[k].title
    BY <1>0, <1>3, <2>0, MergeTyped
  <2> QED
    BY <1>3, <2>1
<1> QED
  BY <1>1, <1>2, <1>3 DEF Kin

\* Steps keep it.
LEMMA FoundStep == Shape /\ Found /\ [Next]_vars => Found'
<1> SUFFICES ASSUME Shape, Found, [Next]_vars PROVE Found'
  OBVIOUS
<1> USE DEF sorterVars, indexVars, counters, parseRest, addRest
<1>s. Shape'
  BY ShapeInv
<1>t. CatTypes /\ CatTypes' /\ streamCh \subseteq given
  BY <1>s DEF Shape, Streams
<1>e. \A k \in Slots : NoEntries[k] = None
  BY DEF NoEntries
<1>1. CASE UNCHANGED vars
  BY <1>1 DEF vars, Found, Known
<1>2. ASSUME NEW e, Boot(e) PROVE Found'
  BY <1>2 DEF Boot, Found, Known
<1>3. CASE Halting
  <2>1. /\ buffer' = NoEntries /\ given' = {} /\ out' = out
        /\ \A k \in Slots : file'[k] \in {file[k], None}
        /\ urlIndex' = urlIndex /\ damaged \subseteq damaged'
        /\ \A f \in torn' : f \in torn \/ f.title \in damaged'
    BY <1>t, <1>3, HaltsAnywhere
  <2>2. \A t : Known(t) => Known(t)'
    BY <2>1 DEF Known
  <2> QED
    BY <1>e, <2>1, <2>2 DEF Found
<1>4. ASSUME NEW ls \in Lists, NewUpdate(ls) PROVE Found'
  BY <1>e, <1>4 DEF NewUpdate, Found, Known
<1>5. ASSUME NEW l \in Listings, ParseLine(l) \/ ParseUnwritten(l) PROVE Found'
  <2>1. /\ UNCHANGED <<buffer, file, out, torn>> /\ given' \subseteq given \cup {l}
        /\ urlIndex \subseteq urlIndex' /\ damaged \subseteq damaged'
    BY <1>5 DEF ParseLine, ParseUnwritten, Parsed
  <2>2. \A t : Known(t) => Known(t)'
    BY <2>1 DEF Known
  <2>3. TitleOf[l] \in Unnamable \cup damaged' \/ IndexFile(l) \in urlIndex'
    <3>1. CASE ParseLine(l)
      <4>1. CASE Exists(l)
        <5>1. IndexFile(l).title = TitleOf[l]
          BY DEF IndexFile
        <5> QED
          BY <3>1, <4>1, <5>1 DEF ParseLine, Exists, Found
      <4>2. CASE ~Exists(l)
        BY <3>1, <4>2 DEF ParseLine
      <4> QED
        BY <4>1, <4>2
    <3>2. CASE ParseUnwritten(l)
      BY <3>2 DEF ParseUnwritten
    <3> QED
      BY <1>5, <3>1, <3>2
  <2> QED
    BY <2>1, <2>2, <2>3 DEF Found
<1>6. ASSUME NEW l \in Listings, AddUnreadable(l) PROVE Found'
  BY <1>6 DEF AddUnreadable, Found, Known
<1>7. ASSUME NEW l \in Listings, NEW how \in Outcome, AddNew(l, how) \/ AddExisting(l, how) PROVE Found'
  <2>1. /\ UNCHANGED <<out, urlIndex, torn, damaged, given>> /\ l \in streamCh
    BY <1>7 DEF AddNew, AddExisting
  <2>2. Known(TitleOf[l])
    <3>1. IndexFile(l).title = TitleOf[l]
      BY DEF IndexFile
    <3> QED
      BY <1>t, <2>1, <3>1 DEF Found, Known
  <2>3. ASSUME NEW k \in Slots
        PROVE  /\ buffer'[k] # None => Known(buffer'[k].title)
               /\ file'[k] # None => Known(file'[k].title)
    <3>1. buffer'[k] \in Cell /\ file'[k] \in Cell
      BY <1>t DEF CatTypes, Cells
    <3>2. /\ buffer'[k] # None => Kin(buffer'[k], k, l)
          /\ file'[k] # None => Kin(file'[k], k, l)
      BY <1>t, <1>7, Kinship
    <3>3. /\ buffer[k] # None => Known(buffer[k].title)
          /\ file[k] # None => Known(file[k].title)
      BY DEF Found
    <3>4. buffer'[k] # None => Known(buffer'[k].title)
      BY <1>t, <2>2, <3>1, <3>2, <3>3, KinKnown DEF Cell
    <3>5. file'[k] # None => Known(file'[k].title)
      BY <1>t, <2>2, <3>1, <3>2, <3>3, KinKnown DEF Cell
    <3> QED
      BY <3>4, <3>5
  <2> QED
    BY <2>1, <2>3 DEF Found, Known
<1>8. CASE StartFlushing
  BY <1>8 DEF StartFlushing, Found, Known
<1>9. ASSUME NEW sh \in Shards, NEW how \in Outcome, FlushShard(sh, how) PROVE Found'
  <2>1. UNCHANGED <<out, urlIndex, torn, damaged, given>>
    BY <1>9 DEF FlushShard
  <2>2. \A j \in Slots : buffer'[j] \in {buffer[j], None} /\ file'[j] \in {file[j], buffer[j], None}
    BY <1>t, <1>9, Flushes
  <2> QED
    BY <2>1, <2>2 DEF Found, Known
<1>10. ASSUME NEW wrote \in BOOLEAN, Emit(wrote) PROVE Found'
  <2>1. buffer' = NoEntries /\ UNCHANGED <<urlIndex, torn, damaged, given>> /\ Close
    BY <1>10 DEF Emit
  <2>2. file' \in {file, NoEntries}
    BY <2>1 DEF Close
  <2>3. ASSUME NEW i \in DOMAIN out' PROVE Known(out'[i].title)
    <3>1. CASE critical'
      <4>1. out' = out
        BY <1>10, <3>1 DEF Emit
      <4> QED
        BY <2>3, <4>1 DEF Found
    <3>2. CASE ~critical'
      <4>1. PICK k \in Slots : file[k] # None /\ out'[i] = file[k]
        BY <1>t, <1>10, <2>3, <3>2, Emits
      <4> QED
        BY <4>1 DEF Found
    <3> QED
      BY <3>1, <3>2
  <2> QED
    BY <1>e, <2>1, <2>2, <2>3 DEF Found, Known
<1> QED
  BY <1>1, <1>2, <1>3, <1>4, <1>5, <1>6, <1>7, <1>8, <1>9, <1>10 DEF Next, Halting

\* Resolvable: the title of a published channel finds URLs in the index that
\* parseLine writes (ParseStreamInfoBySlug, LoadStreamURLs), whatever happened
\* since; but for titles that cannot name an index file, and files badly written.
THEOREM PublishedCanBePlayed == Spec => []Resolvable
<1>1. Init => Found
  BY DEF Init, Found, NoEntries
<1>2. Shape /\ Found /\ [Next]_vars => Found'
  BY FoundStep
<1>3. Shape /\ Found => Resolvable
  BY FoundResolves DEF Shape
<1> QED
  BY <1>1, <1>2, <1>3, ShapeAlways, PTL DEF Spec


-----------------------------------------------------------------------------
(* A published playlist has every stream that was accepted.                *)

\* The entry e is of an accepted listing, with what its listing shows.
Served(e, l) == e # None /\ (l \notin dropped => \A a \in ShowsOf[l] : e.by[a] # None)

\* Without a failure every stream a worker has added is in the table.
Kept ==
    Updating /\ ~faulty /\ ~critical =>
        \A l \in given \ streamCh : Served(Holds(SlotFor(l)), l)

\* Without a failure a shard that was flushed has nothing left in memory.
Written ==
    pc = "flush" /\ ~faulty =>
        \A k \in Slots : \/ ShardOf[k] \in flushing
                         \/ buffer[k] = None
                         \/ disk[ShardOf[k]] = "corrupt"

KeptInv == Kept /\ Written /\ NothingLost

\* A worker that adds a stream to a table that has lost nothing loses nothing.
LEMMA KeptByWorkers ==
    ASSUME Shape, Shape', Kept, NEW l \in Listings, NEW how \in Outcome,
           AddNew(l, how) \/ AddExisting(l, how)
    PROVE  Kept'
<1> DEFINE k == SlotFor(l)
           s == IF file[k] = None THEN StreamInfo(l)
                ELSE mergeStreamInfoAttributes(file[k], StreamInfo(l))
<1> SUFFICES ASSUME ~faulty', ~critical', NEW m \in given' \ streamCh'
             PROVE  Served(Holds(SlotFor(m)), m)'
  BY DEF Kept
<1>t. CatTypes /\ Homed
  BY DEF Shape
<1>1. /\ pc = "load" /\ given' = given /\ l \in streamCh /\ streamCh' = streamCh \ {l}
      /\ dropped \subseteq dropped' /\ (critical => critical')
  <2>0. critical \in BOOLEAN
    BY <1>t DEF CatTypes
  <2>1. CASE AddNew(l, how)
    BY <2>0, <2>1 DEF AddNew, addRest
  <2>2. CASE AddExisting(l, how)
    BY <2>0, <2>2 DEF AddExisting, addRest
  <2> QED
    BY <2>1, <2>2
<1>2. Remembers
  BY <1>t, AddsNew, AddsExisting
<1>3. ~faulty /\ ~critical
  BY <1>1, <1>2 DEF Remembers
<1>4. m \in Listings /\ k \in Slots /\ SlotFor(m) \in Slots /\ ShowsOf[l] \subseteq Attrs /\ ShowsOf[m] \subseteq Attrs
  BY <1>1, <1>t, InfoTyped, ListingsPlaced DEF CatTypes
<1>5. ASSUME m # l PROVE Served(Holds(SlotFor(m)), m)
  BY <1>1, <1>3, <1>5 DEF Kept, Updating
<1>6. /\ StreamInfo(l) \in Entry /\ StreamInfo(l) # None
      /\ \A a \in ShowsOf[l] : StreamInfo(l).by[a] # None
  BY <1>4, InfoTyped
<1>7. CASE SlotFor(m) # k
  <2>0. \A j \in Slots \ {k} : Holds(j)' = Holds(j) \/ (faulty' /\ Holds(j)' = None)
    BY <1>t, AddsNew, AddsExisting
  <2>1. Holds(SlotFor(m))' = Holds(SlotFor(m))
    BY <1>4, <1>7, <2>0
  <2> QED
    BY <1>1, <1>5, <1>7, <2>1 DEF Served
<1>8. CASE SlotFor(m) = k /\ AddNew(l, how)
  <2>1. Holds(k)' = StreamInfo(l) /\ k \notin index /\ file[k] = None
    BY <1>8, <1>t, AddsNew
  <2>2. Holds(k) = None
    BY <1>4, <1>t, <2>1 DEF Homed, Holds
  <2>3. m = l
    BY <1>5, <1>8, <2>2 DEF Served
  <2> QED
    BY <1>6, <1>8, <2>1, <2>3 DEF Served
<1>9. CASE SlotFor(m) = k /\ AddExisting(l, how)
  <2>1. /\ buffer[k] # None => Holds(k)' = Holds(k)
        /\ buffer[k] = None => \/ Holds(k) = file[k] /\ Holds(k)' = s
                               \/ faulty' /\ Holds(k)' \in {Holds(k), None}
    BY <1>9, <1>t, AddsExisting
  <2>2. buffer[k] # None => l \in dropped'
    BY <1>9 DEF AddExisting, SlotFor
  <2>3. CASE buffer[k] # None
    <3>1. Holds(k)' = Holds(k) /\ Holds(k) # None
      BY <2>1, <2>3 DEF Holds
    <3> QED
      BY <1>1, <1>5, <1>9, <2>2, <2>3, <3>1 DEF Served
  <2>4. CASE buffer[k] = None
    <3>1. Holds(k) = file[k] /\ Holds(k)' = s
      BY <2>1, <2>4
    <3>2. CASE file[k] = None
      <4>1. Holds(k) = None /\ Holds(k)' = StreamInfo(l)
        BY <3>1, <3>2
      <4>2. m = l
        BY <1>5, <1>9, <4>1 DEF Served
      <4> QED
        BY <1>6, <1>9, <4>1, <4>2 DEF Served
    <3>3. CASE file[k] # None
      <4>1. file[k] \in Entry
        BY <1>4, <1>t, <3>3 DEF CatTypes, Cells, Cell
      <4>2. /\ s # None
            /\ \A a \in Attrs : /\ file[k].by[a] # None => s.by[a] # None
                                /\ StreamInfo(l).by[a] # None => s.by[a] # None
        BY <1>6, <3>3, <4>1, MergeTyped
      <4> HIDE DEF s
      <4>3. CASE m = l
        BY <1>4, <1>6, <1>9, <3>1, <4>2, <4>3 DEF Served
      <4>4. CASE m # l
        <5>1. Served(file[k], m)
          BY <1>5, <1>9, <3>1, <4>4
        <5> QED
          BY <1>1, <1>4, <1>9, <3>1, <4>2, <5>1 DEF Served
      <4> QED
        BY <4>3, <4>4
    <3> QED
      BY <3>2, <3>3
  <2> QED
    BY <2>3, <2>4
<1> QED
  BY <1>7, <1>8, <1>9

\* The playlist lists what the table holds once all shards are flushed.
LEMMA KeptByEmit ==
    ASSUME Shape, Kept, Written, NEW wrote \in BOOLEAN, Emit(wrote)
    PROVE  NothingLost'
<1> SUFFICES ASSUME done' = "published", ~faulty', NEW l \in given'
             PROVE  \E i \in DOMAIN out' :
                       /\ SlotOf[out'[i].title] = SlotOf[TitleOf[l]]
                       /\ l \notin dropped' => \A a \in ShowsOf[l] : out'[i].by[a] # None
  BY DEF NothingLost
<1>t. CatTypes /\ Homed /\ Streams
  BY DEF Shape
<1>1. /\ pc = "flush" /\ flushing = {} /\ UNCHANGED <<given, dropped>>
      /\ faulty' = (faulty \/ ~wrote) /\ ~critical'
      /\ critical' = (critical \/ ~(\A sh \in Shards : disk[sh] # "corrupt") \/ ~wrote)
  BY DEF Emit
<1>2. l \in Listings /\ SlotFor(l) \in Slots /\ ShardOf[SlotFor(l)] \in Shards
  BY <1>t, <1>1, InfoTyped DEF CatTypes
<1>3. Served(Holds(SlotFor(l)), l)
  BY <1>t, <1>1 DEF Kept, Updating, Streams
<1>4. buffer[SlotFor(l)] = None
  BY <1>1, <1>2 DEF Written
<1>5. Holds(SlotFor(l)) = file[SlotFor(l)] /\ file[SlotFor(l)] # None
  BY <1>3, <1>4 DEF Holds, Served
<1>6. PICK i \in DOMAIN out' : out'[i] = file[SlotFor(l)]
  BY <1>t, <1>1, <1>2, <1>5, Emits
<1>7. SlotOf[out'[i].title] = SlotOf[TitleOf[l]]
  BY <1>t, <1>2, <1>5, <1>6 DEF Homed, SlotFor
<1> QED
  BY <1>1, <1>3, <1>5, <1>6, <1>7 DEF Served

\* Steps keep it.
LEMMA KeptStep == Shape /\ KeptInv /\ [Next]_vars => KeptInv'
<1> SUFFICES ASSUME Shape, KeptInv, [Next]_vars PROVE KeptInv'
  OBVIOUS
<1> USE DEF sorterVars, indexVars, counters, parseRest, addRest
<1>s. Shape'
  BY ShapeInv
<1>t. CatTypes /\ CatTypes' /\ Streams /\ Streams'
  BY <1>s DEF Shape
<1>k. Kept /\ Written /\ NothingLost
  BY DEF KeptInv
<1>w. pc' # "idle" => NothingLost'
  BY <1>t DEF Streams, NothingLost
<1>1. CASE UNCHANGED vars
  <2>1. Kept'
    BY <1>1, <1>k DEF vars, Kept, Updating, Served, Holds
  <2>2. Written' /\ NothingLost'
    BY <1>1, <1>k DEF vars, Written, NothingLost
  <2> QED
    BY <2>1, <2>2 DEF KeptInv
<1>2. ASSUME NEW e, Boot(e) PROVE KeptInv'
  BY <1>2 DEF Boot, KeptInv, Kept, Written, NothingLost, Updating
<1>3. CASE Halting
  <2>1. pc' = "down"
    BY <1>t, <1>3, HaltsAnywhere
  <2> QED
    BY <1>w, <2>1 DEF KeptInv, Kept, Written, Updating
<1>4. ASSUME NEW ls \in Lists, NewUpdate(ls) PROVE KeptInv'
  BY <1>w, <1>4 DEF NewUpdate, KeptInv, Kept, Written
<1>5. ASSUME NEW l \in Listings, ParseLine(l) \/ ParseUnwritten(l) PROVE KeptInv'
  <2>1. /\ pc = "load" /\ l \in todo /\ Parsed(l) /\ (faulty => faulty')
        /\ UNCHANGED <<pc, buffer, file, critical, dropped>>
    BY <1>5 DEF ParseLine, ParseUnwritten
  <2>2. given' \ streamCh' \subseteq given \ streamCh
    BY <2>1 DEF Parsed
  <2>3. Kept'
    BY <1>k, <2>1, <2>2 DEF Kept, Updating, Served, Holds
  <2> QED
    BY <1>w, <2>1, <2>3 DEF KeptInv, Written
<1>6. ASSUME NEW l \in Listings, AddUnreadable(l) PROVE KeptInv'
  BY <1>w, <1>6 DEF AddUnreadable, KeptInv, Kept, Written
<1>7. ASSUME NEW l \in Listings, NEW how \in Outcome, AddNew(l, how) \/ AddExisting(l, how) PROVE KeptInv'
  <2>1. pc' = "load"
    BY <1>7 DEF AddNew, AddExisting
  <2>2. Kept'
    BY <1>s, <1>k, <1>7, KeptByWorkers
  <2> QED
    BY <1>w, <2>1, <2>2 DEF KeptInv, Written
<1>8. CASE StartFlushing
  <2>1. /\ pc = "load" /\ pc' = "flush" /\ flushing' = Shards
        /\ UNCHANGED <<buffer, disk, file, critical, faulty, given, dropped, streamCh>>
    BY <1>8 DEF StartFlushing
  <2>2. Kept'
    BY <1>k, <2>1 DEF Kept, Updating, Served, Holds
  <2>3. Written'
    BY <2>1, ListingsPlaced DEF Written
  <2> QED
    BY <1>w, <2>1, <2>2, <2>3 DEF KeptInv
<1>9. ASSUME NEW sh \in Shards, NEW how \in Outcome, FlushShard(sh, how) PROVE KeptInv'
  <2>1. /\ pc = "flush" /\ UNCHANGED <<pc, given, dropped, streamCh>> /\ flushing' = flushing \ {sh}
    BY <1>9 DEF FlushShard
  <2>2. /\ Remembers /\ UNCHANGED critical
        /\ \A t \in Shards : t # sh => disk'[t] = disk[t]
        /\ \A j \in Slots :
              /\ buffer'[j] \in {buffer[j], None}
              /\ Holds(j)' = Holds(j) \/ (faulty' /\ Holds(j)' = None)
              /\ ShardOf[j] = sh => buffer'[j] = None \/ faulty' \/ disk'[sh] = "corrupt"
    BY <1>t, <1>9, Flushes
  <2>3. Kept'
    <3> SUFFICES ASSUME ~faulty', ~critical', NEW m \in given \ streamCh
                 PROVE  Served(Holds(SlotFor(m)), m)'
      BY <2>1 DEF Kept
    <3>1. Served(Holds(SlotFor(m)), m)
      BY <1>k, <2>1, <2>2 DEF Kept, Updating, Remembers
    <3>2. SlotFor(m) \in Slots
      BY <1>t, InfoTyped DEF CatTypes
    <3> QED
      BY <2>1, <2>2, <3>1, <3>2 DEF Served
  <2>4. Written'
    <3> SUFFICES ASSUME ~faulty', NEW j \in Slots
                 PROVE  \/ ShardOf[j] \in flushing'
                        \/ buffer'[j] = None
                        \/ disk'[ShardOf[j]] = "corrupt"
      BY DEF Written
    <3>1. \/ ShardOf[j] \in flushing
          \/ buffer[j] = None
          \/ disk[ShardOf[j]] = "corrupt"
      BY <1>k, <2>1, <2>2 DEF Written, Remembers
    <3>2. ShardOf[j] \in Shards
      BY ListingsPlaced
    <3> QED
      BY <2>1, <2>2, <3>1, <3>2
  <2> QED
    BY <1>w, <2>1, <2>3, <2>4 DEF KeptInv
<1>10. ASSUME NEW wrote \in BOOLEAN, Emit(wrote) PROVE KeptInv'
  <2>1. pc' = "idle"
    BY <1>10 DEF Emit
  <2>2. NothingLost'
    BY <1>k, <1>10, KeptByEmit
  <2> QED
    BY <2>1, <2>2 DEF KeptInv, Kept, Written, Updating
<1> QED
  BY <1>1, <1>2, <1>3, <1>4, <1>5, <1>6, <1>7, <1>8, <1>9, <1>10 DEF Next, Halting

\* NothingLost: a playlist published without a failed write has every channel
\* that was accepted, with what each listing shows, in whatever order the
\* workers added them (AddToSorter, handleExisting, GetSortedEntries); but for
\* the attributes of one that came while the first of its channel was buffered.
THEOREM EveryStreamIsPublished == Spec => []NothingLost
<1>1. Init => KeptInv
  BY DEF Init, KeptInv, Kept, Written, NothingLost, Updating
<1>2. Shape /\ KeptInv /\ [Next]_vars => KeptInv'
  BY KeptStep
<1>3. KeptInv => NothingLost
  BY DEF KeptInv
<1> QED
  BY <1>1, <1>2, <1>3, ShapeAlways, PTL DEF Spec

-----------------------------------------------------------------------------
(* The numbers of the sort keys, as strings.                               *)

\* A non-empty set of numbers has a least one.
LEMMA LeastNumber ==
    ASSUME NEW S \in SUBSET Nat, S # {}
    PROVE  \E m \in S : \A k \in S : m <= k
<1>1. PICK m \in S : \A k \in S : ~(<<k, m>> \in OpToRel(<, Nat))
  BY NatLessThanWellFounded, WFMin
<1>2. \A k \in S : ~(k < m)
  BY <1>1 DEF OpToRel
<1> QED
  BY <1>2

Digit == 0 .. 9

\* The body of Digits, and a function that satisfies it up to a number.
DigitsStep(f, n) == IF n < 10 THEN <<n>> ELSE Append(f[n \div 10], n % 10)
Approx(g, m) ==
    /\ g \in [0 .. m -> Seq(Digit)]
    /\ \A n \in 0 .. m : g[n] = DigitsStep(g, n)

\* Two such functions agree where both are defined.
LEMMA ApproxAgree ==
    ASSUME NEW m \in Nat, NEW k \in Nat, NEW g, NEW h, Approx(g, m), Approx(h, k)
    PROVE  \A n \in Nat : n <= m /\ n <= k => g[n] = h[n]
<1> DEFINE Wrong == {n \in Nat : n <= m /\ n <= k /\ g[n] # h[n]}
<1>1. SUFFICES ASSUME Wrong # {} PROVE FALSE
  OBVIOUS
<1>2. PICK n \in Wrong : \A i \in Wrong : n <= i
  BY <1>1, LeastNumber
<1>3. g[n] = DigitsStep(g, n) /\ h[n] = DigitsStep(h, n)
  BY DEF Approx
<1>4. n >= 10
  BY <1>3 DEF DigitsStep
<1>5. n \div 10 \in Nat /\ n \div 10 < n
  BY <1>4
<1>6. g[n \div 10] = h[n \div 10]
  BY <1>2, <1>5
<1> QED
  BY <1>3, <1>4, <1>6 DEF DigitsStep

\* There is one for every number.
LEMMA ApproxExists ==
    \A m \in Nat : \E g : Approx(g, m)
<1> DEFINE Wrong == {m \in Nat : ~\E g : Approx(g, m)}
<1>1. SUFFICES ASSUME Wrong # {} PROVE FALSE
  OBVIOUS
<1>2. PICK m \in Wrong : \A i \in Wrong : m <= i
  BY <1>1, LeastNumber
<1>3. CASE m = 0
  <2> DEFINE h == [i \in 0 .. 0 |-> <<i>>]
  <2>1. h \in [0 .. 0 -> Seq(Digit)]
    BY DEF Digit
  <2>2. Approx(h, m)
    BY <1>3, <2>1 DEF Approx, DigitsStep
  <2> QED
    BY <2>2
<1>4. CASE m > 0
  <2>1. m - 1 \in Nat /\ m - 1 \notin Wrong
    BY <1>2, <1>4
  <2>2. PICK g : Approx(g, m - 1)
    BY <2>1
  <2> DEFINE h == [i \in 0 .. m |-> IF i < m THEN g[i] ELSE DigitsStep(g, m)]
  <2>3. \A i \in 0 .. m - 1 : g[i] \in Seq(Digit)
    BY <2>1, <2>2 DEF Approx
  <2>4. m >= 10 => m \div 10 \in 0 .. m - 1 /\ m % 10 \in Digit
    BY DEF Digit
  <2>5. DigitsStep(g, m) \in Seq(Digit)
    <3>1. CASE m < 10
      BY <3>1 DEF DigitsStep, Digit
    <3>2. CASE m >= 10
      BY <2>3, <2>4, <3>2, AppendProperties DEF DigitsStep
    <3> QED
      BY <3>1, <3>2
  <2>6. h \in [0 .. m -> Seq(Digit)]
    BY <2>3, <2>5
  <2>7. ASSUME NEW n \in 0 .. m PROVE h[n] = DigitsStep(h, n)
    <3>1. n >= 10 => n \div 10 \in 0 .. m - 1
      BY <1>4
    <3>2. DigitsStep(h, n) = DigitsStep(g, n)
      BY <3>1 DEF DigitsStep
    <3>3. n < m => g[n] = DigitsStep(g, n)
      BY <2>2 DEF Approx
    <3> QED
      BY <3>2, <3>3
  <2>8. Approx(h, m)
    BY <2>6, <2>7 DEF Approx
  <2> QED
    BY <2>8
<1> QED
  BY <1>3, <1>4

\* So the recursive definition of Digits defines a function.
LEMMA DigitsDefined ==
    Digits = [n \in Nat |-> DigitsStep(Digits, n)]
<1> DEFINE g(m) == CHOOSE g : Approx(g, m)
           F == [n \in Nat |-> g(n)[n]]
<1>1. \A m \in Nat : Approx(g(m), m)
  BY ApproxExists
<1> HIDE DEF g
<1>2. ASSUME NEW n \in Nat PROVE F[n] = DigitsStep(F, n)
  <2>1. g(n)[n] = DigitsStep(g(n), n)
    BY <1>1 DEF Approx
  <2>2. n >= 10 => n \div 10 \in Nat /\ n \div 10 <= n
    OBVIOUS
  <2>3. n >= 10 => g(n)[n \div 10] = g(n \div 10)[n \div 10]
    BY <1>1, <2>2, ApproxAgree
  <2> QED
    BY <2>1, <2>2, <2>3 DEF DigitsStep
<1>3. F = [n \in Nat |-> DigitsStep(F, n)]
  BY <1>2
<1> HIDE DEF F
<1>4. \E f : f = [n \in Nat |-> IF n < 10 THEN <<n>> ELSE Append(f[n \div 10], n % 10)]
  BY <1>3 DEF DigitsStep
<1> QED
  BY <1>4, Zenon DEF Digits, DigitsStep

\* Numbers are written with digits, at least one of them.
LEMMA DigitsTyped ==
    \A n \in Nat : Digits[n] \in Seq(Digit) /\ Len(Digits[n]) >= 1
<1> DEFINE Good(n) == Digits[n] \in Seq(Digit) /\ Len(Digits[n]) >= 1
           Wrong == {n \in Nat : ~Good(n)}
<1>1. SUFFICES ASSUME Wrong # {} PROVE FALSE
  OBVIOUS
<1>2. PICK n \in Wrong : \A i \in Wrong : n <= i
  BY <1>1, LeastNumber
<1>3. Digits[n] = DigitsStep(Digits, n)
  BY DigitsDefined
<1>4. n >= 10
  <2> SUFFICES ASSUME n < 10 PROVE FALSE
    OBVIOUS
  <2>1. Digits[n] = <<n>> /\ n \in Digit
    BY <1>3 DEF DigitsStep, Digit
  <2>2. <<n>> \in Seq(Digit) /\ Len(<<n>>) = 1
    BY <2>1
  <2>3. Good(n)
    BY <2>1, <2>2
  <2> QED
    BY <2>3
<1>5. n \div 10 \in Nat /\ n \div 10 < n /\ n % 10 \in Digit
  BY <1>4 DEF Digit
<1>6. Good(n \div 10)
  BY <1>2, <1>5
<1>7. Digits[n] = Append(Digits[n \div 10], n % 10)
  BY <1>3, <1>4 DEF DigitsStep
<1>8. Good(n)
  BY <1>5, <1>6, <1>7, AppendProperties
<1> QED
  BY <1>8

\* A number below ten is its own digit.
LEMMA DigitsBelow ==
    ASSUME NEW n \in Nat, n < 10
    PROVE  Len(Digits[n]) = 1 /\ Digits[n][1] = n
<1>1. Digits[n] = <<n>>
  BY DigitsDefined DEF DigitsStep
<1>2. Len(<<n>>) = 1 /\ <<n>>[1] = n
  OBVIOUS
<1> QED
  BY <1>1, <1>2

\* The digits of any other number are those of its tenth and one more.
LEMMA DigitsAbove ==
    ASSUME NEW n \in Nat, n >= 10
    PROVE  LET m == n \div 10
           IN /\ m \in Nat /\ Len(Digits[n]) = Len(Digits[m]) + 1
              /\ Digits[n][Len(Digits[m]) + 1] = n % 10
              /\ \A i \in 1 .. Len(Digits[m]) : Digits[n][i] = Digits[m][i]
<1> DEFINE m == n \div 10
<1>1. m \in Nat /\ n % 10 \in Digit
  BY DEF Digit
<1>2. Digits[n] = Append(Digits[m], n % 10)
  BY DigitsDefined DEF DigitsStep
<1> HIDE DEF m
<1>3. Digits[m] \in Seq(Digit)
  BY <1>1, DigitsTyped
<1>4. /\ Len(Digits[n]) = Len(Digits[m]) + 1
      /\ Digits[n][Len(Digits[m]) + 1] = n % 10
      /\ \A i \in 1 .. Len(Digits[m]) : Digits[n][i] = Digits[m][i]
  BY <1>1, <1>2, <1>3, AppendProperties
<1> QED
  BY <1>1, <1>4 DEF m

\* Numbers below a bound have at most as many digits as its power of ten.
Short(m, k) == \A n \in Nat : n < m => Len(Digits[n]) <= k

\* Ten times the bound takes one digit more.
LEMMA ShortStep ==
    ASSUME NEW m \in Nat, NEW k \in Nat, Short(m, k), m >= 1, k >= 1
    PROVE  Short(10 * m, k + 1)
<1> SUFFICES ASSUME NEW n \in Nat, n < 10 * m PROVE Len(Digits[n]) <= k + 1
  BY DEF Short
<1>1. CASE n < 10
  <2>1. Len(Digits[n]) = 1
    BY <1>1, DigitsBelow
  <2> QED
    BY <2>1
<1>2. CASE n >= 10
  <2>1. n \div 10 \in Nat /\ n \div 10 < m
    BY <1>2
  <2>2. Len(Digits[n \div 10]) <= k
    BY <2>1 DEF Short
  <2>3. Len(Digits[n]) = Len(Digits[n \div 10]) + 1
    BY <1>2, DigitsAbove
  <2>4. Len(Digits[n \div 10]) \in Nat
    BY <2>1, DigitsTyped, LenProperties
  <2> QED
    BY <2>2, <2>3, <2>4
<1> QED
  BY <1>1, <1>2

\* The largest 32-bit number is less than the first one of eleven digits.
LEMMA MaxInt32Small ==
    MaxInt32 \in Nat /\ MaxInt32 < 10000000000
BY SMT DEF MaxInt32

\* A 32-bit number has at most ten digits.
LEMMA TenDigits ==
    \A n \in 0 .. MaxInt32 : Len(Digits[n]) <= 10
<1>1. Short(10, 1)
  <2> SUFFICES ASSUME NEW n \in Nat, n < 10 PROVE Len(Digits[n]) <= 1
    BY DEF Short
  <2>1. Len(Digits[n]) = 1
    BY DigitsBelow
  <2> QED
    BY <2>1
<1>2. Short(100, 2)
  BY <1>1, ShortStep, SMT
<1>3. Short(1000, 3)
  BY <1>2, ShortStep, SMT
<1>4. Short(10000, 4)
  BY <1>3, ShortStep, SMT
<1>5. Short(100000, 5)
  BY <1>4, ShortStep, SMT
<1>6. Short(1000000, 6)
  BY <1>5, ShortStep, SMT
<1>7. Short(10000000, 7)
  BY <1>6, ShortStep, SMT
<1>8. Short(100000000, 8)
  BY <1>7, ShortStep, SMT
<1>9. Short(1000000000, 9)
  BY <1>8, ShortStep, SMT
<1>10. Short(10000000000, 10)
  BY <1>9, ShortStep, SMT
<1>11. \A n \in 0 .. MaxInt32 : n \in Nat /\ n < 10000000000
  BY MaxInt32Small, SMT
<1> QED
  BY <1>10, <1>11, SMT DEF Short

\* What padding puts at each place: zeros, then the digits.
LEMMA PaddedAt ==
    ASSUME NEW n \in Nat, NEW w \in Nat, Len(Digits[n]) <= w
    PROVE  /\ Padded(n, w) \in Seq(Digit) /\ Len(Padded(n, w)) = w
           /\ \A i \in 1 .. w :
                 Padded(n, w)[i] = IF i <= w - Len(Digits[n]) THEN 0
                                   ELSE Digits[n][i - (w - Len(Digits[n]))]
<1> DEFINE d == Digits[n]
           k == w - Len(d)
           z == [i \in 1 .. (IF Len(d) < w THEN w - Len(d) ELSE 0) |-> 0]
<1>1. d \in Seq(Digit) /\ Len(d) \in Nat /\ Len(d) >= 1
  BY DigitsTyped, LenProperties
<1>2. k \in Nat /\ z = [i \in 1 .. k |-> 0]
  BY <1>1
<1>3. z \in Seq(Digit) /\ Len(z) = k
  <2>1. [i \in 1 .. k |-> 0] \in Seq(Digit) /\ Len([i \in 1 .. k |-> 0]) = k
    BY <1>2 DEF Digit
  <2> QED
    BY <1>2, <2>1
<1>4. \A i \in 1 .. k : z[i] = 0
  BY <1>2
<1>5. Padded(n, w) = z \o d
  BY DEF Padded
<1> HIDE DEF d, z
<1>6. z \o d \in Seq(Digit) /\ Len(z \o d) = Len(z) + Len(d)
  BY <1>1, <1>3, ConcatProperties
<1>7. Len(z) + Len(d) = w
  BY <1>1, <1>3
<1>8. \A i \in 1 .. w : (z \o d)[i] = IF i <= Len(z) THEN z[i] ELSE d[i - Len(z)]
  BY <1>1, <1>3, <1>7, ConcatProperties
<1>9. \A i \in 1 .. w : (z \o d)[i] = IF i <= k THEN 0 ELSE d[i - k]
  BY <1>2, <1>3, <1>4, <1>8
<1> QED
  BY <1>5, <1>6, <1>7, <1>9 DEF d

\* The order of strings of the same length: that of their first difference.
FirstLess(s, t, i) == s[i] < t[i] /\ \A j \in 1 .. i - 1 : s[j] = t[j]

\* A padded number: the padding of its tenth in a place less, then its last
\* digit.
LEMMA PaddedStep ==
    ASSUME NEW n \in Nat, NEW w \in Nat, Len(Digits[n]) <= w
    PROVE  /\ w >= 1 /\ Padded(n, w)[w] = n % 10
           /\ \/ w = 1 /\ n < 10
              \/ /\ w > 1 /\ Len(Digits[n \div 10]) <= w - 1
                 /\ \A i \in 1 .. w - 1 : Padded(n, w)[i] = Padded(n \div 10, w - 1)[i]
<1>1. Len(Digits[n]) \in Nat /\ Len(Digits[n]) >= 1 /\ w >= 1
  BY DigitsTyped, LenProperties
<1>2. \A i \in 1 .. w :
         Padded(n, w)[i] = IF i <= w - Len(Digits[n]) THEN 0
                           ELSE Digits[n][i - (w - Len(Digits[n]))]
  BY PaddedAt
<1>3. CASE n < 10
  <2>1. Len(Digits[n]) = 1 /\ Digits[n][1] = n /\ n % 10 = n
    BY <1>3, DigitsBelow
  <2>2. \A i \in 1 .. w : Padded(n, w)[i] = IF i <= w - 1 THEN 0 ELSE n
    BY <1>1, <1>2, <2>1
  <2>3. CASE w > 1
    <3>1. n \div 10 = 0 /\ 0 \in Nat /\ w - 1 \in Nat
      BY <1>3, <2>3
    <3>2. Len(Digits[0]) = 1 /\ Digits[0][1] = 0
      BY DigitsBelow
    <3>3. \A i \in 1 .. w - 1 : Padded(0, w - 1)[i] = 0
      <4> DEFINE v == w - 1
      <4>1. v \in Nat /\ Len(Digits[0]) <= v
        BY <2>3, <3>1, <3>2
      <4> HIDE DEF v
      <4>2. \A i \in 1 .. v : Padded(0, v)[i] = IF i <= v - 1 THEN 0 ELSE Digits[0][i - (v - 1)]
        <5>1. \A i \in 1 .. v : Padded(0, v)[i] = IF i <= v - Len(Digits[0]) THEN 0
                                ELSE Digits[0][i - (v - Len(Digits[0]))]
          BY <3>1, <4>1, PaddedAt
        <5> QED
          BY <3>2, <5>1
      <4>3. \A i \in 1 .. v : Padded(0, v)[i] = 0
        BY <3>2, <4>1, <4>2
      <4> QED
        BY <4>3 DEF v
    <3>4. \A i \in 1 .. w - 1 : Padded(n, w)[i] = 0
      BY <1>1, <2>2
    <3>5. Padded(n, w)[w] = n
      BY <1>1, <2>2
    <3>6. Len(Digits[n \div 10]) <= w - 1
      <4>1. w - 1 >= 1
        BY <2>3
      <4>2. Len(Digits[n \div 10]) = 1
        BY <3>1, <3>2
      <4> QED
        BY <4>1, <4>2
    <3> QED
      BY <1>1, <2>1, <2>3, <3>1, <3>3, <3>4, <3>5, <3>6
  <2> QED
    BY <1>1, <1>3, <2>1, <2>2, <2>3
<1>4. CASE n >= 10
  <2> DEFINE m == n \div 10
  <2>1. m \in Nat /\ Len(Digits[n]) = Len(Digits[m]) + 1
        /\ Digits[n][Len(Digits[m]) + 1] = n % 10
        /\ \A i \in 1 .. Len(Digits[m]) : Digits[n][i] = Digits[m][i]
    BY <1>4, DigitsAbove
  <2> HIDE DEF m
  <2>2. Len(Digits[m]) \in Nat /\ Len(Digits[m]) >= 1
    BY <2>1, DigitsTyped, LenProperties
  <2>3. w - 1 \in Nat /\ w > 1 /\ Len(Digits[m]) <= w - 1
    BY <1>1, <2>1, <2>2
  <2>4. \A i \in 1 .. w - 1 :
           Padded(m, w - 1)[i] = IF i <= w - 1 - Len(Digits[m]) THEN 0
                                 ELSE Digits[m][i - (w - 1 - Len(Digits[m]))]
    BY <2>1, <2>3, PaddedAt
  <2> DEFINE k == w - Len(Digits[n])
             q == Len(Digits[m])
  <2>5. q \in Nat /\ k \in Int /\ k = w - 1 - q /\ w - k = q + 1 /\ w > k /\ q >= 1
    <3>1. Len(Digits[n]) = q + 1
      BY <2>1
    <3>2. q \in Nat /\ q >= 1
      BY <2>2
    <3> HIDE DEF q
    <3> QED
      BY <3>1, <3>2
  <2>6. Padded(n, w)[w] = n % 10
    <3>1. Padded(n, w)[w] = IF w <= k THEN 0 ELSE Digits[n][w - k]
      BY <1>1, <1>2
    <3>2. Padded(n, w)[w] = Digits[n][w - k]
      <4> HIDE DEF k
      <4> QED
        BY <2>5, <3>1
    <3>3. w - k = Len(Digits[m]) + 1
      BY <2>5
    <3> QED
      BY <2>1, <3>2, <3>3
  <2>7. ASSUME NEW i \in 1 .. w - 1 PROVE Padded(n, w)[i] = Padded(m, w - 1)[i]
    <3>1. Padded(n, w)[i] = IF i <= k THEN 0 ELSE Digits[n][i - k]
      BY <1>1, <1>2
    <3>2. Padded(m, w - 1)[i] = IF i <= k THEN 0 ELSE Digits[m][i - k]
      BY <2>4, <2>5
    <3>3. \A j \in 1 .. q : Digits[n][j] = Digits[m][j]
      BY <2>1
    <3> HIDE DEF k, q
    <3>4. i > k => i - k \in 1 .. q
      BY <2>5
    <3> QED
      BY <2>5, <3>1, <3>2, <3>3, <3>4
  <2> QED
    BY <1>1, <2>3, <2>6, <2>7 DEF m
<1> QED
  BY <1>3, <1>4

\* Padded to the same width, numbers have the order of their strings.
LEMMA PaddedOrder ==
    \A w \in Nat : \A a, b \in Nat :
        a < b /\ Len(Digits[a]) <= w /\ Len(Digits[b]) <= w =>
            \E i \in 1 .. w : FirstLess(Padded(a, w), Padded(b, w), i)
<1> DEFINE Good(w) == \A a, b \in Nat :
              a < b /\ Len(Digits[a]) <= w /\ Len(Digits[b]) <= w =>
                  \E i \in 1 .. w : FirstLess(Padded(a, w), Padded(b, w), i)
           Wrong == {w \in Nat : ~Good(w)}
<1>1. SUFFICES ASSUME Wrong # {} PROVE FALSE
  OBVIOUS
<1>2. PICK w \in Wrong : \A k \in Wrong : w <= k
  BY <1>1, LeastNumber
<1>3. PICK a \in Nat, b \in Nat :
         /\ a < b /\ Len(Digits[a]) <= w /\ Len(Digits[b]) <= w
         /\ ~\E i \in 1 .. w : FirstLess(Padded(a, w), Padded(b, w), i)
  BY <1>2
<1> DEFINE x == a \div 10
           y == b \div 10
<1>4. w \in Nat /\ w >= 1 /\ Padded(a, w)[w] = a % 10 /\ Padded(b, w)[w] = b % 10
  BY <1>2, <1>3, PaddedStep
<1>5. \/ w = 1 /\ a < 10
      \/ /\ w > 1 /\ Len(Digits[x]) <= w - 1
         /\ \A i \in 1 .. w - 1 : Padded(a, w)[i] = Padded(x, w - 1)[i]
  BY <1>2, <1>3, PaddedStep
<1>6. \/ w = 1 /\ b < 10
      \/ /\ w > 1 /\ Len(Digits[y]) <= w - 1
         /\ \A i \in 1 .. w - 1 : Padded(b, w)[i] = Padded(y, w - 1)[i]
  BY <1>2, <1>3, PaddedStep
<1>7. /\ x \in Nat /\ y \in Nat
      /\ x < y \/ (x = y /\ a % 10 < b % 10)
      /\ b < 10 => x = y
  BY <1>3
<1> HIDE DEF x, y
<1>8. CASE x = y /\ a % 10 < b % 10
  <2>1. \A j \in 1 .. w - 1 : Padded(a, w)[j] = Padded(b, w)[j]
    BY <1>4, <1>5, <1>6, <1>8
  <2>2. w \in 1 .. w /\ FirstLess(Padded(a, w), Padded(b, w), w)
    BY <1>4, <1>8, <2>1 DEF FirstLess
  <2> QED
    BY <1>3, <2>2
<1>9. CASE x < y
  <2>1. w > 1 /\ w - 1 \in Nat
    BY <1>4, <1>6, <1>7, <1>9
  <2>2. Good(w - 1)
    <3> SUFFICES ASSUME ~Good(w - 1) PROVE FALSE
      OBVIOUS
    <3>1. w - 1 \in Wrong
      BY <2>1
    <3> HIDE DEF Wrong
    <3> QED
      BY <1>2, <1>4, <3>1
  <2>3. PICK i \in 1 .. w - 1 : FirstLess(Padded(x, w - 1), Padded(y, w - 1), i)
    BY <1>5, <1>6, <1>7, <1>9, <2>1, <2>2
  <2>4. i \in 1 .. w /\ \A j \in 1 .. i : j \in 1 .. w - 1
    BY <2>1, <2>3
  <2>5. FirstLess(Padded(a, w), Padded(b, w), i)
    <3>1. Padded(x, w - 1)[i] < Padded(y, w - 1)[i]
      BY <2>3 DEF FirstLess
    <3>2. \A j \in 1 .. i - 1 : Padded(x, w - 1)[j] = Padded(y, w - 1)[j]
      BY <2>3 DEF FirstLess
    <3>3. Padded(a, w)[i] < Padded(b, w)[i]
      BY <1>5, <1>6, <2>1, <3>1
    <3>4. \A j \in 1 .. i - 1 : Padded(a, w)[j] = Padded(b, w)[j]
      BY <1>5, <1>6, <2>1, <2>4, <3>2
    <3> QED
      BY <3>3, <3>4 DEF FirstLess
  <2> QED
    BY <1>3, <2>4, <2>5
<1> QED
  BY <1>7, <1>8, <1>9

-----------------------------------------------------------------------------
(* The order of the keys.                                                  *)

\* A string whose first difference is smaller is the smaller one.
LEMMA FirstDecides ==
    ASSUME NEW s, NEW t, NEW i \in 1 .. Len(s), i <= Len(t), FirstLess(s, t, i)
    PROVE  StringLess(s, t)
BY DEF StringLess, FirstLess

\* Whatever is padded, the result is a string of at least one digit.
LEMMA PaddedTyped ==
    ASSUME NEW n \in Nat, NEW w \in Nat
    PROVE  Padded(n, w) \in Seq(Int) /\ Len(Padded(n, w)) >= 1
<1> DEFINE d == Digits[n]
           k == IF Len(d) < w THEN w - Len(d) ELSE 0
           z == [i \in 1 .. k |-> 0]
<1>1. d \in Seq(Digit) /\ Len(d) \in Nat /\ Len(d) >= 1
  BY DigitsTyped, LenProperties
<1>2. d \in Seq(Int)
  BY <1>1, SeqMonotonic DEF Digit
<1>3. k \in Nat
  BY <1>1
<1>4. z \in Seq(Int) /\ Len(z) = k
  <2> HIDE DEF k
  <2> QED
    BY <1>3
<1>5. Padded(n, w) = z \o d
  BY DEF Padded
<1> HIDE DEF d, z
<1>6. z \o d \in Seq(Int) /\ Len(z \o d) = Len(z) + Len(d)
  BY <1>2, <1>4, ConcatProperties
<1>7. Len(z \o d) >= 1
  BY <1>1, <1>3, <1>4, <1>6
<1> QED
  BY <1>5, <1>6, <1>7

\* The key of a number is a string of at least one character.
LEMMA KeyTyped ==
    ASSUME NEW n \in Int
    PROVE  ZeroPadded(n, 10) \in Seq(Int) /\ Len(ZeroPadded(n, 10)) >= 1
<1>1. CASE n < 0
  <2>1. Padded(-n, 9) \in Seq(Int) /\ Len(Padded(-n, 9)) >= 1
    <3>1. -n \in Nat /\ 9 \in Nat
      BY <1>1
    <3> QED
      BY <3>1, PaddedTyped
  <2>2. <<Minus>> \in Seq(Int) /\ Len(<<Minus>>) = 1
    BY DEF Minus
  <2>3. ZeroPadded(n, 10) = <<Minus>> \o Padded(-n, 9)
    BY <1>1 DEF ZeroPadded
  <2>4. /\ <<Minus>> \o Padded(-n, 9) \in Seq(Int)
        /\ Len(<<Minus>> \o Padded(-n, 9)) = Len(<<Minus>>) + Len(Padded(-n, 9))
    BY <2>1, <2>2, ConcatProperties
  <2>5. Len(Padded(-n, 9)) \in Nat
    BY <2>1, LenProperties
  <2>6. Len(<<Minus>> \o Padded(-n, 9)) >= 1
    BY <2>2, <2>4, <2>5
  <2> QED
    BY <2>3, <2>4, <2>6
<1>2. CASE n >= 0
  <2>1. ZeroPadded(n, 10) = Padded(n, 10)
    BY <1>2 DEF ZeroPadded
  <2>2. Padded(n, 10) \in Seq(Int) /\ Len(Padded(n, 10)) >= 1
    <3>1. n \in Nat /\ 10 \in Nat
      BY <1>2
    <3> QED
      BY <3>1, PaddedTyped
  <2> QED
    BY <2>1, <2>2
<1> QED
  BY <1>1, <1>2

\* Nothing comes before every string.
LEMMA EmptyFirst ==
    ASSUME NEW t \in Seq(Int), Len(t) >= 1
    PROVE  StringLess(<<>>, t)
<1>1. Len(<<>>) = 0 /\ Len(t) \in Nat /\ <<>> # t
  BY LenProperties
<1>2. SubSeq(<<>>, 1, 0) = SubSeq(t, 1, 0)
  BY <1>1
<1>3. IsStrictPrefix(<<>>, t)
  BY <1>1, <1>2 DEF IsStrictPrefix, IsPrefix
<1> QED
  BY <1>3 DEF StringLess

\* The keys of two 32-bit numbers have the order of the numbers.
LEMMA KeyOrder ==
    ASSUME NEW a \in 0 .. MaxInt32, NEW b \in 0 .. MaxInt32, a < b
    PROVE  StringLess(ZeroPadded(a, 10), ZeroPadded(b, 10))
<1>2. a \in Nat /\ b \in Nat
  BY MaxInt32Small
<1>3. Len(Digits[a]) <= 10 /\ Len(Digits[b]) <= 10
  BY TenDigits
<1>4. ZeroPadded(a, 10) = Padded(a, 10) /\ ZeroPadded(b, 10) = Padded(b, 10)
  BY <1>2 DEF ZeroPadded
<1>5. Len(Padded(a, 10)) = 10 /\ Len(Padded(b, 10)) = 10
  BY <1>2, <1>3, PaddedAt
<1>6. PICK i \in 1 .. 10 : FirstLess(Padded(a, 10), Padded(b, 10), i)
  BY <1>2, <1>3, PaddedOrder
<1> QED
  <2> DEFINE k == Len(Padded(a, 10))
             l == Len(Padded(b, 10))
  <2>1. i \in 1 .. k /\ i <= l
    <3>1. k = 10 /\ l = 10
      BY <1>5
    <3> HIDE DEF k, l
    <3> QED
      BY <3>1
  <2>2. StringLess(Padded(a, 10), Padded(b, 10))
    BY <1>6, <2>1, FirstDecides
  <2> QED
    BY <1>4, <2>2

\* In the order of the keys of the titles, the titles are ascending.
LEMMA TitleOrder ==
    ASSUME NEW t \in Titles, NEW u \in Titles, NEW dir \in Direction,
           ~StringLess(normalizeStringField(u, dir), normalizeStringField(t, dir))
    PROVE  IF dir = "asc" THEN CleanRankOf[t] <= CleanRankOf[u] ELSE RankOf[t] <= RankOf[u]
<1>1. /\ CleanRankOf[t] \in Nat /\ CleanRankOf[u] \in Nat
      /\ RankOf[t] \in Nat /\ RankOf[u] \in Nat
  BY TitlesRanked
<1>2. CASE dir = "asc"
  <2> SUFFICES ASSUME CleanRankOf[u] < CleanRankOf[t] PROVE FALSE
    BY <1>1, <1>2
  <2>1. FirstLess(<<CleanRankOf[u]>>, <<CleanRankOf[t]>>, 1)
    BY <1>1 DEF FirstLess
  <2>2. StringLess(<<CleanRankOf[u]>>, <<CleanRankOf[t]>>)
    BY <2>1, FirstDecides
  <2> QED
    BY <1>2, <2>2 DEF normalizeStringField
<1>3. CASE dir = "desc"
  <2> SUFFICES ASSUME RankOf[u] < RankOf[t] PROVE FALSE
    BY <1>1, <1>3
  <2>1. FirstLess(<<Tilde, RankOf[u]>>, <<Tilde, RankOf[t]>>, 2)
    BY <1>1 DEF FirstLess
  <2>2. StringLess(<<Tilde, RankOf[u]>>, <<Tilde, RankOf[t]>>)
    <3>1. 2 \in 1 .. Len(<<Tilde, RankOf[u]>>) /\ 2 <= Len(<<Tilde, RankOf[t]>>)
      OBVIOUS
    <3> QED
      BY <2>1, <3>1, FirstDecides
  <2> QED
    BY <1>3, <2>2 DEF normalizeStringField
<1> QED
  BY <1>2, <1>3 DEF Direction

\* In the order of the keys of the numbers, those without one come first,
\* and 32-bit numbers are ascending or descending.
LEMMA NumberOrder ==
    ASSUME NEW m \in Listings \cup {None}, NEW n \in Listings \cup {None},
           NEW dir \in Direction,
           ~StringLess(normalizeNumericField(n, 10, dir), normalizeNumericField(m, 10, dir))
    PROVE  \/ m = None
           \/ /\ n # None
              /\ {ChnoOf[m], ChnoOf[n]} \subseteq 0 .. MaxInt32 =>
                    IF dir = "asc" THEN ChnoOf[m] <= ChnoOf[n] ELSE ChnoOf[m] >= ChnoOf[n]
<1> SUFFICES ASSUME m # None
    PROVE  /\ n # None
           /\ {ChnoOf[m], ChnoOf[n]} \subseteq 0 .. MaxInt32 =>
                 IF dir = "asc" THEN ChnoOf[m] <= ChnoOf[n] ELSE ChnoOf[m] >= ChnoOf[n]
  OBVIOUS
<1>1. ChnoOf[m] \in Int /\ MaxInt32 \in Int
  BY ChannelNumbers, MaxInt32Small
<1>2. MaxInt32 - ChnoOf[m] \in Int
  BY <1>1
<1>3. n # None
  <2> SUFFICES ASSUME n = None PROVE FALSE
    OBVIOUS
  <2>1. normalizeNumericField(n, 10, dir) = <<>>
    BY DEF normalizeNumericField
  <2>2. PICK c \in Int : normalizeNumericField(m, 10, dir) = ZeroPadded(c, 10)
    BY <1>1, <1>2 DEF normalizeNumericField
  <2> QED
    BY <2>1, <2>2, KeyTyped, EmptyFirst
<1>4. ASSUME {ChnoOf[m], ChnoOf[n]} \subseteq 0 .. MaxInt32
      PROVE  IF dir = "asc" THEN ChnoOf[m] <= ChnoOf[n] ELSE ChnoOf[m] >= ChnoOf[n]
  <2> DEFINE a == ChnoOf[m]
             b == ChnoOf[n]
  <2>1. a \in 0 .. MaxInt32 /\ b \in 0 .. MaxInt32
    BY <1>4
  <2>2. dir = "asc" => ~StringLess(ZeroPadded(b, 10), ZeroPadded(a, 10))
    BY <1>3 DEF normalizeNumericField
  <2>3. dir = "desc" => ~StringLess(ZeroPadded(MaxInt32 - b, 10), ZeroPadded(MaxInt32 - a, 10))
    BY <1>3 DEF normalizeNumericField
  <2> HIDE DEF a, b
  <2>4. MaxInt32 - a \in 0 .. MaxInt32 /\ MaxInt32 - b \in 0 .. MaxInt32
    BY <1>1, <2>1
  <2>5. dir = "asc" => ~(b < a)
    BY <2>1, <2>2, KeyOrder
  <2>6. dir = "desc" => ~(MaxInt32 - b < MaxInt32 - a)
    BY <2>3, <2>4, KeyOrder
  <2>7. IF dir = "asc" THEN a <= b ELSE a >= b
    BY <1>1, <2>1, <2>5, <2>6 DEF Direction
  <2> QED
    BY <2>7 DEF a, b
<1> QED
  BY <1>3, <1>4

-----------------------------------------------------------------------------
(* The order of the playlist.                                              *)

\* A playlist counts as published only between updates, and the process has
\* the environment that it was sorted with.
OrderInv ==
    /\ sorting \in [key : Key, dir : Direction]
    /\ pc # "idle" => done # "published"
    /\ Sorted

\* Two channels that may follow each other: Sorted, for a pair of them.
InOrder(by, e, f) ==
    LET m == e.by["chno"]
        n == f.by["chno"]
    IN IF by.key = "title"
       THEN IF by.dir = "asc" THEN CleanRankOf[e.title] <= CleanRankOf[f.title]
            ELSE RankOf[e.title] <= RankOf[f.title]
       ELSE \/ m = None
            \/ /\ n # None
               /\ {ChnoOf[m], ChnoOf[n]} \subseteq 0 .. MaxInt32 =>
                     IF by.dir = "asc" THEN ChnoOf[m] <= ChnoOf[n]
                     ELSE ChnoOf[m] >= ChnoOf[n]

\* The order of the keys is that of the playlist.
LEMMA KeysInOrder ==
    ASSUME sorting \in [key : Key, dir : Direction], NEW e \in Entry, NEW f \in Entry,
           ~StringLess(getSortKey(f), getSortKey(e))
    PROVE  InOrder(sorting, e, f)
<1>1. e.title \in Titles /\ f.title \in Titles
  BY DEF Entry
<1>2. e.by["chno"] \in Listings \cup {None} /\ f.by["chno"] \in Listings \cup {None}
  BY ChannelNumbers DEF Entry
<1>3. sorting.dir \in Direction /\ sorting.key \in {"title", "tvg-chno"}
  BY DEF Key
<1>4. CASE sorting.key = "title"
  <2>1. ~StringLess(normalizeStringField(f.title, sorting.dir),
                    normalizeStringField(e.title, sorting.dir))
    BY <1>4 DEF getSortKey
  <2> QED
    BY <1>1, <1>3, <1>4, <2>1, TitleOrder DEF InOrder
<1>5. CASE sorting.key = "tvg-chno"
  <2>1. ~StringLess(normalizeNumericField(f.by["chno"], 10, sorting.dir),
                    normalizeNumericField(e.by["chno"], 10, sorting.dir))
    BY <1>5 DEF getSortKey
  <2> DEFINE m == e.by["chno"]
             n == f.by["chno"]
  <2>2. \/ m = None
        \/ /\ n # None
           /\ {ChnoOf[m], ChnoOf[n]} \subseteq 0 .. MaxInt32 =>
                 IF sorting.dir = "asc" THEN ChnoOf[m] <= ChnoOf[n] ELSE ChnoOf[m] >= ChnoOf[n]
    BY <1>2, <1>3, <2>1, NumberOrder
  <2>3. sorting.key # "title"
    BY <1>5
  <2> QED
    BY <2>2, <2>3 DEF InOrder
<1> QED
  BY <1>3, <1>4, <1>5

\* What an update publishes is in order.
LEMMA EmitSorts ==
    ASSUME sorting \in [key : Key, dir : Direction], CatTypes', NEW wrote \in BOOLEAN, Emit(wrote)
    PROVE  Sorted'
<1>1. sorting' = sorting
  BY DEF Emit
<1>2. ASSUME done' = "published", NEW i \in DOMAIN out', NEW j \in DOMAIN out', i < j
      PROVE  InOrder(sorting', out'[i], out'[j])
  <2>1. SortedBy(out')
    BY <1>2 DEF Emit
  <2>2. out'[i] \in Entry /\ out'[j] \in Entry
    BY <1>2 DEF CatTypes
  <2>3. ~StringLess(getSortKey(out'[j]), getSortKey(out'[i]))
    BY <1>2, <2>1 DEF SortedBy
  <2> QED
    BY <1>1, <2>2, <2>3, KeysInOrder
<1> QED
  BY <1>2 DEF Sorted, InOrder

\* Every step keeps it.
LEMMA OrderStep == Shape /\ OrderInv /\ [Next]_vars => OrderInv'
<1> SUFFICES ASSUME Shape, OrderInv, [Next]_vars PROVE OrderInv'
  OBVIOUS
<1> USE DEF sorterVars, indexVars, counters, parseRest, addRest
<1>t. CatTypes'
  BY ShapeInv DEF Shape
<1>o. sorting \in [key : Key, dir : Direction] /\ (pc # "idle" => done # "published") /\ Sorted
  BY DEF OrderInv
<1>1. CASE UNCHANGED vars
  BY <1>1, <1>o DEF vars, OrderInv, Sorted
<1>2. ASSUME NEW k \in Key, NEW d \in Direction, Boot([key |-> k, dir |-> d]) PROVE OrderInv'
  BY <1>2, <1>o DEF Boot, OrderInv, Sorted
<1>3. CASE Halting
  BY <1>3, <1>o DEF Halting, Crash, ParseCut, WriteCut, Stops, OrderInv, Sorted
<1>4. ASSUME NEW ls \in Lists, NewUpdate(ls) PROVE OrderInv'
  BY <1>4, <1>o DEF NewUpdate, OrderInv, Sorted
<1>5. ASSUME pc \in {"load", "flush"}, sorting' = sorting, done' = done PROVE OrderInv'
  BY <1>5, <1>o DEF OrderInv, Sorted
<1>6. ASSUME NEW l \in Listings,
             ParseLine(l) \/ ParseUnwritten(l) \/ AddUnreadable(l)
      PROVE  OrderInv'
  BY <1>5, <1>6 DEF ParseLine, ParseUnwritten, AddUnreadable
<1>7. ASSUME NEW l \in Listings, NEW how \in Outcome, AddNew(l, how) \/ AddExisting(l, how)
      PROVE  OrderInv'
  BY <1>5, <1>7 DEF AddNew, AddExisting
<1>8. CASE StartFlushing
  BY <1>5, <1>8 DEF StartFlushing
<1>9. ASSUME NEW sh \in Shards, NEW how \in Outcome, FlushShard(sh, how) PROVE OrderInv'
  BY <1>5, <1>9 DEF FlushShard
<1>10. ASSUME NEW wrote \in BOOLEAN, Emit(wrote) PROVE OrderInv'
  <2>1. Sorted'
    BY <1>t, <1>o, <1>10, EmitSorts
  <2>2. pc' = "idle" /\ sorting' = sorting
    BY <1>10 DEF Emit
  <2> QED
    BY <1>o, <2>1, <2>2 DEF OrderInv
<1> QED
  BY <1>1, <1>2, <1>3, <1>4, <1>6, <1>7, <1>8, <1>9, <1>10 DEF Next, Halting

\* Sorted: whatever GetSortedEntries read from the shards, in whatever order
\* the keys that are equal came, the channels that compileM3U hands over are
\* ascending by title, or ascending or descending by channel number, though
\* sort.Slice compares strings.
THEOREM PlaylistIsSorted == Spec => []Sorted
<1>1. Init => OrderInv
  BY DEF Init, OrderInv, Sorted, Key, Direction
<1>2. Shape /\ OrderInv /\ [Next]_vars => OrderInv'
  BY OrderStep
<1>3. OrderInv => Sorted
  BY DEF OrderInv
<1> QED
  BY <1>1, <1>2, <1>3, ShapeAlways, PTL DEF Spec

=============================================================================
