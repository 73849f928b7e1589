-------------------------- MODULE SourceSyncProofs --------------------------
(***************************************************************************)
(* What the updates leave on the disk and serve, for any number of sources *)
(* and playlists, with failed renames, cancelled updates and a process     *)
(* that stops between any two steps.                                       *)
(*                                                                         *)
(* The inductive invariant SyncInv has seven parts:                        *)
(*   Held      what the process holds in memory is gone when it does not   *)
(*             run, and the update that has the lock has a file;           *)
(*   Files     the processed directory is finite, with one file of a name, *)
(*             and a name without .tmp is a whole playlist;                *)
(*   Written   the file that Wait finds is the one compileM3U wrote;       *)
(*   Renamed   the new playlist is there until the path is set;            *)
(*   Serves    a path with its directory names a file;                     *)
(*   Outcome   such a path is the one of an update that succeeded;         *)
(*   Matched   where the file of a source stands in the update.            *)
(* With it, every step of an update leaves it less to do.                  *)
(***************************************************************************)
EXTENDS SourceSync, FiniteSetTheorems, TLAPS

USE DEF serving

Procs == {"up", "down", "boot panic", "update panic"}
Envs == [clear : BOOLEAN, sync : BOOLEAN, base : BOOLEAN]
States == {"idle", "made", "load", "wait", "apply", "clean", "cancel", "clear", "set"}
FileType == [at : Times, tmp : BOOLEAN, whole : BOOLEAN]
Paths == [form : {"empty", "full", "bare"}, at : Times \cup {0}]
Holdings == [Sources -> Contents \cup {NoContent}]

\* Types of the variables.
SyncTypes ==
    /\ proc \in Procs /\ env \in Envs /\ ctxDone \in BOOLEAN /\ waiting \in 0 .. MaxWaiting
    /\ pc \in States /\ file \in Times \cup {0} /\ critical \in BOOLEAN /\ unnamed \subseteq Times
    /\ todo \subseteq Sources /\ saving \subseteq Sources /\ stale \subseteq Sources
    /\ used \in Holdings /\ src \in Holdings /\ new \in Holdings
    /\ dir \subseteq FileType /\ path \in Paths

Held ==
    /\ proc # "up" => pc = "idle" /\ path = NoPath
    /\ pc \in {"load", "wait", "apply", "cancel", "clear"} => file \in Times
    /\ pc \in {"idle", "clean"} => file = 0
    /\ pc # "load" => saving = {}

OneOfName(d) == \A f, g \in d : f.at = g.at /\ f.tmp = g.tmp => f = g
Files == IsFiniteSet(dir) /\ OneOfName(dir) /\ \A f \in Playlists(dir) : f.whole

Written == pc = "wait" => \E f \in Named(dir, file, TRUE) : critical \/ f.whole

Renamed ==
    pc \in {"apply", "clear", "set"} /\ file # 0 /\ file \notin unnamed =>
        Named(dir, file, FALSE) # {}

Serves ==
    path.form = "full" =>
        Served(path) # {} \/ (pc \in {"clear", "set"} /\ file # 0) \/ path.at \in unnamed

Outcome ==
    /\ outcome \in {"none", "published", "failed"}
    /\ outcome = "published" <=> path.form = "full"

\* A source's part of the playlist is its new file, or the old one if there is no new.
Built(i) == \/ used[i] = new[i] /\ new[i] # NoContent
            \/ used[i] = src[i] /\ new[i] = NoContent

Matched(i) == i \notin stale =>
    /\ pc \in {"idle", "made"} /\ proc = "up" => new[i] = NoContent
    /\ pc = "load" /\ i \in todo => new[i] = NoContent /\ i \notin saving
    /\ pc = "load" /\ i \notin todo /\ i \notin saving => Built(i)
    /\ pc = "wait" => Built(i)
    /\ pc = "apply" /\ i \in todo => Built(i)
    /\ pc = "apply" /\ i \notin todo => src[i] = used[i] /\ new[i] = NoContent
    /\ pc \in {"clean", "cancel"} /\ i \notin todo => new[i] = NoContent
    /\ pc \in {"clear", "set"} => new[i] = NoContent
    /\ pc \in {"clear", "set"} /\ file # 0 => src[i] = used[i]

SyncInv ==
    /\ SyncTypes
    /\ Held /\ Files /\ Written /\ Renamed
    /\ Serves /\ Outcome
    /\ \A i \in Sources : Matched(i)

-----------------------------------------------------------------------------
(* The order of a directory.                                               *)

\* A non-empty set of numbers has a least one.
LEMMA LeastNumber ==
    ASSUME NEW S \in SUBSET Nat, S # {}
    PROVE  \E m \in S : \A k \in S : m <= k
<1>1. PICK m \in S : \A k \in S : ~(<<k, m>> \in OpToRel(<, Nat))
  BY NatLessThanWellFounded, WFMin
<1>2. \A k \in S : ~(k < m)
  BY <1>1 DEF OpToRel
<1> QED
  BY <1>2

\* A non-empty finite set of numbers has a greatest one.
LEMMA GreatestNumber ==
    ASSUME NEW S \in SUBSET Nat, S # {}, IsFiniteSet(S)
    PROVE  \E m \in S : \A k \in S : k <= m
<1> DEFINE Top(T) == \E m \in T : \A k \in T : k <= m
           Wrong == {n \in Nat : \E T \in SUBSET Nat :
                        T # {} /\ IsFiniteSet(T) /\ Cardinality(T) = n /\ ~Top(T)}
<1>1. SUFFICES ASSUME Wrong # {} PROVE FALSE
  <2>1. Cardinality(S) \in Nat
    BY FS_CardinalityType
  <2> QED
    BY <2>1
<1>2. PICK n \in Wrong : \A k \in Wrong : n <= k
  BY <1>1, LeastNumber
<1>3. PICK T \in SUBSET Nat : T # {} /\ IsFiniteSet(T) /\ Cardinality(T) = n /\ ~Top(T)
  BY <1>2
<1>4. PICK x \in T : TRUE
  BY <1>3
<1> DEFINE R == T \ {x}
<1>5. IsFiniteSet(R) /\ Cardinality(R) = n - 1 /\ Cardinality(R) \in Nat
  BY <1>3, <1>4, FS_RemoveElement, FS_CardinalityType
<1>6. R # {}
  <2> SUFFICES ASSUME R = {} PROVE FALSE
    OBVIOUS
  <2>1. T = {x}
    BY <1>4
  <2> QED
    BY <1>3, <2>1
<1>7. Top(R)
  <2> SUFFICES ASSUME ~Top(R) PROVE FALSE
    OBVIOUS
  <2>1. n - 1 \in Wrong
    BY <1>5, <1>6
  <2>2. n \in Nat
    BY <1>2
  <2> QED
    BY <1>2, <2>1, <2>2
<1>8. PICK y \in R : \A k \in R : k <= y
  BY <1>7
<1>9. Top(T)
  <2>1. CASE x <= y
    BY <1>8, <2>1
  <2>2. CASE ~(x <= y)
    BY <1>4, <1>8, <2>2
  <2> QED
    BY <2>1, <2>2
<1> QED
  BY <1>3, <1>9

\* The first file of a directory is one of its files.
LEMMA FirstFile ==
    ASSUME NEW d \in SUBSET FileType, d # {}, OneOfName(d)
    PROVE  First(d) \in d
<1> DEFINE S == {f.at : f \in d}
<1>1. S \in SUBSET Nat /\ S # {}
  BY TimesAreNat DEF FileType
<1>2. PICK m \in S : \A k \in S : m <= k
  BY <1>1, LeastNumber
<1>3. \A g \in d : m <= g.at /\ g.at \in Nat
  BY <1>1, <1>2
<1>4. PICK e \in d : e.at = m
  BY <1>2
<1>5. \A g \in d : g.tmp \in BOOLEAN
  BY DEF FileType
<1>6. \E f \in d : \A g \in d \ {f} : Before(f, g)
  <2>1. CASE \E f \in d : f.at = m /\ ~f.tmp
    <3>1. PICK f \in d : f.at = m /\ ~f.tmp
      BY <2>1
    <3>2. \A g \in d \ {f} : Before(f, g)
      BY <1>3, <1>5, <3>1 DEF Before, OneOfName
    <3> QED
      BY <3>2
  <2>2. CASE \A f \in d : f.at = m => f.tmp
    <3>1. \A g \in d \ {e} : Before(e, g)
      BY <1>3, <1>4, <1>5, <2>2 DEF Before, OneOfName
    <3> QED
      BY <3>1
  <2> QED
    BY <2>1, <2>2, <1>5
<1> QED
  BY <1>6 DEF First

\* The last playlist is one of them.
LEMMA LastFile ==
    ASSUME NEW d \in SUBSET FileType, d # {}, OneOfName(d), IsFiniteSet(d), Tmps(d) = {}
    PROVE  Last(d) \in d
<1> DEFINE S == {f.at : f \in d}
           at == [f \in d |-> f.at]
<1>1. S \in SUBSET Nat /\ S # {}
  BY TimesAreNat DEF FileType
<1>2. at \in Surjection(d, S)
  BY DEF Surjection
<1>3. IsFiniteSet(S)
  BY <1>2, FS_Surjection
<1>4. PICK m \in S : \A k \in S : k <= m
  BY <1>1, <1>3, GreatestNumber
<1>5. \A g \in d : g.at <= m /\ g.at \in Nat
  BY <1>1, <1>4
<1>6. PICK e \in d : e.at = m
  BY <1>4
<1>7. \A g \in d : ~g.tmp
  BY DEF Tmps
<1>8. \A g \in d \ {e} : Before(g, e)
  <2> SUFFICES ASSUME NEW g \in d \ {e} PROVE g.at < e.at
    BY DEF Before
  <2>1. g.tmp = e.tmp
    <3>1. g.tmp \in BOOLEAN /\ e.tmp \in BOOLEAN
      BY DEF FileType
    <3> QED
      BY <1>7, <3>1
  <2>2. g.at # e.at
    BY <2>1 DEF OneOfName
  <2> QED
    BY <1>5, <1>6, <2>2
<1> QED
  BY <1>8 DEF Last

-----------------------------------------------------------------------------
(* Types.                                                                  *)

\* How many updates may wait.
LEMMA WaitingTyped ==
    /\ MaxWaiting \in Nat /\ 0 \in 0 .. MaxWaiting /\ 1 \in 0 .. MaxWaiting
    /\ \A n \in 0 .. MaxWaiting : /\ n < MaxWaiting => n + 1 \in 0 .. MaxWaiting
                                  /\ n > 0 => n - 1 \in 0 .. MaxWaiting
BY WaitingBound

\* Writing the new file keeps the types of the directory.
LEMMA FileTyped ==
    ASSUME NEW t \in Times, NEW tmp \in BOOLEAN, NEW whole \in BOOLEAN
    PROVE  /\ File(t, tmp, whole) \in FileType
           /\ File(t, tmp, whole).at = t /\ File(t, tmp, whole).tmp = tmp
           /\ File(t, tmp, whole).whole = whole
BY DEF File, FileType

\* The types of the paths.
LEMMA PathTyped ==
    /\ NoPath \in Paths /\ NoPath.form = "empty"
    /\ \A t \in Times : /\ Full(t) \in Paths
                        /\ Full(t).form = "full" /\ Full(t).at = t
                        /\ Bare(t) \in Paths
                        /\ Bare(t).form = "bare"
<1>1. PICK e \in {"empty", "full", "bare"} : e = "empty"
  OBVIOUS
<1>2. PICK f \in {"empty", "full", "bare"} : f = "full"
  OBVIOUS
<1>3. PICK b \in {"empty", "full", "bare"} : b = "bare"
  OBVIOUS
<1> QED
  BY <1>1, <1>2, <1>3 DEF NoPath, Full, Bare, Paths

\* The path of the latest playlist is a bare name, or none.
LEMMA LatestTyped ==
    ASSUME SyncTypes, Files, ~LatestPanics(dir)
    PROVE  /\ LatestPath(dir) \in Paths
           /\ LatestPath(dir).form # "full"
<1>1. CASE dir = {}
  BY <1>1, PathTyped DEF LatestPath
<1>2. CASE dir # {}
  <2>1. Tmps(dir) = {}
    BY DEF LatestPanics
  <2>2. Playlists(dir) = dir
    BY <2>1 DEF Playlists, Tmps
  <2>3. dir \in SUBSET FileType
    BY DEF SyncTypes
  <2>4. Last(dir) \in dir
    BY <1>2, <2>1, <2>3, LastFile DEF Files
  <2>5. Last(dir).at \in Times
    BY <2>3, <2>4 DEF FileType
  <2>6. LatestPath(dir) = Bare(Last(dir).at)
    BY <1>2, <2>2 DEF LatestPath
  <2> QED
    BY <2>5, <2>6, PathTyped
<1> QED
  BY <1>1, <1>2

\* Every name of a file that a rename gives is a name without .tmp.
LEMMA RenameTyped ==
    ASSUME NEW f \in FileType
    PROVE  LET g == [f EXCEPT !.tmp = FALSE] IN
           g \in FileType /\ g.at = f.at /\ g.tmp = FALSE /\ g.whole = f.whole
BY DEF FileType

\* What a process that stops leaves of its memory.
LEMMA StopsTyped ==
    ASSUME SyncTypes, NEW how \in Procs, Stops(how), UNCHANGED diskVars
    PROVE  SyncTypes'
<1>1. /\ proc' \in Procs /\ UNCHANGED <<env, dir, src, new>>
      /\ ctxDone' = FALSE /\ waiting' = 0 /\ path' = NoPath
      /\ pc' = "idle" /\ file' = 0 /\ critical' = FALSE
      /\ todo' = {} /\ saving' = {} /\ used' = Absent /\ stale' = {} /\ unnamed' = {}
  BY DEF Stops, diskVars
<1>2. used' \in Holdings
  BY <1>1 DEF Absent, Holdings
<1>3. waiting' \in 0 .. MaxWaiting
  BY <1>1, WaitingTyped
<1> QED
  BY <1>1, <1>2, <1>3, PathTyped DEF SyncTypes, States

\* The types are kept while the process does not run.
LEMMA TypesDown ==
    ASSUME SyncTypes, Held, Files,
           \/ \E e \in Envs : Boot(e) \/ BootPanics(e)
           \/ \E f \in dir : BootCut(f)
           \/ LoseTemp \/ Crash \/ CronFires \/ Cancel
    PROVE  SyncTypes'
<1> USE DEF updateVars, diskVars
<1>0. PICK down \in Procs : down = "down"
  BY DEF Procs
<1>1. ASSUME NEW e \in Envs, Boot(e) PROVE SyncTypes'
  <2>1. dir' \subseteq dir
    BY <1>1 DEF Boot
  <2>2. path' \in Paths
    BY <1>1, LatestTyped, PathTyped DEF Boot
  <2>3. stale' \subseteq Sources
    BY <1>1 DEF Boot
  <2>4. waiting' \in 0 .. MaxWaiting
    BY <1>1, WaitingTyped DEF Boot
  <2> QED
    BY <1>1, <2>1, <2>2, <2>3, <2>4 DEF Boot, SyncTypes, Procs
<1>2. ASSUME NEW e \in Envs, BootPanics(e) PROVE SyncTypes'
  BY <1>2 DEF BootPanics, SyncTypes, Procs
<1>3. ASSUME NEW f \in dir, BootCut(f) PROVE SyncTypes'
  <2>1. dir' \subseteq dir
    BY <1>3 DEF BootCut
  <2>2. UNCHANGED <<proc, env, ctxDone, waiting, pc, file, critical, todo, saving, used, stale,
                    unnamed, src, new, path>>
    BY <1>3 DEF BootCut
  <2>3. waiting' \in 0 .. MaxWaiting
    BY <2>2 DEF SyncTypes
  <2> QED
    BY <2>1, <2>2, <2>3 DEF SyncTypes
<1>4. CASE LoseTemp
  <2>1. Absent \in Holdings
    BY DEF Absent, Holdings
  <2>2. /\ src' = Absent /\ new' = Absent
        /\ UNCHANGED <<proc, env, ctxDone, waiting, pc, file, critical, todo, saving, used, stale,
                       unnamed, dir, path>>
    BY <1>4 DEF LoseTemp
  <2>3. waiting' \in 0 .. MaxWaiting
    BY <2>2 DEF SyncTypes
  <2> QED
    BY <2>1, <2>2, <2>3 DEF SyncTypes
<1>5. CASE Crash
  <2>1. Stops(down) /\ UNCHANGED diskVars
    BY <1>0, <1>5 DEF Crash
  <2> QED
    BY <2>1, StopsTyped
<1>6. CASE CronFires
  <2>1. waiting' \in 0 .. MaxWaiting
    <3>1. waiting \in 0 .. MaxWaiting
      BY DEF SyncTypes
    <3> QED
      BY <1>6, <3>1, WaitingTyped DEF CronFires
  <2> QED
    BY <1>6, <2>1 DEF CronFires, SyncTypes
<1>7. CASE Cancel
  BY <1>7 DEF Cancel, SyncTypes
<1> QED
  BY <1>1, <1>2, <1>3, <1>4, <1>5, <1>6, <1>7

\* The types are kept by the steps of an update.
LEMMA TypesUpdate ==
    ASSUME SyncTypes, Held, Files, UpdateStep
    PROVE  SyncTypes'
<1> USE DEF updateVars, diskVars, loadRest, waitRest
<1>s. {"idle", "made", "load", "wait", "apply", "clean", "cancel", "clear", "set"} = States
  BY DEF States
<1>1. ASSUME NEW t \in Times, NewProcessor(t) PROVE SyncTypes'
  <2>1. waiting' \in 0 .. MaxWaiting
    <3>1. waiting \in 0 .. MaxWaiting /\ waiting > 0 /\ waiting' = waiting - 1
      BY <1>1 DEF NewProcessor, SyncTypes
    <3> QED
      BY <3>1, WaitingTyped
  <2>2. dir' \subseteq FileType
    <3>1. File(t, TRUE, FALSE) \in FileType
      BY FileTyped
    <3> QED
      BY <1>1, <3>1 DEF NewProcessor, SyncTypes
  <2>3. file' \in Times \cup {0} /\ pc' \in States /\ critical' \in BOOLEAN
    BY <1>1, <1>s DEF NewProcessor
  <2> QED
    BY <1>1, <2>1, <2>2, <2>3 DEF NewProcessor, SyncTypes
<1>2. CASE ReturnEarly \/ LoopEnds
  <2>1. pc' \in States /\ (file' = 0 \/ file' = file)
    BY <1>2, <1>s DEF ReturnEarly, LoopEnds
  <2> QED
    BY <1>2, <2>1 DEF ReturnEarly, LoopEnds, SyncTypes
<1>3. CASE RunPanics \/ ResultPanics
  <2>1. PICK how \in Procs : how = "update panic"
    BY DEF Procs
  <2>2. Stops(how) /\ UNCHANGED diskVars
    BY <1>3, <2>1 DEF RunPanics, ResultPanics
  <2> QED
    BY <2>2, StopsTyped
<1>4. CASE Start
  <2>1. pc' \in States /\ Absent \in Holdings /\ stale' \subseteq stale
    BY <1>4, <1>s DEF Start, Absent, Holdings
  <2> QED
    BY <1>4, <2>1 DEF Start, SyncTypes
<1>5. ASSUME NEW i \in Sources, UseFallback(i) PROVE SyncTypes'
  <2>1. used' \in Holdings /\ stale' \subseteq Sources
    BY <1>5 DEF UseFallback, SyncTypes, Holdings
  <2> QED
    BY <1>5, <2>1 DEF UseFallback, SyncTypes
<1>6. ASSUME NEW i \in Sources, SaveBegins(i) \/ SaveEnds(i) PROVE SyncTypes'
  <2>1. new' \in Holdings /\ used' \in Holdings
    BY <1>6 DEF SaveBegins, SaveEnds, SyncTypes, Holdings
  <2> QED
    BY <1>6, <2>1 DEF SaveBegins, SaveEnds, SyncTypes
<1>7. ASSUME NEW i \in Sources, ApplyNew(i) \/ CleanFailed(i) PROVE SyncTypes'
  <2>1. new' \in Holdings /\ src' \in Holdings
    BY <1>7 DEF ApplyNew, CleanFailed, SyncTypes, Holdings
  <2>2. stale' \subseteq Sources
    BY <1>7 DEF ApplyNew, CleanFailed, SyncTypes
  <2> QED
    BY <1>7, <2>1, <2>2 DEF ApplyNew, CleanFailed, SyncTypes
<1>8. CASE AddFails
  BY <1>8 DEF AddFails, SyncTypes
<1>9. ASSUME NEW ok \in BOOLEAN, Compile(ok) PROVE SyncTypes'
  <2>1. critical' \in BOOLEAN
    <3>1. critical \in BOOLEAN
      BY DEF SyncTypes
    <3>2. (critical \/ ~ok) \in BOOLEAN
      OBVIOUS
    <3> QED
      BY <1>9, <3>2 DEF Compile
  <2>2. file \in Times
    BY <1>9 DEF Compile, Held
  <2>3. (~critical') \in BOOLEAN
    OBVIOUS
  <2>4. File(file, TRUE, ~critical') \in FileType
    BY <2>2, <2>3, FileTyped
  <2>5. dir' = (dir \ Named(dir, file, TRUE)) \cup {File(file, TRUE, ~critical')}
    BY <1>9 DEF Compile
  <2>6. dir' \subseteq FileType
    BY <2>4, <2>5 DEF SyncTypes
  <2>7. pc' \in States
    BY <1>9, <1>s DEF Compile
  <2> QED
    BY <1>9, <2>1, <2>6, <2>7 DEF Compile, SyncTypes
<1>10. CASE Publish
  <2>1. \A f \in Named(dir, file, TRUE) : [f EXCEPT !.tmp = FALSE] \in FileType
    BY RenameTyped DEF Named, SyncTypes
  <2>2. dir' \subseteq FileType
    <3>1. {[f EXCEPT !.tmp = FALSE] : f \in Named(dir, file, TRUE)} \subseteq FileType
      BY <2>1
    <3>2. \/ dir' = dir
          \/ dir' = (dir \ (Named(dir, file, TRUE) \cup Named(dir, file, FALSE)))
                       \cup {[f EXCEPT !.tmp = FALSE] : f \in Named(dir, file, TRUE)}
      BY <1>10 DEF Publish
    <3>3. dir \subseteq FileType
      BY DEF SyncTypes
    <3> HIDE DEF Named
    <3> QED
      BY <3>1, <3>2, <3>3
  <2>3. unnamed' \subseteq Times
    BY <1>10 DEF Publish, SyncTypes, Held
  <2>4. pc' \in States
    BY <1>10, <1>s DEF Publish
  <2> QED
    BY <1>10, <2>2, <2>3, <2>4 DEF Publish, SyncTypes
<1>11. CASE Discard \/ Cancelled
  <2>1. dir' \subseteq dir
    BY <1>11 DEF Discard, Cancelled, RemoveTmp
  <2>2. pc' \in States /\ (file' = 0 \/ file' = file)
    BY <1>11, <1>s DEF Discard, Cancelled
  <2> QED
    BY <1>11, <2>1, <2>2 DEF Discard, Cancelled, SyncTypes
<1>12. CASE ClearOld
  <2>1. dir' \subseteq dir
    BY <1>12 DEF ClearOld
  <2> QED
    BY <1>12, <2>1 DEF ClearOld, SyncTypes
<1>13. CASE ClearEnds
  <2>1. pc' \in States
    BY <1>13, <1>s DEF ClearEnds
  <2> QED
    BY <1>13, <2>1 DEF ClearEnds, SyncTypes
<1>14. CASE SetProcessedPath
  <2>1. path' \in Paths
    BY <1>14, PathTyped, LatestTyped DEF SetProcessedPath, SyncTypes
  <2>2. pc' \in States
    BY <1>14, <1>s DEF SetProcessedPath
  <2> QED
    BY <1>14, <2>1, <2>2 DEF SetProcessedPath, SyncTypes
<1> QED
  BY <1>1, <1>2, <1>3, <1>4, <1>5, <1>6, <1>7, <1>8, <1>9, <1>10, <1>11, <1>12, <1>13, <1>14 DEF UpdateStep

-----------------------------------------------------------------------------
(* The process and its lock.                                               *)

\* What the process holds in memory is gone when it stops.
LEMMA HeldInv == SyncTypes /\ Held /\ [Next]_vars => Held'
<1> SUFFICES ASSUME SyncTypes, Held, [Next]_vars PROVE Held'
  OBVIOUS
<1> USE DEF updateVars, diskVars, loadRest, waitRest
<1>1. CASE UNCHANGED vars
  BY <1>1 DEF vars, Held
<1>2. ASSUME NEW e \in Envs, Boot(e) \/ BootPanics(e) PROVE Held'
  BY <1>2 DEF Boot, BootPanics, Held
<1>3. CASE (\E f \in dir : BootCut(f)) \/ LoseTemp \/ CronFires \/ Cancel
  BY <1>3 DEF BootCut, LoseTemp, CronFires, Cancel, Held
<1>4. CASE Crash \/ RunPanics \/ ResultPanics
  BY <1>4 DEF Crash, RunPanics, ResultPanics, Stops, Held
<1>5. CASE (\E t \in Times : NewProcessor(t)) \/ ReturnEarly
  BY <1>5 DEF NewProcessor, ReturnEarly, Held
<1>6. CASE Start
  <2>1. file \in Times
    BY <1>6 DEF Start, SyncTypes
  <2> QED
    BY <1>6, <2>1 DEF Start, Held
<1>7. CASE \E i \in Sources : UseFallback(i) \/ SaveBegins(i) \/ SaveEnds(i) \/ ApplyNew(i) \/ CleanFailed(i)
  BY <1>7 DEF UseFallback, SaveBegins, SaveEnds, ApplyNew, CleanFailed, Held
<1>8. CASE AddFails \/ \E ok \in BOOLEAN : Compile(ok)
  BY <1>8 DEF AddFails, Compile, Held
<1>9. CASE Publish \/ Discard \/ Cancelled
  BY <1>9 DEF Publish, Discard, Cancelled, Held
<1>10. CASE LoopEnds
  BY <1>10 DEF LoopEnds, Held
<1>11. CASE ClearOld \/ ClearEnds \/ SetProcessedPath
  BY <1>11 DEF ClearOld, ClearEnds, SetProcessedPath, Held
<1> QED
  BY <1>1, <1>2, <1>3, <1>4, <1>5, <1>6, <1>7, <1>8, <1>9, <1>10, <1>11 DEF Next, UpdateStep, Envs

\* SyncTypes is kept by every step.
LEMMA TypesInv == SyncTypes /\ Held /\ Files /\ [Next]_vars => SyncTypes'
<1> SUFFICES ASSUME SyncTypes, Held, Files, [Next]_vars PROVE SyncTypes'
  OBVIOUS
<1>1. CASE UNCHANGED vars
  BY <1>1 DEF vars, updateVars, diskVars, SyncTypes
<1> QED
  BY <1>1, TypesDown, TypesUpdate DEF Next, Envs

-----------------------------------------------------------------------------
(* The processed directory.                                                *)

\* Removing files keeps what the others have.
LEMMA FilesShrink ==
    ASSUME Files, dir' \subseteq dir
    PROVE  Files'
<1>1. IsFiniteSet(dir')
  BY FS_Subset DEF Files
<1> QED
  BY <1>1 DEF Files, OneOfName, Playlists

\* Writing a file of a name with .tmp.
LEMMA FilesWrite ==
    ASSUME SyncTypes, Files, NEW t \in Times, NEW b \in BOOLEAN,
           dir' = (dir \ Named(dir, t, TRUE)) \cup {File(t, TRUE, b)}
    PROVE  /\ Files'
           /\ Named(dir', t, TRUE) = {File(t, TRUE, b)}
           /\ Playlists(dir') = Playlists(dir)
           /\ \A u : Named(dir', u, FALSE) = Named(dir, u, FALSE)
<1> DEFINE new_ == File(t, TRUE, b)
<1>1. new_.at = t /\ new_.tmp = TRUE /\ new_.whole = b
  BY FileTyped
<1>2. IsFiniteSet(dir')
  <2>1. IsFiniteSet(dir \ Named(dir, t, TRUE))
    BY FS_Subset DEF Files
  <2> QED
    BY <2>1, FS_AddElement
<1> HIDE DEF new_
<1>3. dir' = (dir \ Named(dir, t, TRUE)) \cup {new_}
  BY DEF new_
<1>4. Playlists(dir') = Playlists(dir)
  BY <1>1, <1>3 DEF Playlists, Named
<1>5. OneOfName(dir')
  BY <1>1, <1>3 DEF OneOfName, Named, Files
<1>6. Named(dir', t, TRUE) = {new_}
  BY <1>1, <1>3 DEF Named
<1>7. \A u : Named(dir', u, FALSE) = Named(dir, u, FALSE)
  BY <1>1, <1>3 DEF Named
<1> QED
  BY <1>2, <1>4, <1>5, <1>6, <1>7 DEF Files, new_

\* The rename of a written file replaces the one of its new name.
LEMMA FilesRename ==
    ASSUME SyncTypes, Files, NEW t \in Times, NEW g \in Named(dir, t, TRUE), g.whole,
           dir' = (dir \ (Named(dir, t, TRUE) \cup Named(dir, t, FALSE)))
                    \cup {[f EXCEPT !.tmp = FALSE] : f \in Named(dir, t, TRUE)}
    PROVE  /\ Files'
           /\ Named(dir', t, FALSE) # {}
           /\ \A u : u # t => Named(dir', u, FALSE) = Named(dir, u, FALSE)
<1> DEFINE h == [g EXCEPT !.tmp = FALSE]
<1>1. g \in FileType /\ g \in dir /\ g.at = t /\ g.tmp = TRUE
  BY DEF Named, SyncTypes
<1>2. h.at = t /\ h.tmp = FALSE /\ h.whole
  BY <1>1, RenameTyped
<1>3. Named(dir, t, TRUE) = {g}
  BY <1>1 DEF Named, Files, OneOfName
<1>4. {[f EXCEPT !.tmp = FALSE] : f \in Named(dir, t, TRUE)} = {h}
  BY <1>3
<1>5. dir' = (dir \ ({g} \cup Named(dir, t, FALSE))) \cup {h}
  BY <1>3, <1>4
<1> HIDE DEF h
<1>6. IsFiniteSet(dir')
  <2>1. IsFiniteSet(dir \ ({g} \cup Named(dir, t, FALSE)))
    BY FS_Subset DEF Files
  <2>2. IsFiniteSet((dir \ ({g} \cup Named(dir, t, FALSE))) \cup {h})
    BY <2>1, FS_AddElement
  <2> QED
    BY <1>5, <2>2
<1>7. OneOfName(dir')
  BY <1>2, <1>5 DEF OneOfName, Named, Files
<1>8. \A f \in Playlists(dir') : f.whole
  BY <1>2, <1>5 DEF Playlists, Files
<1>9. h \in Named(dir', t, FALSE)
  BY <1>2, <1>5 DEF Named
<1>10. \A u : u # t => Named(dir', u, FALSE) = Named(dir, u, FALSE)
  BY <1>1, <1>2, <1>5 DEF Named
<1> QED
  BY <1>6, <1>7, <1>8, <1>9, <1>10 DEF Files

\* ClearOldProcessedM3U takes an old file, never the new one.
LEMMA ClearsOld ==
    ASSUME SyncTypes, Files, ClearOld
    PROVE  /\ dir' \subseteq dir /\ Named(dir', file, FALSE) = Named(dir, file, FALSE)
<1>1. OldFiles \in SUBSET FileType /\ OldFiles # {} /\ OneOfName(OldFiles)
  BY DEF ClearOld, OldFiles, SyncTypes, Files, OneOfName
<1>2. First(OldFiles) \in OldFiles
  BY <1>1, FirstFile
<1>3. dir' = dir \ {First(OldFiles)}
  BY DEF ClearOld
<1> QED
  BY <1>2, <1>3 DEF OldFiles, Named

\* What no step on the processed directory disturbs.
FilesInv == Files /\ Written /\ Renamed /\ Serves

\* Steps that leave the directory alone, and the update in a state without a claim to it.
LEMMA FilesStay ==
    ASSUME FilesInv, dir' = dir, path' = path \/ path'.form # "full", unnamed' = unnamed,
           \/ pc' = pc /\ file' = file /\ (critical' = critical \/ pc # "wait")
           \/ pc' \notin {"wait", "apply", "clear", "set"} /\ pc \notin {"clear", "set"}
    PROVE  FilesInv'
<1>1. Files'
  BY DEF FilesInv, Files
<1>2. Written' /\ Renamed'
  BY DEF FilesInv, Written, Renamed
<1>3. Serves'
  BY DEF FilesInv, Serves, Served
<1> QED
  BY <1>1, <1>2, <1>3 DEF FilesInv

\* The processed directory, and the path into it, are kept by the steps outside an update.
LEMMA FilesDown ==
    ASSUME SyncTypes, Held, FilesInv,
           \/ UNCHANGED vars
           \/ \E e \in Envs : Boot(e) \/ BootPanics(e)
           \/ \E f \in dir : BootCut(f)
           \/ LoseTemp \/ Crash \/ CronFires \/ Cancel
    PROVE  FilesInv'
<1> USE DEF updateVars, diskVars
<1>0. Files /\ NoPath.form # "full"
  BY PathTyped DEF FilesInv
<1>1. CASE UNCHANGED vars \/ (\E e \in Envs : BootPanics(e)) \/ LoseTemp \/ CronFires \/ Cancel
  <2>1. UNCHANGED <<dir, path, unnamed, pc, file, critical>>
    BY <1>1 DEF vars, BootPanics, LoseTemp, CronFires, Cancel
  <2> QED
    BY <2>1, FilesStay
<1>2. ASSUME NEW e \in Envs, Boot(e) PROVE FilesInv'
  <2>1. dir' \subseteq dir /\ pc' = "idle" /\ path'.form # "full"
    BY <1>0, <1>2, LatestTyped DEF Boot, Held
  <2> QED
    BY <1>0, <2>1, FilesShrink DEF FilesInv, Written, Renamed, Serves
<1>3. ASSUME NEW f \in dir, BootCut(f) PROVE FilesInv'
  <2>1. dir' \subseteq dir /\ pc' = "idle" /\ path'.form # "full"
    BY <1>0, <1>3 DEF BootCut, Held
  <2> QED
    BY <1>0, <2>1, FilesShrink DEF FilesInv, Written, Renamed, Serves
<1>4. CASE Crash
  <2>1. dir' = dir /\ pc' = "idle" /\ path'.form # "full"
    BY <1>0, <1>4 DEF Crash, Stops
  <2> QED
    BY <1>0, <2>1 DEF FilesInv, Files, Written, Renamed, Serves
<1> QED
  BY <1>1, <1>2, <1>3, <1>4

\* The steps of an update keep them.
LEMMA FilesUpdate ==
    ASSUME SyncTypes, Held, FilesInv, UpdateStep
    PROVE  FilesInv'
<1> USE DEF updateVars, diskVars, loadRest, waitRest
<1>0. Files /\ Written /\ Renamed /\ Serves /\ NoPath.form # "full"
  BY PathTyped DEF FilesInv
<1>1. CASE AddFails \/ \E i \in Sources : UseFallback(i) \/ SaveBegins(i) \/ SaveEnds(i) \/ ApplyNew(i) \/ CleanFailed(i)
  <2>1. UNCHANGED <<dir, path, unnamed, pc, file>> /\ (critical' = critical \/ pc # "wait")
    BY <1>1 DEF AddFails, UseFallback, SaveBegins, SaveEnds, ApplyNew, CleanFailed
  <2> QED
    BY <2>1, FilesStay
<1>2. CASE ReturnEarly \/ Start
  <2>1. /\ UNCHANGED <<dir, path, unnamed>>
        /\ pc' \notin {"wait", "apply", "clear", "set"} /\ pc \notin {"clear", "set"}
    BY <1>2 DEF ReturnEarly, Start
  <2> QED
    BY <2>1, FilesStay
<1>3. CASE RunPanics \/ ResultPanics
  <2>1. dir' = dir /\ pc' = "idle" /\ path'.form # "full"
    BY <1>0, <1>3 DEF RunPanics, ResultPanics, Stops
  <2> QED
    BY <1>0, <2>1 DEF FilesInv, Files, Written, Renamed, Serves
<1>4. ASSUME NEW t \in Times, NewProcessor(t) PROVE FilesInv'
  <2>1. pc = "idle" /\ pc' = "made" /\ UNCHANGED <<path, unnamed>>
    BY <1>4 DEF NewProcessor
  <2>2. CASE dir' = dir
    BY <2>1, <2>2, FilesStay
  <2>3. CASE dir' = (dir \ Named(dir, t, TRUE)) \cup {File(t, TRUE, FALSE)}
    <3>1. Files' /\ \A u : Named(dir', u, FALSE) = Named(dir, u, FALSE)
      BY <1>0, <2>3, FilesWrite
    <3> QED
      BY <1>0, <2>1, <3>1 DEF FilesInv, Written, Renamed, Serves, Served
  <2> QED
    BY <1>4, <2>2, <2>3 DEF NewProcessor
<1>5. ASSUME NEW ok \in BOOLEAN, Compile(ok) PROVE FilesInv'
  <2>1. /\ pc = "load" /\ pc' = "wait" /\ UNCHANGED <<file, path, unnamed>> /\ file \in Times
        /\ dir' = (dir \ Named(dir, file, TRUE)) \cup {File(file, TRUE, ~critical')}
    BY <1>5 DEF Compile, Held
  <2>2. (~critical') \in BOOLEAN
    OBVIOUS
  <2>3. /\ Files' /\ Named(dir', file, TRUE) = {File(file, TRUE, ~critical')}
        /\ \A u : Named(dir', u, FALSE) = Named(dir, u, FALSE)
    BY <1>0, <2>1, <2>2, FilesWrite
  <2>4. File(file, TRUE, ~critical').whole = ~critical'
    BY <2>1, <2>2, FileTyped
  <2>5. Written'
    BY <2>1, <2>3, <2>4 DEF Written
  <2> QED
    BY <1>0, <2>1, <2>3, <2>5 DEF FilesInv, Renamed, Serves, Served
<1>6. CASE Publish
  <2>1. /\ pc = "wait" /\ ~critical /\ pc' = "apply" /\ UNCHANGED <<file, path>> /\ file \in Times
    BY <1>6 DEF Publish, Held
  <2>2. CASE dir' = dir /\ unnamed' = unnamed \cup {file}
    BY <1>0, <2>1, <2>2 DEF FilesInv, Files, Written, Renamed, Serves, Served
  <2>3. CASE ~(dir' = dir /\ unnamed' = unnamed \cup {file})
    <3>1. /\ dir' = (dir \ (Named(dir, file, TRUE) \cup Named(dir, file, FALSE)))
                       \cup {[f EXCEPT !.tmp = FALSE] : f \in Named(dir, file, TRUE)}
          /\ unnamed' = unnamed \ {file}
      BY <1>6, <2>3 DEF Publish
    <3>2. PICK g \in Named(dir, file, TRUE) : g.whole
      BY <1>0, <2>1 DEF Written
    <3>3. /\ Files' /\ Named(dir', file, FALSE) # {}
          /\ \A u : u # file => Named(dir', u, FALSE) = Named(dir, u, FALSE)
      BY <1>0, <2>1, <3>1, <3>2, FilesRename
    <3>4. Serves'
      <4>1. CASE path.at = file
        BY <2>1, <3>3, <4>1 DEF Serves, Served
      <4>2. CASE path.at # file
        BY <1>0, <2>1, <3>1, <3>3, <4>2 DEF Serves, Served
      <4> QED
        BY <4>1, <4>2
    <3> QED
      BY <2>1, <3>3, <3>4 DEF FilesInv, Written, Renamed
  <2> QED
    BY <2>2, <2>3
<1>7. CASE Discard \/ Cancelled
  <2>1. /\ dir' \subseteq dir /\ \A u : Named(dir', u, FALSE) = Named(dir, u, FALSE)
        /\ pc = "wait" /\ pc' \in {"clean", "cancel"} /\ UNCHANGED <<path, unnamed>>
    BY <1>7 DEF Discard, Cancelled, RemoveTmp, Named
  <2>2. Files'
    BY <1>0, <2>1, FilesShrink
  <2> QED
    BY <1>0, <2>1, <2>2 DEF FilesInv, Written, Renamed, Serves, Served
<1>8. CASE LoopEnds
  <2>1. /\ UNCHANGED <<dir, path, unnamed>> /\ pc \in {"apply", "clean", "cancel"}
        /\ \/ pc = "apply" /\ pc' = "clear" /\ file' = file
           \/ pc = "clean" /\ pc' = "set" /\ file' = file
           \/ pc = "cancel" /\ pc' = "idle"
    BY <1>8 DEF LoopEnds
  <2>2. pc = "clean" => file = 0
    BY DEF Held
  <2> QED
    BY <1>0, <2>1, <2>2 DEF FilesInv, Files, Written, Renamed, Serves, Served
<1>9. CASE ClearOld
  <2>1. /\ dir' \subseteq dir /\ Named(dir', file, FALSE) = Named(dir, file, FALSE)
        /\ pc = "clear" /\ UNCHANGED <<pc, file, path, unnamed>> /\ file # 0
    BY <1>0, <1>9, ClearsOld, TimesAreNat DEF ClearOld, Held
  <2>2. Files'
    BY <1>0, <2>1, FilesShrink
  <2> QED
    BY <1>0, <2>1, <2>2 DEF FilesInv, Written, Renamed, Serves
<1>10. CASE ClearEnds
  BY <1>0, <1>10 DEF ClearEnds, FilesInv, Files, Written, Renamed, Serves, Served
<1>11. CASE SetProcessedPath
  <2>1. /\ pc = "set" /\ pc' = "idle" /\ UNCHANGED <<dir, unnamed>>
        /\ \/ file # 0 /\ path' = Full(file)
           \/ file = 0 /\ path' = LatestPath(dir) /\ ~LatestPanics(dir)
    BY <1>11 DEF SetProcessedPath
  <2>2. Serves'
    <3>1. CASE file # 0 /\ path' = Full(file)
      <4>1. path'.at = file
        BY <3>1, PathTyped DEF SyncTypes
      <4> QED
        BY <1>0, <2>1, <3>1, <4>1 DEF Renamed, Serves, Served
    <3>2. CASE path' = LatestPath(dir) /\ ~LatestPanics(dir)
      BY <1>0, <3>2, LatestTyped DEF Serves
    <3> QED
      BY <2>1, <3>1, <3>2
  <2> QED
    BY <1>0, <2>1, <2>2 DEF FilesInv, Files, Written, Renamed
<1> QED
  BY <1>1, <1>2, <1>3, <1>4, <1>5, <1>6, <1>7, <1>8, <1>9, <1>10, <1>11 DEF UpdateStep

\* A path with its directory is set by an update that succeeded, and by nothing else.
LEMMA OutcomeInv ==
    ASSUME SyncTypes, Held, Files, Outcome, [Next]_vars
    PROVE  Outcome'
<1> USE DEF updateVars, diskVars, loadRest, waitRest
<1>0. NoPath.form # "full" /\ \A t \in Times : Full(t).form = "full"
  BY PathTyped
<1>1. CASE UNCHANGED serving
  BY <1>1 DEF Outcome
<1>2. ASSUME NEW e \in Envs, Boot(e) PROVE Outcome'
  <2>1. outcome' = outcome /\ path.form # "full" /\ path'.form # "full"
    BY <1>0, <1>2, LatestTyped DEF Boot, Held
  <2> QED
    BY <2>1 DEF Outcome
<1>3. CASE Crash \/ RunPanics \/ ResultPanics
  BY <1>0, <1>3 DEF Crash, RunPanics, ResultPanics, Stops, Outcome
<1>4. CASE SetProcessedPath
  <2>1. \/ file \in Times /\ path' = Full(file) /\ outcome' = "published"
        \/ path' = LatestPath(dir) /\ ~LatestPanics(dir) /\ outcome' = "failed"
    BY <1>4 DEF SetProcessedPath, SyncTypes
  <2> QED
    BY <1>0, <2>1, LatestTyped DEF Outcome
<1>5. CASE \/ UNCHANGED vars \/ (\E e \in Envs : BootPanics(e)) \/ (\E f \in dir : BootCut(f))
           \/ LoseTemp \/ CronFires \/ Cancel
  BY <1>1, <1>5 DEF vars, BootPanics, BootCut, LoseTemp, CronFires, Cancel
<1>6. CASE \/ (\E t \in Times : NewProcessor(t)) \/ ReturnEarly \/ Start
           \/ AddFails \/ (\E ok \in BOOLEAN : Compile(ok))
           \/ Publish \/ Discard \/ Cancelled \/ LoopEnds \/ ClearOld \/ ClearEnds
  BY <1>1, <1>6 DEF NewProcessor, ReturnEarly, Start, AddFails, Compile, Publish, Discard, Cancelled,
       LoopEnds, ClearOld, ClearEnds
<1>7. CASE \E i \in Sources : UseFallback(i) \/ SaveBegins(i) \/ SaveEnds(i) \/ ApplyNew(i) \/ CleanFailed(i)
  BY <1>1, <1>7 DEF UseFallback, SaveBegins, SaveEnds, ApplyNew, CleanFailed
<1> QED
  BY <1>2, <1>3, <1>4, <1>5, <1>6, <1>7 DEF Next, UpdateStep, Envs

-----------------------------------------------------------------------------
(* The sources.                                                            *)

\* A source stays where it is when nothing that concerns it changes.
LEMMA MatchedStays ==
    ASSUME NEW i \in Sources, Matched(i), i \in stale => i \in stale',
           src'[i] = src[i], new'[i] = new[i], used'[i] = used[i], pc' = pc, file' = file,
           i \in todo' <=> i \in todo, i \in saving' <=> i \in saving, proc' = proc
    PROVE  Matched(i)'
BY DEF Matched, Built

\* A source is where the update left it, in every step.
LEMMA MatchedInv ==
    ASSUME SyncTypes, Held, \A j \in Sources : Matched(j), [Next]_vars, NEW i \in Sources
    PROVE  Matched(i)'
<1> USE DEF updateVars, diskVars, loadRest, waitRest
<1>0. Matched(i) /\ Held /\ src \in Holdings /\ new \in Holdings /\ used \in Holdings
  BY DEF SyncTypes
<1>1. CASE UNCHANGED vars \/ CronFires \/ Cancel \/ AddFails \/ ClearOld
  BY <1>0, <1>1, MatchedStays DEF vars, CronFires, Cancel, AddFails, ClearOld
<1>2. ASSUME NEW e \in Envs, Boot(e) PROVE Matched(i)'
  <2>1. pc' = "idle" /\ stale' = {j \in Sources : new[j] # NoContent} /\ new' = new
    BY <1>0, <1>2 DEF Boot, Held
  <2> QED
    BY <2>1 DEF Matched
<1>3. CASE (\E e \in Envs : BootPanics(e)) \/ (\E f \in dir : BootCut(f)) \/ LoseTemp
  <2>1. pc' = "idle" /\ proc' # "up"
    BY <1>0, <1>3 DEF BootPanics, BootCut, LoseTemp, Held
  <2> QED
    BY <2>1 DEF Matched
<1>4. CASE Crash \/ RunPanics \/ ResultPanics
  <2>1. pc' = "idle" /\ proc' # "up"
    BY <1>4 DEF Crash, RunPanics, ResultPanics, Stops
  <2> QED
    BY <2>1 DEF Matched
<1>5. CASE (\E t \in Times : NewProcessor(t)) \/ ReturnEarly
  BY <1>0, <1>5 DEF NewProcessor, ReturnEarly, Matched
<1>6. CASE Start
  <2>1. /\ pc = "made" /\ pc' = "load" /\ todo' = Sources /\ UNCHANGED <<proc, saving, new>>
        /\ stale' = {j \in stale : new[j] # NoContent}
    BY <1>6 DEF Start
  <2>2. proc = "up" /\ saving = {}
    BY <2>1 DEF Held
  <2> QED
    BY <1>0, <2>1, <2>2 DEF Matched
<1>7. ASSUME NEW j \in Sources, UseFallback(j) PROVE Matched(i)'
  <2>1. /\ pc = "load" /\ j \in todo /\ todo' = todo \ {j}
        /\ \/ used' = [used EXCEPT ![j] = src[j]] /\ stale' = stale
           \/ used' = used /\ stale' = stale \cup {j}
        /\ UNCHANGED <<proc, pc, file, saving, src, new>>
    BY <1>7 DEF UseFallback
  <2>2. CASE i # j
    <3>1. used'[i] = used[i]
      BY <1>0, <2>1, <2>2 DEF Holdings
    <3> QED
      BY <1>0, <2>1, <2>2, <3>1, MatchedStays
  <2>3. CASE i = j
    <3>1. i \notin stale' => used'[i] = src[i] /\ stale' = stale
      BY <1>0, <2>1, <2>3 DEF Holdings
    <3> QED
      BY <1>0, <2>1, <2>3, <3>1 DEF Matched, Built
  <2> QED
    BY <2>2, <2>3
<1>8. ASSUME NEW j \in Sources, SaveBegins(j) PROVE Matched(i)'
  <2>1. /\ pc = "load" /\ j \in todo /\ todo' = todo \ {j} /\ saving' = saving \cup {j}
        /\ stale' = stale \ {j} /\ UNCHANGED <<proc, pc, file, used, src>>
        /\ \A k \in Sources : k # j => new'[k] = new[k]
    BY <1>0, <1>8 DEF SaveBegins, Holdings
  <2> QED
    BY <1>0, <2>1 DEF Matched, Built
<1>9. ASSUME NEW j \in Sources, SaveEnds(j) PROVE Matched(i)'
  <2>1. /\ pc = "load" /\ j \in saving /\ saving' = saving \ {j}
        /\ UNCHANGED <<proc, pc, file, todo, stale, src>>
        /\ \A k \in Sources : k # j => new'[k] = new[k] /\ used'[k] = used[k]
        /\ new'[j] \in Contents /\ used'[j] = new'[j]
    BY <1>0, <1>9 DEF SaveEnds, Holdings
  <2>2. new'[j] # NoContent
    BY <2>1, ContentsAreFiles
  <2> QED
    BY <1>0, <2>1, <2>2 DEF Matched, Built
<1>10. ASSUME NEW ok \in BOOLEAN, Compile(ok) PROVE Matched(i)'
  BY <1>0, <1>10 DEF Compile, Matched, Built
<1>11. CASE Publish \/ Discard \/ Cancelled
  <2>1. /\ pc = "wait" /\ pc' \in {"apply", "clean", "cancel"} /\ todo' = Sources
        /\ UNCHANGED <<used, stale, src, new>>
    BY <1>11 DEF Publish, Discard, Cancelled
  <2> QED
    BY <1>0, <2>1 DEF Matched, Built
<1>12. ASSUME NEW j \in Sources, ApplyNew(j) PROVE Matched(i)'
  <2>1. /\ pc = "apply" /\ j \in todo /\ todo' = todo \ {j}
        /\ UNCHANGED <<proc, pc, file, used, saving>>
        /\ \/ /\ new[j] # NoContent /\ stale' = stale
              /\ src'[j] = new[j] /\ new'[j] = NoContent
              /\ \A k \in Sources : k # j => src'[k] = src[k] /\ new'[k] = new[k]
           \/ /\ stale' = IF new[j] # NoContent THEN stale \cup {j} ELSE stale
              /\ UNCHANGED <<src, new>>
    BY <1>0, <1>12 DEF ApplyNew, Holdings
  <2> QED
    BY <1>0, <2>1 DEF Matched, Built
<1>13. ASSUME NEW j \in Sources, CleanFailed(j) PROVE Matched(i)'
  <2>1. /\ pc \in {"clean", "cancel"} /\ todo' = todo \ {j} /\ pc' = pc
        /\ (new'[j] = NoContent /\ stale' = stale) \/ stale' = stale \cup {j}
        /\ \A k \in Sources : k # j => new'[k] = new[k]
    BY <1>0, <1>13 DEF CleanFailed, Holdings
  <2> QED
    BY <1>0, <2>1 DEF Matched
<1>14. CASE LoopEnds
  <2>1. /\ todo = {} /\ UNCHANGED <<stale, used, src, new>>
        /\ \/ pc = "apply" /\ pc' = "clear"
           \/ pc = "clean" /\ pc' = "set" /\ file' = file
           \/ pc = "cancel" /\ pc' = "idle"
    BY <1>14 DEF LoopEnds
  <2>2. pc = "clean" => file = 0
    BY DEF Held
  <2> QED
    BY <1>0, <2>1, <2>2 DEF Matched
<1>15. CASE ClearEnds \/ SetProcessedPath
  BY <1>0, <1>15 DEF ClearEnds, SetProcessedPath, Matched
<1> QED
  BY <1>1, <1>2, <1>3, <1>4, <1>5, <1>6, <1>7, <1>8, <1>9, <1>10, <1>11, <1>12, <1>13, <1>14, <1>15
  DEF Next, UpdateStep, Envs

-----------------------------------------------------------------------------
\* SyncInv is an inductive invariant.
THEOREM SyncInvariance == Spec => []SyncInv
<1>1. Init => SyncInv
  <2> SUFFICES ASSUME Init PROVE SyncInv
    OBVIOUS
  <2>1. SyncTypes
    BY PathTyped, WaitingTyped DEF Init, SyncTypes, Procs, Envs, States, Holdings, Absent
  <2>2. Files
    BY FS_EmptySet DEF Init, Files, OneOfName, Playlists
  <2>3. Held /\ Written /\ Renamed /\ Serves /\ Outcome
    BY PathTyped DEF Init, Held, Written, Renamed, Serves, Outcome
  <2>4. \A i \in Sources : Matched(i)
    BY DEF Init, Matched
  <2> QED
    BY <2>1, <2>2, <2>3, <2>4 DEF SyncInv
<1>2. SyncInv /\ [Next]_vars => SyncInv'
  <2> SUFFICES ASSUME SyncInv, [Next]_vars PROVE SyncInv'
    OBVIOUS
  <2>1. SyncTypes' /\ Held'
    BY TypesInv, HeldInv DEF SyncInv
  <2>2. FilesInv'
    BY FilesDown, FilesUpdate DEF SyncInv, FilesInv, Next, Envs
  <2>3. \A i \in Sources : Matched(i)'
    BY MatchedInv DEF SyncInv
  <2>4. Outcome'
    BY OutcomeInv DEF SyncInv
  <2> QED
    BY <2>1, <2>2, <2>3, <2>4 DEF SyncInv, FilesInv
<1> QED
  BY <1>1, <1>2, PTL DEF Spec

\* Types of the state of the updates and of the disk.
THEOREM SyncTypesKept == Spec => []SyncTypeOK
<1>1. SyncInv => SyncTypeOK
  BY DEF SyncInv, Outcome, SyncTypes, SyncTypeOK, Procs, Envs, States, FileType, Paths, Holdings
<1> QED
  BY <1>1, SyncInvariance, PTL

\* A name without .tmp in the processed directory is a whole playlist (compileM3U
\* writes to .tmp, clearOldResults and the rename come after).
THEOREM PublishesWhole == Spec => []PublishedWhole
<1>1. SyncInv => PublishedWhole
  <2> SUFFICES ASSUME SyncInv, NEW f \in Playlists(dir)
               PROVE  f.whole /\ Named(dir, f.at, FALSE) = {f}
    BY DEF PublishedWhole
  <2>1. Files /\ f \in dir /\ f.tmp = FALSE
    BY DEF SyncInv, SyncTypes, FileType, Playlists
  <2> QED
    BY <2>1 DEF Files, OneOfName, Named
<1> QED
  BY <1>1, SyncInvariance, PTL

\* The merged playlist is served from the end of an update that succeeded until the end
\* of the next one that fails (UpdateSources sets what GetResultPath gives).
THEOREM ServedUntilFailure == Spec => []ServedFromSuccess
<1>1. SyncInv => ServedFromSuccess
  BY DEF SyncInv, Outcome, Serves, Served, ServedFromSuccess
<1> QED
  BY <1>1, SyncInvariance, PTL

\* The fallback of a source is what its part of the playlist was built from
\* (applyNewRemoteFiles, cleanFailedRemoteFiles).
THEOREM FallbacksMatch == Spec => []FallbackMatches
<1>1. SyncInv => FallbackMatches
  BY DEF SyncInv, Matched, FallbackMatches
<1> QED
  BY <1>1, SyncInvariance, PTL

\* While the process runs, no step takes the last playlist (clearOldResults spares the
\* new file).
THEOREM KeepsAPlaylist == Spec => PlaylistKept
<1>1. SyncInv /\ [Next]_vars =>
         [proc = "up" /\ file \notin unnamed /\ Playlists(dir) # {} => Playlists(dir') # {}]_vars
  <2> SUFFICES ASSUME SyncInv, Next, proc = "up", file \notin unnamed, Playlists(dir) # {}
               PROVE  Playlists(dir') # {}
    BY DEF vars
  <2> USE DEF updateVars, diskVars, loadRest, waitRest
  <2>0. SyncTypes /\ Held /\ Files /\ Written /\ Renamed
    BY DEF SyncInv
  <2>1. ASSUME dir' = dir PROVE Playlists(dir') # {}
    BY <2>1
  <2>2. ASSUME NEW t, Named(dir', t, FALSE) # {} PROVE Playlists(dir') # {}
    BY <2>2 DEF Named, Playlists
  <2>3. CASE CronFires \/ Cancel \/ Crash
    BY <2>1, <2>3 DEF CronFires, Cancel, Crash
  <2>4. ASSUME NEW t \in Times, NewProcessor(t) PROVE Playlists(dir') # {}
    BY <2>0, <2>1, <2>4, FilesWrite DEF NewProcessor
  <2>5. CASE \/ ReturnEarly \/ RunPanics \/ Start \/ AddFails \/ LoopEnds \/ ClearEnds
             \/ SetProcessedPath \/ ResultPanics
    BY <2>1, <2>5 DEF ReturnEarly, RunPanics, Start, AddFails, LoopEnds, ClearEnds,
                      SetProcessedPath, ResultPanics
  <2>6. CASE \E i \in Sources : UseFallback(i) \/ SaveBegins(i) \/ SaveEnds(i) \/ ApplyNew(i) \/ CleanFailed(i)
    BY <2>1, <2>6 DEF UseFallback, SaveBegins, SaveEnds, ApplyNew, CleanFailed
  <2>7. ASSUME NEW ok \in BOOLEAN, Compile(ok) PROVE Playlists(dir') # {}
    <3>1. /\ file \in Times
          /\ dir' = (dir \ Named(dir, file, TRUE)) \cup {File(file, TRUE, ~critical')}
      BY <2>0, <2>7 DEF Compile, Held
    <3>2. (~critical') \in BOOLEAN
      OBVIOUS
    <3> QED
      BY <2>0, <3>1, <3>2, FilesWrite
  <2>8. CASE Publish
    <3>1. PICK g \in Named(dir, file, TRUE) : g.whole
      BY <2>0, <2>8 DEF Publish, Written
    <3>2. file \in Times
      BY <2>0, <2>8 DEF Publish, Held
    <3>3. \/ dir' = dir
          \/ dir' = (dir \ (Named(dir, file, TRUE) \cup Named(dir, file, FALSE)))
                      \cup {[f EXCEPT !.tmp = FALSE] : f \in Named(dir, file, TRUE)}
      BY <2>8 DEF Publish
    <3> QED
      BY <2>0, <2>1, <2>2, <3>1, <3>2, <3>3, FilesRename
  <2>9. CASE Discard \/ Cancelled
    BY <2>9 DEF Discard, Cancelled, RemoveTmp, Named, Playlists
  <2>10. CASE ClearOld
    <3>1. pc = "clear" /\ file \in Times /\ file # 0
      BY <2>0, <2>10, TimesAreNat DEF ClearOld, Held
    <3>2. Named(dir, file, FALSE) # {}
      BY <2>0, <3>1 DEF Renamed
    <3>3. Named(dir', file, FALSE) # {}
      BY <2>0, <2>10, <3>2, ClearsOld
    <3> QED
      BY <2>2, <3>3
  <2> QED
    BY <2>3, <2>4, <2>5, <2>6, <2>7, <2>8, <2>9, <2>10 DEF Next, UpdateStep, Boot, BootPanics, BootCut, LoseTemp
<1> QED
  BY <1>1, SyncInvariance, PTL DEF Spec, PlaylistKept


-----------------------------------------------------------------------------
(* An update runs down.                                                    *)

Stage == CASE pc = "made" -> 6 [] pc = "load" -> 5 [] pc = "wait" -> 4 [] pc \in {"apply", "clean", "cancel"} -> 3
           [] pc = "clear" -> 2 [] pc = "set" -> 1 [] OTHER -> 0

\* What the update that has the lock has left: stages, sources of the loop it is in,
\* downloads that are being copied, the first stream that cannot be added, and old files.
UpdateLeft == <<Stage, Cardinality(todo), Cardinality(saving), IF critical THEN 0 ELSE 1,
                Cardinality(OldFiles)>>

\* The lexicographic order.
Lower(m, n) == \E k \in 1 .. 5 : m[k] < n[k] /\ \A l \in 1 .. 5 : l < k => m[l] = n[l]

\* WaitingRuns, as far as single steps can show it: every step of the update that has the
\* lock leaves it less to do, whichever way it goes, and nothing else leaves it more.
UpdateWindsDown ==
    [][pc # "idle" =>
          /\ \A k \in 1 .. 5 : UpdateLeft[k] \in Nat
          /\ UpdateStep => Lower(UpdateLeft', UpdateLeft)
          /\ ~UpdateStep => UpdateLeft' = UpdateLeft \/ proc' # "up"]_vars

\* All of it is numbers.
LEMMA UpdateLeftTyped ==
    ASSUME SyncInv
    PROVE  \A k \in 1 .. 5 : UpdateLeft[k] \in Nat
<1>1. Stage \in Nat
  BY DEF Stage
<1>2. IsFiniteSet(todo) /\ IsFiniteSet(saving) /\ IsFiniteSet(OldFiles)
  BY SourcesFinite, FS_Subset DEF SyncInv, SyncTypes, Files, OldFiles
<1>3. Cardinality(todo) \in Nat /\ Cardinality(saving) \in Nat /\ Cardinality(OldFiles) \in Nat
  BY <1>2, FS_CardinalityType
<1> QED
  BY <1>1, <1>3 DEF UpdateLeft

\* What is less in one place, and the same in those before it.
LEMMA LowerAt ==
    ASSUME \/ Stage' < Stage
           \/ /\ Stage' = Stage
              /\ \/ Cardinality(todo') < Cardinality(todo)
                 \/ /\ todo' = todo
                    /\ \/ Cardinality(saving') < Cardinality(saving)
                       \/ /\ saving' = saving
                          /\ \/ ~critical /\ critical'
                             \/ critical' = critical /\ Cardinality(OldFiles') < Cardinality(OldFiles)
    PROVE  Lower(UpdateLeft', UpdateLeft)
<1> DEFINE m == UpdateLeft'
           n == UpdateLeft
<1>1. /\ m[1] = Stage' /\ m[2] = Cardinality(todo') /\ m[3] = Cardinality(saving')
      /\ m[4] = (IF critical' THEN 0 ELSE 1) /\ m[5] = Cardinality(OldFiles')
  BY DEF UpdateLeft
<1>2. /\ n[1] = Stage /\ n[2] = Cardinality(todo) /\ n[3] = Cardinality(saving)
      /\ n[4] = (IF critical THEN 0 ELSE 1) /\ n[5] = Cardinality(OldFiles)
  BY DEF UpdateLeft
<1> HIDE DEF m, n
<1>3. Lower(m, n)
  BY <1>1, <1>2 DEF Lower
<1> QED
  BY <1>3 DEF m, n

\* One element less is one less.
LEMMA OneLess ==
    ASSUME NEW S, IsFiniteSet(S), NEW x \in S
    PROVE  Cardinality(S \ {x}) < Cardinality(S)
<1>1. Cardinality(S \ {x}) = Cardinality(S) - 1 /\ Cardinality(S) \in Nat
  BY FS_RemoveElement, FS_CardinalityType
<1> QED
  BY <1>1

\* What the update does leaves it less to do.
LEMMA UpdateLowers ==
    ASSUME SyncInv, pc # "idle", UpdateStep
    PROVE  Lower(UpdateLeft', UpdateLeft)
<1> USE DEF updateVars, diskVars, loadRest, waitRest
<1>0. /\ SyncTypes /\ Held /\ Files
      /\ IsFiniteSet(todo) /\ IsFiniteSet(saving) /\ IsFiniteSet(OldFiles)
  BY SourcesFinite, FS_Subset DEF SyncInv, SyncTypes, Files, OldFiles
<1>1. CASE \/ ReturnEarly \/ RunPanics \/ Start \/ (\E ok \in BOOLEAN : Compile(ok)) \/ Publish \/ Discard
           \/ Cancelled \/ LoopEnds \/ ClearEnds \/ SetProcessedPath \/ ResultPanics
  <2>1. \/ pc = "made" /\ pc' \in {"idle", "load"}
        \/ pc = "load" /\ pc' = "wait"
        \/ pc = "wait" /\ pc' \in {"apply", "clean", "cancel"}
        \/ pc \in {"apply", "clean", "cancel"} /\ pc' \in {"clear", "set", "idle"}
        \/ pc = "clear" /\ pc' = "set"
        \/ pc = "set" /\ pc' = "idle"
    BY <1>1 DEF ReturnEarly, RunPanics, Start, Compile, Publish, Discard, Cancelled, LoopEnds, ClearEnds,
                SetProcessedPath, ResultPanics, Stops
  <2>2. Stage' < Stage
    BY <2>1 DEF Stage
  <2> QED
    BY <2>2, LowerAt
<1>2. ASSUME NEW i \in Sources, UseFallback(i) \/ SaveBegins(i) \/ ApplyNew(i) \/ CleanFailed(i)
      PROVE  Lower(UpdateLeft', UpdateLeft)
  <2>1. pc' = pc /\ i \in todo /\ todo' = todo \ {i}
    BY <1>2 DEF UseFallback, SaveBegins, ApplyNew, CleanFailed
  <2>2. Stage' = Stage /\ Cardinality(todo') < Cardinality(todo)
    BY <1>0, <2>1, OneLess DEF Stage
  <2> QED
    BY <2>2, LowerAt
<1>3. ASSUME NEW i \in Sources, SaveEnds(i)
      PROVE  Lower(UpdateLeft', UpdateLeft)
  <2>1. pc' = pc /\ todo' = todo /\ i \in saving /\ saving' = saving \ {i}
    BY <1>3 DEF SaveEnds
  <2>2. Stage' = Stage /\ Cardinality(saving') < Cardinality(saving)
    BY <1>0, <2>1, OneLess DEF Stage
  <2> QED
    BY <2>1, <2>2, LowerAt
<1>4. CASE AddFails
  <2>1. pc' = pc /\ todo' = todo /\ saving' = saving /\ ~critical /\ critical'
    BY <1>4 DEF AddFails
  <2> QED
    BY <2>1, LowerAt DEF Stage
<1>5. CASE ClearOld
  <2>1. pc' = pc /\ UNCHANGED <<todo, saving, critical, file>> /\ OldFiles # {}
        /\ dir' = dir \ {First(OldFiles)}
    BY <1>5 DEF ClearOld
  <2>2. First(OldFiles) \in OldFiles
    <3>1. OldFiles \in SUBSET FileType /\ OneOfName(OldFiles)
      BY <1>0 DEF SyncTypes, Files, OneOfName, OldFiles
    <3> QED
      BY <2>1, <3>1, FirstFile
  <2>3. OldFiles' = OldFiles \ {First(OldFiles)}
    BY <2>1, <2>2 DEF OldFiles, Named
  <2>4. Stage' = Stage /\ Cardinality(OldFiles') < Cardinality(OldFiles)
    BY <1>0, <2>1, <2>2, <2>3, OneLess DEF Stage
  <2> QED
    BY <2>1, <2>4, LowerAt
<1> QED
  BY <1>1, <1>2, <1>3, <1>4, <1>5 DEF UpdateStep, NewProcessor

\* The update that has the lock cannot keep it for ever: each of its steps leaves it less
\* to do until it gives the lock back or ends the process, and neither cron nor a
\* cancelled context adds to that (the paths through UpdateSources, Run and Wait).
THEOREM UpdateIsBounded == Spec => UpdateWindsDown
<1>1. SyncInv /\ [Next]_vars =>
        [pc # "idle" =>
          /\ \A k \in 1 .. 5 : UpdateLeft[k] \in Nat
          /\ UpdateStep => Lower(UpdateLeft', UpdateLeft)
          /\ ~UpdateStep => UpdateLeft' = UpdateLeft \/ proc' # "up"]_vars
  <2> SUFFICES ASSUME SyncInv, Next, pc # "idle"
               PROVE  /\ \A k \in 1 .. 5 : UpdateLeft[k] \in Nat
                      /\ UpdateStep => Lower(UpdateLeft', UpdateLeft)
                      /\ ~UpdateStep => UpdateLeft' = UpdateLeft \/ proc' # "up"
    OBVIOUS
  <2>1. proc = "up"
    BY DEF SyncInv, Held
  <2>2. ~UpdateStep => UpdateLeft' = UpdateLeft \/ proc' # "up"
    <3>1. CASE CronFires \/ Cancel
      <4>1. UNCHANGED <<pc, todo, saving, critical, dir, file>>
        BY <3>1 DEF CronFires, Cancel, updateVars, diskVars
      <4>2. Stage' = Stage /\ OldFiles' = OldFiles
        BY <4>1 DEF Stage, OldFiles, Named
      <4> QED
        BY <4>1, <4>2 DEF UpdateLeft
    <3>2. CASE Crash
      BY <3>2 DEF Crash, Stops
    <3> QED
      BY <2>1, <3>1, <3>2 DEF Next, Boot, BootPanics, BootCut, LoseTemp
  <2> QED
    BY <2>2, UpdateLeftTyped, UpdateLowers
<1> QED
  BY <1>1, SyncInvariance, PTL DEF Spec, UpdateWindsDown

=============================================================================
