----------------------------- MODULE SourceSync -----------------------------
(***************************************************************************)
(* The background update of the merged playlist and the files it leaves:   *)
(* Updater (updater/updater.go), M3UProcessor (sourceproc/processor.go),   *)
(* the downloader (sourceproc/downloader.go), the processed directory      *)
(* (config/config.go) and the path M3UHTTPHandler serves.  The process may *)
(* stop between any two steps on files and is then started again.          *)
(*                                                                         *)
(* What the playlist holds is abstracted to whether it is whole; what a    *)
(* source holds, to a member of Contents (a truncated download is one).    *)
(***************************************************************************)
EXTENDS Integers, FiniteSets

CONSTANTS Sources,    \* the M3U indexes with a remote URL
          Contents,   \* what a download may hold
          Times,      \* the file names GetNewM3UPath may give
          MaxWaiting  \* bound: updates that wait for the lock

(* One M3U_URL_<index> variable each.                                     *)
ASSUME SourcesFinite == IsFiniteSet(Sources)
ASSUME TimesAreNat == Times \subseteq Nat \ {0}
ASSUME WaitingBound == MaxWaiting \in Nat \ {0}

VARIABLES proc,      \* "up", "down", or which panic ended the process
          env,       \* CLEAR_ON_BOOT, SYNC_ON_BOOT and whether BASE_URL is set
          ctxDone,
          waiting,   \* UpdateSources goroutines that wait for the lock
          pc,        \* where the one that holds the lock is; "idle" if none does
          file,      \* p.file, by its name; 0 is nil
          critical,  \* criticalErrorOccurred
          unnamed,   \* the names that the rename of a playlist failed to give
          todo,      \* sources not yet treated by the loop pc is in
          saving,    \* sources whose download is being copied to disk
          used,      \* what each source contributed to this update
          stale,     \* sources with a .new file of an earlier update, or a fallback
                     \* file that could not be opened
          dir,       \* the processed directory
          src, new,  \* <index>.m3u and <index>.m3u.new of each source
          path,      \* processedPath
          outcome    \* history: how the update that set path ended; "none" since the boot

serving == <<path, outcome>>
updateVars == <<pc, file, critical, todo, saving, used, stale>>
diskVars == <<dir, src, new>>
vars == <<proc, env, ctxDone, waiting, updateVars, unnamed, diskVars, serving>>

NoContent == "no file"
(* What a download holds, be it nothing, is not the absence of its file.   *)
ASSUME ContentsAreFiles == NoContent \notin Contents
Absent == [i \in Sources |-> NoContent]
NoPath == [form |-> "empty", at |-> 0]
Full(t) == [form |-> "full", at |-> t]
Bare(t) == [form |-> "bare", at |-> t]

File(t, tmp, whole) == [at |-> t, tmp |-> tmp, whole |-> whole]
Playlists(d) == {f \in d : ~f.tmp}
Tmps(d) == {f \in d : f.tmp}
Named(d, t, tmp) == {f \in d : f.at = t /\ f.tmp = tmp}

(* os.ReadDir sorts by name, and 1.m3u comes before 1.m3u.tmp.             *)
Before(f, g) == f.at < g.at \/ (f.at = g.at /\ ~f.tmp /\ g.tmp)
First(d) == CHOOSE f \in d : \A g \in d \ {f} : Before(f, g)
Last(d) == CHOOSE f \in d : \A g \in d \ {f} : Before(g, f)

(* GetLatestProcessedM3UPath indexes the files without .tmp by the number  *)
(* of all files, and gives the name without its directory.                 *)
LatestPanics(d) == Tmps(d) # {}
LatestPath(d) == IF d = {} THEN NoPath ELSE Bare(Last(Playlists(d)).at)

(* http.ServeFile finds the file a path with its directory names; a bare   *)
(* name is looked up in the working directory, where there is none.        *)
Served(p) == IF p.form = "full" THEN Named(dir, p.at, FALSE) ELSE {}

Init ==
    /\ proc = "down" /\ ctxDone = FALSE /\ waiting = 0
    /\ env = [clear |-> FALSE, sync |-> FALSE, base |-> FALSE]
    /\ pc = "idle" /\ file = 0 /\ critical = FALSE /\ unnamed = {}
    /\ todo = {} /\ saving = {} /\ used = Absent /\ stale = {}
    /\ dir = {} /\ src = Absent /\ new = Absent
    /\ path = NoPath /\ outcome = "none"

-----------------------------------------------------------------------------
(* The process.                                                            *)

(* What a process holds in memory is gone.                                 *)
Stops(how) ==
    /\ proc' = how
    /\ ctxDone' = FALSE /\ waiting' = 0 /\ path' = NoPath /\ outcome' = "none"
    /\ pc' = "idle" /\ file' = 0 /\ critical' = FALSE
    /\ todo' = {} /\ saving' = {} /\ used' = Absent /\ stale' = {} /\ unnamed' = {}
    /\ UNCHANGED env

Crash == proc = "up" /\ Stops("down") /\ UNCHANGED diskVars

(* main and Initialize; the first update is started by SYNC_ON_BOOT.       *)
Boot(e) ==
    /\ proc # "up"
    /\ e.clear \/ ~LatestPanics(dir)
    /\ proc' = "up" /\ env' = e
    /\ dir' = IF e.clear THEN {} ELSE dir
    /\ path' = IF e.clear THEN NoPath ELSE LatestPath(dir)
    /\ waiting' = IF e.sync THEN 1 ELSE 0
    /\ stale' = {i \in Sources : new[i] # NoContent}
    /\ UNCHANGED <<ctxDone, pc, file, critical, todo, saving, used, unnamed, src, new,
                   outcome>>

BootPanics(e) ==
    /\ proc # "up" /\ ~e.clear /\ LatestPanics(dir)
    /\ proc' = "boot panic" /\ env' = e
    /\ UNCHANGED <<ctxDone, waiting, updateVars, unnamed, diskVars, serving>>

(* ClearProcessedM3Us stopped half way.                                    *)
BootCut(f) ==
    /\ proc # "up" /\ f \in dir
    /\ dir' = dir \ {f}
    /\ UNCHANGED <<proc, env, ctxDone, waiting, updateVars, unnamed, src, new, serving>>

(* A new container keeps at most the data directory; the sources are in    *)
(* the temporary one.                                                      *)
LoseTemp ==
    /\ proc # "up"
    /\ src' = Absent /\ new' = Absent
    /\ UNCHANGED <<proc, env, ctxDone, waiting, updateVars, unnamed, dir, serving>>

(* The function given to cron.                                             *)
CronFires ==
    /\ proc = "up" /\ waiting < MaxWaiting
    /\ waiting' = waiting + 1
    /\ UNCHANGED <<proc, env, ctxDone, updateVars, unnamed, diskVars, serving>>

Cancel ==
    /\ proc = "up" /\ ~ctxDone
    /\ ctxDone' = TRUE
    /\ UNCHANGED <<proc, env, waiting, updateVars, unnamed, diskVars, serving>>

-----------------------------------------------------------------------------
(* UpdateSources up to Run.                                                *)

(* The lock is taken and NewProcessor creates its file, or cannot.         *)
NewProcessor(t) ==
    /\ proc = "up" /\ pc = "idle" /\ waiting > 0
    /\ waiting' = waiting - 1 /\ pc' = "made" /\ critical' = FALSE
    /\ \/ /\ file' = t
          /\ dir' = (dir \ Named(dir, t, TRUE)) \cup {File(t, TRUE, FALSE)}
       \/ file' = 0 /\ UNCHANGED dir
    /\ UNCHANGED <<proc, env, ctxDone, todo, saving, used, stale, unnamed, src, new, serving>>

(* The early returns; the file stays.                                      *)
ReturnEarly ==
    /\ pc = "made" /\ (ctxDone \/ ~env.base)
    /\ pc' = "idle" /\ file' = 0
    /\ UNCHANGED <<proc, env, ctxDone, waiting, critical, todo, saving, used, stale,
                   unnamed, diskVars, serving>>

(* Run on the nil that NewProcessor gave.                                  *)
RunPanics ==
    /\ pc = "made" /\ env.base /\ ~ctxDone /\ file = 0
    /\ Stops("update panic") /\ UNCHANGED diskVars

Start ==
    /\ pc = "made" /\ env.base /\ ~ctxDone /\ file # 0
    /\ pc' = "load" /\ todo' = Sources /\ used' = Absent
    /\ stale' = {i \in stale : new[i] # NoContent}
    /\ UNCHANGED <<proc, env, ctxDone, waiting, file, critical, saving, unnamed,
                   diskVars, serving>>

-----------------------------------------------------------------------------
(* processStreams: the sources are loaded concurrently, then compiled.     *)

loadRest == <<proc, env, ctxDone, waiting, pc, file, unnamed, dir, serving>>

(* No answer, a bad status, no #EXTM3U, or no file to save it: the file of *)
(* an earlier update is read, if there is one and it could be opened.      *)
UseFallback(i) ==
    /\ pc = "load" /\ i \in todo
    /\ todo' = todo \ {i}
    /\ \/ used' = [used EXCEPT ![i] = src[i]] /\ UNCHANGED stale
       \/ src[i] # NoContent /\ stale' = stale \cup {i} /\ UNCHANGED used
    /\ UNCHANGED <<loadRest, critical, saving, src, new>>

SaveBegins(i) ==
    /\ pc = "load" /\ i \in todo
    /\ todo' = todo \ {i} /\ saving' = saving \cup {i}
    /\ stale' = stale \ {i}
    /\ \E c \in Contents : new' = [new EXCEPT ![i] = c]
    /\ UNCHANGED <<loadRest, critical, used, src>>

(* A read error ends the download as its end does: it is only logged.      *)
SaveEnds(i) ==
    /\ pc = "load" /\ i \in saving
    /\ saving' = saving \ {i}
    /\ \E c \in Contents : /\ new' = [new EXCEPT ![i] = c]
                           /\ used' = [used EXCEPT ![i] = c]
    /\ UNCHANGED <<loadRest, critical, todo, stale, src>>

(* addStream fails for a stream of a source that has been opened.          *)
AddFails ==
    /\ pc = "load" /\ todo # Sources /\ ~critical
    /\ critical' = TRUE
    /\ UNCHANGED <<loadRest, todo, saving, used, stale, src, new>>

(* compileM3U: what it writes lacks the streams that were not added.  A    *)
(* shard that cannot be flushed is only logged: "whole" is all that        *)
(* GetSortedEntries handed over (StreamCatalog has what that lacks).       *)
Compile(ok) ==
    /\ pc = "load" /\ todo = {} /\ saving = {}
    /\ critical' = (critical \/ ~ok)
    /\ dir' = (dir \ Named(dir, file, TRUE)) \cup {File(file, TRUE, ~critical')}
    /\ pc' = "wait"
    /\ UNCHANGED <<proc, env, ctxDone, waiting, file, todo, saving, used, stale,
                   unnamed, src, new, serving>>

-----------------------------------------------------------------------------
(* Wait, and what UpdateSources does with its result.                      *)

waitRest == <<proc, env, ctxDone, waiting, critical, saving, used>>

(* Mutant: criticalErrorOccurred is not looked at.                         *)
PublishAnyway ==
    /\ pc = "wait"
    /\ pc' = "apply" /\ todo' = Sources
    /\ dir' = (dir \ (Named(dir, file, TRUE) \cup Named(dir, file, FALSE)))
                 \cup {[f EXCEPT !.tmp = FALSE] : f \in Named(dir, file, TRUE)}
    /\ unnamed' = unnamed \ {file}
    /\ UNCHANGED <<waitRest, stale, file, src, new, serving>>

(* No critical error: the playlist gets its name, unless the rename fails. *)
Publish ==
    /\ pc = "wait" /\ ~critical
    /\ pc' = "apply" /\ todo' = Sources
    /\ \/ /\ dir' = (dir \ (Named(dir, file, TRUE) \cup Named(dir, file, FALSE)))
                       \cup {[f EXCEPT !.tmp = FALSE] : f \in Named(dir, file, TRUE)}
          /\ unnamed' = unnamed \ {file}
       \/ UNCHANGED dir /\ unnamed' = unnamed \cup {file}
    /\ UNCHANGED <<waitRest, stale, file, src, new, serving>>

(* os.Remove, whose error is ignored.                                      *)
RemoveTmp == dir' = dir \ Named(dir, file, TRUE) \/ UNCHANGED dir

Discard ==
    /\ pc = "wait" /\ critical
    /\ RemoveTmp
    /\ pc' = "clean" /\ todo' = Sources /\ file' = 0
    /\ UNCHANGED <<waitRest, stale, unnamed, src, new, serving>>

(* The select took ctx.Done: Wait returns an error, and the path stays.    *)
Cancelled ==
    /\ pc = "wait" /\ ctxDone
    /\ RemoveTmp
    /\ pc' = "cancel" /\ todo' = Sources
    /\ UNCHANGED <<waitRest, stale, unnamed, file, src, new, serving>>

(* One round of applyNewRemoteFiles.                                       *)
ApplyNew(i) ==
    /\ pc = "apply" /\ i \in todo
    /\ todo' = todo \ {i}
    /\ \/ /\ new[i] # NoContent
          /\ src' = [src EXCEPT ![i] = new[i]] /\ new' = [new EXCEPT ![i] = NoContent]
          /\ UNCHANGED stale
       \/ /\ stale' = IF new[i] # NoContent THEN stale \cup {i} ELSE stale
          /\ UNCHANGED <<src, new>>
    /\ UNCHANGED <<waitRest, pc, file, unnamed, dir, serving>>

(* Mutant: the .new files of a failed update stay.                         *)
CleanNothing(i) ==
    /\ pc \in {"clean", "cancel"} /\ i \in todo
    /\ todo' = todo \ {i}
    /\ UNCHANGED <<waitRest, stale, pc, file, unnamed, dir, src, new, serving>>

(* One round of cleanFailedRemoteFiles; an error of os.RemoveAll is ignored. *)
CleanFailed(i) ==
    /\ pc \in {"clean", "cancel"} /\ i \in todo
    /\ todo' = todo \ {i}
    /\ \/ new' = [new EXCEPT ![i] = NoContent] /\ UNCHANGED stale
       \/ new[i] # NoContent /\ stale' = stale \cup {i} /\ UNCHANGED new
    /\ UNCHANGED <<waitRest, pc, file, unnamed, dir, src, serving>>

(* Mutant: a cancelled update never returns.                               *)
LoopEndsUnlessCancelled ==
    /\ pc \in {"apply", "clean"} /\ todo = {}
    /\ pc' = IF pc = "apply" THEN "clear" ELSE "set"
    /\ UNCHANGED <<waitRest, stale, file, todo, unnamed, diskVars, serving>>

LoopEnds ==
    /\ pc \in {"apply", "clean", "cancel"} /\ todo = {}
    /\ pc' = CASE pc = "apply" -> "clear" [] pc = "clean" -> "set" [] OTHER -> "idle"
    /\ file' = IF pc = "cancel" THEN 0 ELSE file
    /\ UNCHANGED <<waitRest, stale, todo, unnamed, diskVars, serving>>

(* Mutant: the name is compared before .tmp is trimmed off it.             *)
OldFilesUntrimmed == dir \ Named(dir, file, TRUE)

(* One round of ClearOldProcessedM3U.                                      *)
OldFiles == dir \ Named(dir, file, FALSE)

ClearOld ==
    /\ pc = "clear" /\ OldFiles # {}
    /\ dir' = dir \ {First(OldFiles)}
    /\ UNCHANGED <<waitRest, stale, pc, file, todo, unnamed, src, new, serving>>

(* All are gone, or one could not be removed.                              *)
ClearEnds ==
    /\ pc = "clear"
    /\ pc' = "set"
    /\ UNCHANGED <<waitRest, stale, file, todo, unnamed, diskVars, serving>>

(* Mutant: the path is set once and kept.                                  *)
SetPathOnce ==
    /\ pc = "set" /\ (file # 0 \/ ~LatestPanics(dir))
    /\ path' = IF path.form = "full" THEN path
               ELSE IF file # 0 THEN Full(file) ELSE LatestPath(dir)
    /\ outcome' = IF file # 0 THEN "published" ELSE "failed"
    /\ pc' = "idle" /\ file' = 0
    /\ UNCHANGED <<waitRest, stale, todo, unnamed, diskVars>>

(* GetResultPath and SetProcessedPath; the lock is released.               *)
SetProcessedPath ==
    /\ pc = "set" /\ (file # 0 \/ ~LatestPanics(dir))
    /\ path' = IF file # 0 THEN Full(file) ELSE LatestPath(dir)
    /\ outcome' = IF file # 0 THEN "published" ELSE "failed"
    /\ pc' = "idle" /\ file' = 0
    /\ UNCHANGED <<waitRest, stale, todo, unnamed, diskVars>>

ResultPanics ==
    /\ pc = "set" /\ file = 0 /\ LatestPanics(dir)
    /\ Stops("update panic") /\ UNCHANGED diskVars

-----------------------------------------------------------------------------
UpdateStep ==
    \/ \E t \in Times : NewProcessor(t)
    \/ ReturnEarly \/ RunPanics \/ Start
    \/ \E i \in Sources : \/ UseFallback(i) \/ SaveBegins(i) \/ SaveEnds(i)
                          \/ ApplyNew(i) \/ CleanFailed(i)
    \/ AddFails \/ \E ok \in BOOLEAN : Compile(ok)
    \/ Publish \/ Discard \/ Cancelled
    \/ LoopEnds \/ ClearOld \/ ClearEnds
    \/ SetProcessedPath \/ ResultPanics

Next ==
    \/ \E e \in [clear : BOOLEAN, sync : BOOLEAN, base : BOOLEAN] : Boot(e) \/ BootPanics(e)
    \/ \E f \in dir : BootCut(f)
    \/ LoseTemp \/ Crash \/ CronFires \/ Cancel
    \/ UpdateStep

(* Goroutines that can run do, and every download ends.                    *)
Spec == Init /\ [][Next]_vars /\ WF_vars(UpdateStep)

-----------------------------------------------------------------------------
(* Every variable keeps its type.                                          *)
SyncTypeOK ==
    /\ proc \in {"up", "down", "boot panic", "update panic"}
    /\ env \in [clear : BOOLEAN, sync : BOOLEAN, base : BOOLEAN]
    /\ ctxDone \in BOOLEAN /\ waiting \in 0 .. MaxWaiting
    /\ pc \in {"idle", "made", "load", "wait", "apply", "clean", "cancel", "clear", "set"}
    /\ file \in Times \cup {0} /\ critical \in BOOLEAN /\ unnamed \subseteq Times
    /\ todo \subseteq Sources /\ saving \subseteq Sources /\ stale \subseteq Sources
    /\ used \in [Sources -> Contents \cup {NoContent}]
    /\ dir \subseteq [at : Times, tmp : BOOLEAN, whole : BOOLEAN]
    /\ src \in [Sources -> Contents \cup {NoContent}]
    /\ new \in [Sources -> Contents \cup {NoContent}]
    /\ path \in [form : {"empty", "full", "bare"}, at : Times \cup {0}]
    /\ outcome \in {"none", "published", "failed"}

(* A file without .tmp in the processed directory is a whole playlist, and *)
(* the only one of its name, wherever updates failed, were cancelled or    *)
(* were cut off by the end of the process.                                 *)
PublishedWhole ==
    \A f \in Playlists(dir) : f.whole /\ Named(dir, f.at, FALSE) = {f}

(* While the process runs, no step takes the last playlist from the disk:  *)
(* clearOldResults comes after the rename and spares the new file.  Only   *)
(* a rename that failed, whose error Wait does not heed, can lose it.      *)
PlaylistKept ==
    [][proc = "up" /\ file \notin unnamed /\ Playlists(dir) # {} => Playlists(dir') # {}]_vars

(* The merged playlist is served from the end of an update that succeeded  *)
(* until the end of the next one that fails, whatever is on the disk: a    *)
(* failed update keeps the old file and sets its bare name, which names    *)
(* nothing, as does the name set at boot; a cancelled one leaves the path. *)
(* Not served either: between the removal of the old files by an update    *)
(* that succeeds and its SetProcessedPath (clearOldResults runs in Wait,   *)
(* before the path is changed), and after a failed rename.                 *)
ServedFromSuccess ==
    /\ outcome = "published" =>
          Served(path) # {} \/ (pc \in {"clear", "set"} /\ file # 0) \/ path.at \in unnamed
    /\ outcome # "published" => Served(path) = {}

(* After an update the file kept for a source is the one its part of the   *)
(* playlist was built from, also when updates before it failed.  Not so if *)
(* an earlier process left a .new file, which applyNewRemoteFiles takes    *)
(* for this update's, if the rename or the removal of one failed, or if    *)
(* the file kept could not be opened.                                      *)
FallbackMatches ==
    pc \in {"clear", "set"} /\ file # 0 =>
        \A i \in Sources \ stale : src[i] = used[i]

(* An update that waits for the lock gets it: every path through           *)
(* UpdateSources releases it.                                              *)
WaitingRuns == (proc = "up" /\ waiting > 0) ~> (pc = "made" \/ proc # "up")

(* GetLatestProcessedM3UPath skips .tmp files ("strings.HasSuffix(...,     *)
(* ".tmp")", then continue): they must not keep the process from starting. *)
BootSurvives == proc # "boot panic"

=============================================================================
