---------------------------- MODULE CohortRebuild ----------------------------
(***************************************************************************)
(* The AS-norm cohort: the matrix of impostor embeddings that normalises   *)
(* voiceprint scores.  It is built from the embeddings stored with the     *)
(* transcriptions, kept in memory as the scorer, and saved to              *)
(* asnorm_cohort.npy for the next start.                                   *)
(*                                                                         *)
(* Two threads build it: the cohort-rebuild daemon, which wakes up to see  *)
(* whether somebody enrolled since the last build, and the event loop,     *)
(* for POST /api/voiceprints/rebuild-cohort and once before it serves.     *)
(* The event loop also runs the enrollments, so an enrollment interleaves  *)
(* with the daemon's build and never with the loop's own.                  *)
(*                                                                         *)
(* A transcription stands for the one embedding stored with it, and a      *)
(* cohort is the set of those embeddings.  Time is reduced to what the     *)
(* debounce asks: whether the last enrollment is old enough.               *)
(*                                                                         *)
(* An operator placed before the one it resembles (TryLockUnheeded,        *)
(* KeepsNothing, MarkCleanNow...) is that operator with a plausible bug in *)
(* it, which the invariants are tried against.  No action uses it.         *)
(***************************************************************************)
EXTENDS Integers, FiniteSets

CONSTANTS Emb,           \* embeddings the transcriptions can store
          MinCohort,     \* ASNORM_MIN_COHORT_SIZE
          MaxEnrolls,    \* bound: enrollments in one process
          MaxCleanUps,   \* bound: transcriptions removed by an operator
          MaxCrashes,    \* bound: times the process may die
          MaxFaults      \* bound: scans and saves that meet an I/O error

ASSUME EmbAssumption   == IsFiniteSet(Emb)
ASSUME MinAssumption   == MinCohort \in Nat \ {0}
ASSUME LimitAssumption ==
  MaxEnrolls \in Nat /\ MaxCleanUps \in Nat /\ MaxCrashes \in Nat /\ MaxFaults \in Nat

Builder == {"daemon", "loop"}
NoOne   == "no_one"

VARIABLES
  phase,      \* the process: down, starting, serving
  written,    \* embeddings ever stored with a transcription
  deleted,    \* those whose transcription was removed since
  gen,        \* _cohort_generation
  built,      \* _cohort_built_gen
  settled,    \* _cohort_last_enroll is at least debounce_s ago
  enrolling,  \* the loop is between the two statements of _mark_enrolled
  lock,       \* the holder of _cohort_rebuild_lock
  build,      \* each builder: its program point, target_gen, files listed, embeddings read
  scorer,     \* the cohort of _asnorm, empty for None
  file,       \* asnorm_cohort.npy
  enrolled,   \* history: embeddings enrolled by this process
  earlier,    \* history: embeddings enrolled by earlier processes
  reflected,  \* history: embeddings a build that marked its generation clean has listed
  crashes, faults

disk    == <<written, deleted, file>>
dirt    == <<gen, built>>
clock   == <<settled, enrolling>>
history == <<enrolled, earlier, reflected>>
budget  == <<crashes, faults>>
vars    == <<phase, disk, dirt, clock, lock, build, scorer, history, budget>>

Stored == written \ deleted
NoFile == [kind |-> "absent", embs |-> {}]
Torn   == [kind |-> "torn", embs |-> {}]

Idle == [pc |-> "idle", target |-> 0, seen |-> {}, got |-> {}]

Holding == {"read", "decide", "saving", "install"}
BuildPC == {"idle", "debounce", "target", "lock"} \cup Holding

At(b, pc) == build[b].pc = pc
Goto(b, pc) == build' = [build EXCEPT ![b].pc = pc]
LoopIsFree == phase = "serving" /\ At("loop", "idle") /\ ~ enrolling

-----------------------------------------------------------------------------
Init ==
  /\ phase = "down"
  /\ written = {} /\ deleted = {} /\ file = NoFile
  /\ gen = 0 /\ built = -1
  /\ settled = TRUE /\ enrolling = FALSE
  /\ lock = NoOne
  /\ build = [b \in Builder |-> Idle]
  /\ scorer = {}
  /\ enrolled = {} /\ earlier = {} /\ reflected = {}
  /\ crashes = 0 /\ faults = 0

(* lifespan with a cohort file: load_cohort, which leaves the generation   *)
(* dirty when the file cannot be read.                                     *)
StartWithFile ==
  /\ phase = "down" /\ file.kind # "absent"
  /\ phase' = "serving"
  /\ scorer' = file.embs
  /\ built' = IF file.kind = "saved" THEN gen ELSE built
  /\ UNCHANGED <<disk, gen, clock, lock, build, history, budget>>

(* lifespan without one: the loop builds it before it serves.              *)
StartWithoutFile ==
  /\ phase = "down" /\ file.kind = "absent"
  /\ phase' = "starting"
  /\ Goto("loop", "target")
  /\ UNCHANGED <<disk, dirt, clock, lock, scorer, history, budget>>

(* A worker thread stores a transcription with its embedding.              *)
Persist(e) ==
  /\ phase = "serving"
  /\ e \notin written
  /\ written' = written \cup {e}
  /\ UNCHANGED <<phase, deleted, file, dirt, clock, lock, build, scorer, history, budget>>

(* "Transcription cleanup": an operator removes a transcription.           *)
CleanUp(e) ==
  /\ e \in Stored
  /\ Cardinality(deleted) < MaxCleanUps
  /\ deleted' = deleted \cup {e}
  /\ UNCHANGED <<phase, written, file, dirt, clock, lock, build, scorer, history, budget>>

(* POST /api/voiceprints/enroll: the generation is counted, then stamped.  *)
EnrollCount(e) ==
  /\ LoopIsFree
  /\ e \in Stored
  /\ gen < MaxEnrolls
  /\ gen' = gen + 1
  /\ enrolling' = TRUE
  /\ enrolled' = enrolled \cup {e}
  /\ UNCHANGED <<phase, disk, built, settled, lock, build, scorer, earlier, reflected, budget>>

EnrollStamp ==
  /\ enrolling
  /\ enrolling' = FALSE
  /\ settled' = FALSE
  /\ UNCHANGED <<phase, disk, dirt, lock, build, scorer, history, budget>>

(* debounce_s have passed.                                                 *)
Settle ==
  /\ phase = "serving" /\ ~ settled
  /\ settled' = TRUE
  /\ UNCHANGED <<phase, disk, dirt, enrolling, lock, build, scorer, history, budget>>

-----------------------------------------------------------------------------
(* maybe_rebuild, and the endpoint that bypasses its two checks.           *)

DaemonWakes ==
  /\ phase = "serving" /\ At("daemon", "idle")
  /\ gen # built
  /\ Goto("daemon", "debounce")
  /\ UNCHANGED <<phase, disk, dirt, clock, lock, scorer, history, budget>>

DaemonDebounces ==
  /\ At("daemon", "debounce")
  /\ Goto("daemon", IF settled THEN "target" ELSE "idle")
  /\ UNCHANGED <<phase, disk, dirt, clock, lock, scorer, history, budget>>

RequestRebuild ==
  /\ LoopIsFree
  /\ Goto("loop", "target")
  /\ UNCHANGED <<phase, disk, dirt, clock, lock, scorer, history, budget>>

(* build_from_transcriptions.                                              *)

ReadTarget(b) ==
  /\ At(b, "target")
  /\ build' = [build EXCEPT ![b].pc = "lock", ![b].target = gen]
  /\ UNCHANGED <<phase, disk, dirt, clock, lock, scorer, history, budget>>

(* The build is over; the loop's first one lets the service start.         *)
EndBuild(b) ==
  /\ build' = [build EXCEPT ![b] = Idle]
  /\ phase' = IF phase = "starting" THEN "serving" ELSE phase

(* The finally clause.                                                     *)
Unlock(b) == lock' = NoOne /\ EndBuild(b)

ListFiles(b) ==
  build' = [build EXCEPT ![b].pc = "read", ![b].seen = Stored]

TryLockUnheeded(b) ==
  /\ At(b, "lock")
  /\ lock' = b
  /\ ListFiles(b)
  /\ UNCHANGED <<phase, disk, dirt, clock, scorer, history, budget>>

(* The lock is free: take it and list the result files.                    *)
TryLock(b) ==
  /\ At(b, "lock") /\ lock = NoOne
  /\ lock' = b
  /\ ListFiles(b)
  /\ UNCHANGED <<phase, disk, dirt, clock, scorer, history, budget>>

(* "rebuild already in progress, skipping".                                *)
SkipBuild(b) ==
  /\ At(b, "lock") /\ lock # NoOne
  /\ EndBuild(b)
  /\ UNCHANGED <<disk, dirt, clock, lock, scorer, history, budget>>

(* The listed files are read one by one: some are gone by then, some       *)
(* cannot be read, and a transcription listed before its embedding was     *)
(* written may have it now.                                                *)
ReadFiles(b) ==
  /\ At(b, "read")
  /\ \E unread \in SUBSET (build[b].seen \ deleted), late \in SUBSET (Stored \ build[b].seen) :
       /\ unread # {} => faults < MaxFaults
       /\ faults' = IF unread = {} THEN faults ELSE faults + 1
       /\ build' = [build EXCEPT
                      ![b].pc  = "decide",
                      ![b].got = ((build[b].seen \ deleted) \ unread) \cup late]
  /\ UNCHANGED <<phase, disk, dirt, clock, lock, scorer, history, crashes>>

Larger(m, n) == IF m >= n THEN m ELSE n

(* _current_or_persisted_cohort_size: a torn file counts as none.          *)
CurrentSize == Larger(Cardinality(scorer), Cardinality(file.embs))

(* _should_keep_existing_cohort.                                           *)
ShouldKeep(source, current) ==
  /\ current > 0
  /\ source < current \/ (current >= MinCohort /\ MinCohort > source)

(* protect_existing is set by the daemon alone.                            *)
KeepsNothing(b) == FALSE

KeepsExisting(b) ==
  /\ b = "daemon"
  /\ ShouldKeep(Cardinality(build[b].got), CurrentSize)

MarkCleanNow(b) ==
  /\ built' = gen
  /\ reflected' = reflected \cup build[b].seen

(* _mark_generation_clean(target_gen).                                     *)
MarkClean(b) ==
  IF gen = build[b].target
    THEN built' = gen /\ reflected' = reflected \cup build[b].seen
    ELSE UNCHANGED <<built, reflected>>

KeepCohortDirty(b) ==
  /\ At(b, "decide") /\ KeepsExisting(b)
  /\ Unlock(b)
  /\ UNCHANGED <<disk, dirt, clock, scorer, history, budget>>

KeepCohort(b) ==
  /\ At(b, "decide") /\ KeepsExisting(b)
  /\ MarkClean(b)
  /\ Unlock(b)
  /\ UNCHANGED <<disk, gen, clock, scorer, enrolled, earlier, budget>>

(* "no embeddings found": the generation stays dirty.                      *)
NothingToBuild(b) ==
  /\ At(b, "decide") /\ ~ KeepsExisting(b) /\ build[b].got = {}
  /\ Unlock(b)
  /\ UNCHANGED <<disk, dirt, clock, scorer, history, budget>>

(* np.save opens the file, which empties it, and then writes it.           *)
OpenFile(b) ==
  /\ At(b, "decide") /\ ~ KeepsExisting(b) /\ build[b].got # {}
  /\ file' = Torn
  /\ Goto(b, "saving")
  /\ UNCHANGED <<phase, written, deleted, dirt, clock, lock, scorer, history, budget>>

WriteFile(b) ==
  /\ At(b, "saving")
  /\ file' = [kind |-> "saved", embs |-> build[b].got]
  /\ Goto(b, "install")
  /\ UNCHANGED <<phase, written, deleted, dirt, clock, lock, scorer, history, budget>>

SaveFails(b) ==
  /\ At(b, "saving")
  /\ faults < MaxFaults /\ faults' = faults + 1
  /\ Unlock(b)
  /\ UNCHANGED <<disk, dirt, clock, scorer, history, crashes>>

(* The scorer is swapped and the generation marked under the database's    *)
(* lock, which an enrollment holds while it is counted and stamped.        *)
Install(b) ==
  /\ At(b, "install") /\ ~ enrolling
  /\ scorer' = build[b].got
  /\ MarkClean(b)
  /\ Unlock(b)
  /\ UNCHANGED <<disk, gen, clock, enrolled, earlier, budget>>

Build(b) ==
  \/ ReadTarget(b) \/ TryLock(b) \/ SkipBuild(b) \/ ReadFiles(b)
  \/ KeepCohort(b) \/ NothingToBuild(b)
  \/ OpenFile(b) \/ WriteFile(b) \/ SaveFails(b) \/ Install(b)

Crash ==
  /\ phase # "down" /\ crashes < MaxCrashes
  /\ phase' = "down"
  /\ crashes' = crashes + 1
  /\ gen' = 0 /\ built' = -1
  /\ settled' = TRUE /\ enrolling' = FALSE
  /\ lock' = NoOne
  /\ build' = [b \in Builder |-> Idle]
  /\ scorer' = {}
  /\ enrolled' = {} /\ earlier' = earlier \cup enrolled
  /\ UNCHANGED <<disk, reflected, faults>>

Daemon == DaemonWakes \/ DaemonDebounces \/ Build("daemon")
Loop   == EnrollStamp \/ Build("loop")
Start  == StartWithFile \/ StartWithoutFile

Next ==
  \/ Start \/ Daemon \/ Loop \/ Settle
  \/ \E e \in Emb : Persist(e) \/ CleanUp(e) \/ EnrollCount(e)
  \/ RequestRebuild
  \/ Crash

Spec == Init /\ [][Next]_vars

(* The container is restarted, the daemon wakes every interval, the loop   *)
(* finishes what it began and time passes.  Nobody has to store, enroll or *)
(* ask for a rebuild.                                                      *)
FairSpec ==
  /\ Spec
  /\ WF_vars(Start) /\ WF_vars(Daemon) /\ WF_vars(Loop) /\ WF_vars(Settle)

-----------------------------------------------------------------------------
(* Properties.                                                             *)

(* Every variable stays in its type, and the rebuild lock is held exactly  *)
(* by the builder that is between taking and releasing it, whatever way    *)
(* its build ends.                                                         *)
TypeOK ==
  /\ phase \in {"down", "starting", "serving"}
  /\ written \in SUBSET Emb /\ deleted \in SUBSET written
  /\ gen \in Nat /\ built \in -1..gen
  /\ settled \in BOOLEAN /\ enrolling \in BOOLEAN
  /\ lock \in Builder \cup {NoOne}
  /\ build \in [Builder -> [pc : BuildPC, target : Nat, seen : SUBSET Emb, got : SUBSET Emb]]
  /\ \A b \in Builder : build[b].pc \in Holding <=> lock = b
  /\ scorer \in SUBSET Emb
  /\ file \in [kind : {"absent", "torn", "saved"}, embs : SUBSET Emb]
  /\ enrolled \in SUBSET Emb /\ earlier \in SUBSET Emb /\ reflected \in SUBSET Emb
  /\ crashes \in Nat /\ faults \in Nat

(* "ABA-safe dirty tracking ... enrollments that arrive during a rebuild   *)
(* are not silently lost": when the generation counts as built, every      *)
(* embedding this process enrolled and whose transcription is still there  *)
(* was listed by a build that ran after the enrollment.                    *)
CleanMeansSeen ==
  built = gen => enrolled \ deleted \subseteq reflected

(* The saved cohort is the one in use, whenever no build is under way and  *)
(* the file is whole: a restart goes on with the same scores.              *)
SavedIsLive ==
  phase = "serving" /\ lock = NoOne /\ file.kind = "saved" => file.embs = scorer

(* "the daemon keeps the existing cohort instead of shrinking it": what it *)
(* is about to install is never smaller than what is in use, although the  *)
(* sizes were compared several steps earlier and the endpoint may force a  *)
(* build of its own at any time.                                           *)
DaemonNeverShrinks ==
  build["daemon"].pc \in {"saving", "install"} =>
    Cardinality(build["daemon"].got) >= Cardinality(scorer)

(* A dirty generation is built in the end, across failing saves, skipped   *)
(* files, builds skipped because another ran, and restarts on a torn file, *)
(* unless nothing is stored to build from.                                 *)
CatchesUp == (gen # built) ~> (gen = built \/ Stored = {})

(* "checks every 60 s for un-reflected enrollments": an enrollment of an   *)
(* earlier process is in the cohort, or was listed by a completed build,   *)
(* when the process that follows it has nothing left to build.             *)
PendingSurvivesRestart ==
  built = gen => earlier \ deleted \subseteq reflected \cup scorer
=============================================================================
