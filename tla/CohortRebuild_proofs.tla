------------------------ MODULE CohortRebuild_proofs ------------------------
(***************************************************************************)
(* What the cohort rebuild guarantees for any number of embeddings,        *)
(* enrollments, clean-ups, crashes and I/O errors.                         *)
(*                                                                         *)
(* IInv is CohortRebuild's invariants with what they rest on: a builder    *)
(* whose target is still the current generation has listed every           *)
(* enrolled embedding (DirtInv), and the saved file differs from the       *)
(* scorer only while the holder of the lock is about to install it         *)
(* (FileInv).                                                              *)
(***************************************************************************)
EXTENDS CohortRebuild, FiniteSetTheorems, TLAPS

Listed == {"read", "decide", "saving", "install"}

DirtInv ==
  /\ phase = "down" => enrolled = {}
  /\ enrolled \subseteq written
  /\ built <= gen
  /\ \A b \in Builder : build[b].pc \in {"lock"} \cup Listed => build[b].target <= gen
  /\ \A b \in Builder : build[b].pc \in Listed /\ build[b].target = gen =>
       enrolled \ deleted \subseteq build[b].seen
  /\ CleanMeansSeen

FileInv ==
  /\ phase = "down" => lock = NoOne /\ \A b \in Builder : build[b].pc = "idle"
  /\ file.kind # "saved" => file.embs = {}
  /\ phase # "down" /\ file.kind = "saved" =>
       IF lock # NoOne /\ build[lock].pc = "install"
         THEN file.embs = build[lock].got
         ELSE file.embs = scorer
  /\ lock # NoOne /\ build[lock].pc = "saving" => file.kind # "saved"
  /\ lock # NoOne /\ build[lock].pc = "install" => file.kind = "saved"

IInv == TypeOK /\ DirtInv /\ FileInv /\ DaemonNeverShrinks

-----------------------------------------------------------------------------
(* Cohorts are finite, so their sizes are numbers.                         *)
LEMMA SizeType ==
  ASSUME NEW S \in SUBSET Emb
  PROVE  Cardinality(S) \in Nat
<1>1. IsFiniteSet(S)
  BY EmbAssumption, FS_Subset
<1>2. QED
  BY <1>1, FS_CardinalityType

(* _should_keep_existing_cohort is simpler than it reads: its second test  *)
(* adds nothing to the first.                                              *)
LEMMA KeepsLarger ==
  ASSUME NEW m \in Nat, NEW n \in Nat
  PROVE  ShouldKeep(m, n) <=> m < n
  BY MinAssumption DEF ShouldKeep

(* A cohort the daemon goes on to save is at least as large as the one in  *)
(* use.                                                                    *)
LEMMA ReplacementIsLarger ==
  ASSUME TypeOK, ~ KeepsExisting("daemon")
  PROVE  Cardinality(build["daemon"].got) >= Cardinality(scorer)
<1>1. /\ Cardinality(build["daemon"].got) \in Nat
      /\ Cardinality(scorer) \in Nat
      /\ Cardinality(file.embs) \in Nat
  BY SizeType DEF TypeOK, Builder
<1>2. CurrentSize \in Nat /\ CurrentSize >= Cardinality(scorer)
  BY <1>1 DEF CurrentSize, Larger
<1>3. ~ (Cardinality(build["daemon"].got) < CurrentSize)
  BY <1>1, <1>2, KeepsLarger DEF KeepsExisting
<1>4. QED
  BY <1>1, <1>2, <1>3

(* The builders of a process that has just started, or died, are idle.     *)
LEMMA IdleType ==
  /\ [b \in Builder |-> Idle] \in [Builder -> [pc : BuildPC, target : Nat, seen : SUBSET Emb, got : SUBSET Emb]]
  /\ \A b \in Builder : [c \in Builder |-> Idle][b].pc = "idle"
<1>1. Idle \in [pc : BuildPC, target : Nat, seen : SUBSET Emb, got : SUBSET Emb] /\ Idle.pc = "idle"
  BY DEF Idle, BuildPC
<1>2. QED
  BY <1>1

(* The initial states satisfy the inductive invariant.                     *)
LEMMA InitInv == Init => IInv
<1> SUFFICES ASSUME Init PROVE IInv
  OBVIOUS
<1>1. /\ build \in [Builder -> [pc : BuildPC, target : Nat, seen : SUBSET Emb, got : SUBSET Emb]]
      /\ \A b \in Builder : build[b].pc = "idle"
  BY IdleType DEF Init
<1>2. \A b \in Builder : build[b].pc \in Holding <=> lock = b
  BY <1>1 DEF Init, Builder, NoOne, Holding
<1>3. gen \in Nat /\ built \in -1..gen
  BY DEF Init
<1>4. file \in [kind : {"absent", "torn", "saved"}, embs : SUBSET Emb]
  BY DEF Init, NoFile
<1>5. TypeOK
  BY <1>1, <1>2, <1>3, <1>4 DEF Init, TypeOK
<1>6. DirtInv
  BY <1>1, <1>3 DEF Init, DirtInv, CleanMeansSeen, Listed
<1>7. FileInv
  BY <1>1, <1>4 DEF Init, FileInv, NoFile
<1>8. DaemonNeverShrinks
  BY <1>1 DEF DaemonNeverShrinks, Builder
<1>9. QED
  BY <1>5, <1>6, <1>7, <1>8 DEF IInv

(* Every step preserves the inductive invariant.                           *)
(* The parts of the state no action but a build's touches are expanded     *)
(* once for all the steps below.                                           *)
LEMMA StepInv == IInv /\ [Next]_vars => IInv'
<1> SUFFICES ASSUME IInv, [Next]_vars PROVE IInv'
  OBVIOUS
<1> USE DEF IInv, TypeOK, DirtInv, FileInv, CleanMeansSeen, DaemonNeverShrinks, Builder, NoOne,
            Idle, Holding, Listed, BuildPC, At, Goto, disk, dirt, clock, history, budget, Stored
<1>1. CASE StartWithFile
<2>1. TypeOK'
  BY <1>1 DEF StartWithFile
<2>2. DirtInv'
  BY <1>1 DEF StartWithFile
<2>3. FileInv'
  BY <1>1 DEF StartWithFile
<2>4. DaemonNeverShrinks'
  BY <1>1 DEF StartWithFile
<2>5. QED
  BY <2>1, <2>2, <2>3, <2>4
<1>2. CASE StartWithoutFile
<2>1. TypeOK'
  BY <1>2 DEF StartWithoutFile
<2>2. DirtInv'
  BY <1>2 DEF StartWithoutFile
<2>3. FileInv'
  BY <1>2 DEF StartWithoutFile
<2>4. DaemonNeverShrinks'
  BY <1>2 DEF StartWithoutFile
<2>5. QED
  BY <2>1, <2>2, <2>3, <2>4
<1>3. ASSUME NEW e \in Emb, Persist(e) PROVE IInv'
<2>1. TypeOK'
  BY <1>3 DEF Persist
<2>2. DirtInv'
  BY <1>3 DEF Persist
<2>3. FileInv'
  BY <1>3 DEF Persist
<2>4. DaemonNeverShrinks'
  BY <1>3 DEF Persist
<2>5. QED
  BY <2>1, <2>2, <2>3, <2>4
<1>4. ASSUME NEW e \in Emb, CleanUp(e) PROVE IInv'
<2>1. TypeOK'
  BY <1>4 DEF CleanUp
<2>2. DirtInv'
  BY <1>4 DEF CleanUp
<2>3. FileInv'
  BY <1>4 DEF CleanUp
<2>4. DaemonNeverShrinks'
  BY <1>4 DEF CleanUp
<2>5. QED
  BY <2>1, <2>2, <2>3, <2>4
<1>5. ASSUME NEW e \in Emb, EnrollCount(e) PROVE IInv'
<2>1. TypeOK'
  BY <1>5 DEF EnrollCount, LoopIsFree
<2>2. DirtInv'
  BY <1>5 DEF EnrollCount, LoopIsFree
<2>3. FileInv'
  BY <1>5 DEF EnrollCount, LoopIsFree
<2>4. DaemonNeverShrinks'
  BY <1>5 DEF EnrollCount, LoopIsFree
<2>5. QED
  BY <2>1, <2>2, <2>3, <2>4
<1>6. CASE EnrollStamp
<2>1. TypeOK'
  BY <1>6 DEF EnrollStamp
<2>2. DirtInv'
  BY <1>6 DEF EnrollStamp
<2>3. FileInv'
  BY <1>6 DEF EnrollStamp
<2>4. DaemonNeverShrinks'
  BY <1>6 DEF EnrollStamp
<2>5. QED
  BY <2>1, <2>2, <2>3, <2>4
<1>7. CASE Settle
<2>1. TypeOK'
  BY <1>7 DEF Settle
<2>2. DirtInv'
  BY <1>7 DEF Settle
<2>3. FileInv'
  BY <1>7 DEF Settle
<2>4. DaemonNeverShrinks'
  BY <1>7 DEF Settle
<2>5. QED
  BY <2>1, <2>2, <2>3, <2>4
<1>8. CASE DaemonWakes
<2>1. TypeOK'
  BY <1>8 DEF DaemonWakes
<2>2. DirtInv'
  BY <1>8 DEF DaemonWakes
<2>3. FileInv'
  BY <1>8 DEF DaemonWakes
<2>4. DaemonNeverShrinks'
  BY <1>8 DEF DaemonWakes
<2>5. QED
  BY <2>1, <2>2, <2>3, <2>4
<1>9. CASE DaemonDebounces
<2>1. TypeOK'
  BY <1>9 DEF DaemonDebounces
<2>2. DirtInv'
  BY <1>9 DEF DaemonDebounces
<2>3. FileInv'
  BY <1>9 DEF DaemonDebounces
<2>4. DaemonNeverShrinks'
  BY <1>9 DEF DaemonDebounces
<2>5. QED
  BY <2>1, <2>2, <2>3, <2>4
<1>10. CASE RequestRebuild
<2>1. TypeOK'
  BY <1>10 DEF RequestRebuild, LoopIsFree
<2>2. DirtInv'
  BY <1>10 DEF RequestRebuild, LoopIsFree
<2>3. FileInv'
  BY <1>10 DEF RequestRebuild, LoopIsFree
<2>4. DaemonNeverShrinks'
  BY <1>10 DEF RequestRebuild, LoopIsFree
<2>5. QED
  BY <2>1, <2>2, <2>3, <2>4
<1>11. ASSUME NEW b \in Builder, ReadTarget(b) PROVE IInv'
<2>1. TypeOK'
  BY <1>11 DEF ReadTarget
<2>2. DirtInv'
  BY <1>11 DEF ReadTarget
<2>3. FileInv'
  BY <1>11 DEF ReadTarget
<2>4. DaemonNeverShrinks'
  BY <1>11 DEF ReadTarget
<2>5. QED
  BY <2>1, <2>2, <2>3, <2>4
<1>12. ASSUME NEW b \in Builder, TryLock(b) PROVE IInv'
<2>1. TypeOK'
  BY <1>12 DEF TryLock, ListFiles
<2>2. DirtInv'
  BY <1>12 DEF TryLock, ListFiles
<2>3. FileInv'
  BY <1>12 DEF TryLock, ListFiles
<2>4. DaemonNeverShrinks'
  BY <1>12 DEF TryLock, ListFiles
<2>5. QED
  BY <2>1, <2>2, <2>3, <2>4
<1>13. ASSUME NEW b \in Builder, SkipBuild(b) PROVE IInv'
<2>1. TypeOK'
  BY <1>13 DEF SkipBuild, EndBuild
<2>2. DirtInv'
  BY <1>13 DEF SkipBuild, EndBuild
<2>3. FileInv'
  BY <1>13 DEF SkipBuild, EndBuild
<2>4. DaemonNeverShrinks'
  BY <1>13 DEF SkipBuild, EndBuild
<2>5. QED
  BY <2>1, <2>2, <2>3, <2>4
<1>14. ASSUME NEW b \in Builder, ReadFiles(b) PROVE IInv'
<2>1. TypeOK'
  BY <1>14 DEF ReadFiles
<2>2. DirtInv'
  BY <1>14 DEF ReadFiles
<2>3. FileInv'
  BY <1>14 DEF ReadFiles
<2>4. DaemonNeverShrinks'
  BY <1>14 DEF ReadFiles
<2>5. QED
  BY <2>1, <2>2, <2>3, <2>4
<1>15. ASSUME NEW b \in Builder, KeepCohort(b) PROVE IInv'
<2>1. TypeOK'
  BY <1>15 DEF KeepCohort, MarkClean, Unlock, EndBuild
<2>2. DirtInv'
  BY <1>15 DEF KeepCohort, MarkClean, Unlock, EndBuild
<2>3. FileInv'
  BY <1>15 DEF KeepCohort, MarkClean, Unlock, EndBuild
<2>4. DaemonNeverShrinks'
  BY <1>15 DEF KeepCohort, MarkClean, Unlock, EndBuild
<2>5. QED
  BY <2>1, <2>2, <2>3, <2>4
<1>16. ASSUME NEW b \in Builder, NothingToBuild(b) PROVE IInv'
<2>1. TypeOK'
  BY <1>16 DEF NothingToBuild, Unlock, EndBuild
<2>2. DirtInv'
  BY <1>16 DEF NothingToBuild, Unlock, EndBuild
<2>3. FileInv'
  BY <1>16 DEF NothingToBuild, Unlock, EndBuild
<2>4. DaemonNeverShrinks'
  BY <1>16 DEF NothingToBuild, Unlock, EndBuild
<2>5. QED
  BY <2>1, <2>2, <2>3, <2>4
<1>17. ASSUME NEW b \in Builder, OpenFile(b) PROVE IInv'
<2>1. TypeOK'
  BY <1>17, ReplacementIsLarger DEF OpenFile, Torn
<2>2. DirtInv'
  BY <1>17, ReplacementIsLarger DEF OpenFile, Torn
<2>3. FileInv'
  BY <1>17, ReplacementIsLarger DEF OpenFile, Torn
<2>4. DaemonNeverShrinks'
  BY <1>17, ReplacementIsLarger DEF OpenFile, Torn
<2>5. QED
  BY <2>1, <2>2, <2>3, <2>4
<1>18. ASSUME NEW b \in Builder, WriteFile(b) PROVE IInv'
<2>1. TypeOK'
  BY <1>18 DEF WriteFile
<2>2. DirtInv'
  BY <1>18 DEF WriteFile
<2>3. FileInv'
  BY <1>18 DEF WriteFile
<2>4. DaemonNeverShrinks'
  BY <1>18 DEF WriteFile
<2>5. QED
  BY <2>1, <2>2, <2>3, <2>4
<1>19. ASSUME NEW b \in Builder, SaveFails(b) PROVE IInv'
<2>1. TypeOK'
  BY <1>19 DEF SaveFails, Unlock, EndBuild
<2>2. DirtInv'
  BY <1>19 DEF SaveFails, Unlock, EndBuild
<2>3. FileInv'
  BY <1>19 DEF SaveFails, Unlock, EndBuild
<2>4. DaemonNeverShrinks'
  BY <1>19 DEF SaveFails, Unlock, EndBuild
<2>5. QED
  BY <2>1, <2>2, <2>3, <2>4
<1>20. ASSUME NEW b \in Builder, Install(b) PROVE IInv'
<2>1. TypeOK'
  BY <1>20 DEF Install, MarkClean, Unlock, EndBuild
<2>2. DirtInv'
  BY <1>20 DEF Install, MarkClean, Unlock, EndBuild
<2>3. FileInv'
  BY <1>20 DEF Install, MarkClean, Unlock, EndBuild
<2>4. DaemonNeverShrinks'
  BY <1>20 DEF Install, MarkClean, Unlock, EndBuild
<2>5. QED
  BY <2>1, <2>2, <2>3, <2>4
<1>21. CASE Crash
<2>1. TypeOK'
<3>1. /\ build' \in [Builder -> [pc : BuildPC, target : Nat, seen : SUBSET Emb, got : SUBSET Emb]]
      /\ \A b \in Builder : build'[b].pc = "idle"
  BY ONLY <1>21, IdleType DEF Crash
<3>2. \A b \in Builder : build'[b].pc \in Holding <=> lock' = b
  BY ONLY <1>21, <3>1 DEF Crash, Builder, NoOne, Holding
<3>3. gen' \in Nat /\ built' \in -1..gen'
  BY ONLY <1>21 DEF Crash
<3>4. /\ written' = written /\ deleted' = deleted /\ file' = file /\ scorer' = {}
      /\ phase' = "down" /\ settled' = TRUE /\ enrolling' = FALSE /\ lock' = NoOne
      /\ enrolled' = {} /\ earlier' = earlier \cup enrolled /\ reflected' = reflected
      /\ crashes' = crashes + 1 /\ faults' = faults
  BY ONLY <1>21 DEF Crash, disk
<3>5. /\ enrolled' \in SUBSET Emb /\ earlier' \in SUBSET Emb /\ reflected' \in SUBSET Emb
      /\ crashes' \in Nat /\ faults' \in Nat
  BY ONLY TypeOK, <3>4 DEF TypeOK
<3>6. /\ written' \in SUBSET Emb /\ deleted' \in SUBSET written' /\ scorer' \in SUBSET Emb
      /\ file' \in [kind : {"absent", "torn", "saved"}, embs : SUBSET Emb]
  BY ONLY TypeOK, <3>4 DEF TypeOK
<3>7. /\ phase' \in {"down", "starting", "serving"}
      /\ settled' \in BOOLEAN /\ enrolling' \in BOOLEAN
      /\ lock' \in Builder \cup {NoOne}
  BY ONLY <3>4
<3>8. QED
  BY ONLY <3>1, <3>2, <3>3, <3>5, <3>6, <3>7 DEF TypeOK
<2>2. DirtInv'
  BY <1>21, IdleType DEF Crash
<2>3. FileInv'
  BY <1>21, IdleType DEF Crash
<2>4. DaemonNeverShrinks'
  BY <1>21, IdleType DEF Crash
<2>5. QED
  BY <2>1, <2>2, <2>3, <2>4
<1>22. CASE UNCHANGED vars
  BY <1>22 DEF vars
<1>23. ASSUME NEW b \in Builder, Build(b) PROVE IInv'
  BY ONLY <1>23, <1>11, <1>12, <1>13, <1>14, <1>15, <1>16, <1>17, <1>18, <1>19, <1>20 DEF Build
<1>24. QED
  BY ONLY [Next]_vars, <1>22, <1>23, <1>1, <1>2, <1>3, <1>4, <1>5, <1>6, <1>7, <1>8, <1>9, <1>10, <1>21
     DEF Next, Start, Daemon, Loop, Builder

-----------------------------------------------------------------------------
(* The inductive invariant holds in every reachable state.                 *)
THEOREM Invariance == Spec => []IInv
  BY InitInv, StepInv, PTL DEF Spec

(* The types, and that the rebuild lock is held exactly by the builder     *)
(* inside the locked section.                                              *)
THEOREM TypeCorrect == Spec => []TypeOK
<1>1. IInv => TypeOK
  BY DEF IInv
<1>2. QED
  BY <1>1, Invariance, PTL

(* No enrollment that arrives during a rebuild is lost: a generation is    *)
(* marked built only by a build that listed what it had enrolled.          *)
THEOREM NoEnrollmentIsLost == Spec => []CleanMeansSeen
<1>1. IInv => CleanMeansSeen
  BY DEF IInv, DirtInv
<1>2. QED
  BY <1>1, Invariance, PTL

(* Whenever no build is under way, a whole cohort file is the cohort in    *)
(* use.                                                                    *)
THEOREM RestartKeepsTheCohort == Spec => []SavedIsLive
<1>1. IInv => SavedIsLive
  BY DEF IInv, FileInv, SavedIsLive
<1>2. QED
  BY <1>1, Invariance, PTL

(* The daemon never installs a cohort smaller than the one in use.         *)
THEOREM DaemonKeepsTheLarger == Spec => []DaemonNeverShrinks
<1>1. IInv => DaemonNeverShrinks
  BY DEF IInv
<1>2. QED
  BY <1>1, Invariance, PTL
=============================================================================
