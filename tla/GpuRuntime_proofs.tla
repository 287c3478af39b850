-------------------------- MODULE GpuRuntime_proofs --------------------------
(***************************************************************************)
(* What the GPU runtime guarantees for any number of threads, languages,   *)
(* devices and any idle timeout.                                           *)
(*                                                                         *)
(* The semaphore is not mentioned by what it protects, so IInv says first  *)
(* who can be inside with whom (Alone), and then what the one inside has   *)
(* found and can rely on: the daemon, that the runtime is idle; a job,     *)
(* that a device is selected for the model it loads, that the model it     *)
(* uses is resident, that Whisper stays resident for the stages after it,  *)
(* and that the key of the aligner's cache tells the model in it.          *)
(***************************************************************************)
EXTENDS GpuRuntime, TLAPS

Alone ==
  /\ \A t, u \in Thread : Inside(t) /\ Inside(u) => t = u
  /\ \A t \in Thread : Inside(t) => ~ DaemonInside

DeviceIsSelected ==
  /\ \A t \in Thread, m \in Model : stage[t] = m /\ step[t] \in {"load", "move"} => device[m] # Nothing
  /\ \A m \in Model : resident[m] # Nothing => device[m] # Nothing

KeyTellsTheModel == align.key = align.model

WhisperStays ==
  \A t \in Thread : stage[t] \in {"diarization", "align", "embedding"} => resident["whisper"] # Nothing

IInv ==
  /\ TypeOK /\ Alone
  /\ daemon = "unload" => IdleDue
  /\ DeviceIsSelected /\ WhisperStays /\ KeyTellsTheModel
  /\ StageHasItsModel /\ AlignedInItsLanguage

-----------------------------------------------------------------------------
(* The initial state satisfies the inductive invariant.                    *)
LEMMA InitInv == Init => IInv
  BY DEF Init, IInv, TypeOK, Alone, DeviceIsSelected, WhisperStays, KeyTellsTheModel,
         StageHasItsModel, AlignedInItsLanguage, Inside, Working, Model, DaemonInside, IdleDue, NoAlignment, Never

(* Every step preserves it.  The parts are taken one by one under each     *)
(* action: its type, who is inside, and what the one inside relies on.     *)
LEMMA StepInv == IInv /\ [Next]_vars => IInv'
<1> SUFFICES ASSUME IInv, [Next]_vars PROVE IInv'
  OBVIOUS
<1> USE NothingAssumption, TimeoutAssumption
    DEF IInv, TypeOK, Alone, Inside, Working, Model, DaemonInside, IdleDue, Never, models, NoAlignment, To
<1>1. ASSUME NEW t \in Thread, Arrive(t) PROVE IInv'
<2>1. TypeOK'
  BY <1>1 DEF Arrive
<2>2. Alone'
  BY <1>1 DEF Arrive
<2>3. (daemon = "unload" => IdleDue)'
  BY <1>1 DEF Arrive
<2>4. DeviceIsSelected' /\ WhisperStays'
  BY <1>1 DEF Arrive, DeviceIsSelected, WhisperStays
<2>5. StageHasItsModel'
  BY <1>1 DEF Arrive, StageHasItsModel, DeviceIsSelected
<2>6. AlignedInItsLanguage' /\ KeyTellsTheModel'
  BY <1>1 DEF Arrive, AlignedInItsLanguage, KeyTellsTheModel
<2>7. QED
  BY ONLY <2>1, <2>2, <2>3, <2>4, <2>5, <2>6 DEF IInv
<1>2. ASSUME NEW t \in Thread, Enter(t) PROVE IInv'
<2>1. TypeOK'
  BY <1>2 DEF Enter
<2>2. Alone'
  BY <1>2 DEF Enter
<2>3. (daemon = "unload" => IdleDue)'
  BY <1>2 DEF Enter
<2>4. DeviceIsSelected' /\ WhisperStays'
  BY <1>2 DEF Enter, DeviceIsSelected, WhisperStays
<2>5. StageHasItsModel'
  BY <1>2 DEF Enter, StageHasItsModel, DeviceIsSelected
<2>6. AlignedInItsLanguage' /\ KeyTellsTheModel'
  BY <1>2 DEF Enter, AlignedInItsLanguage, KeyTellsTheModel
<2>7. QED
  BY ONLY <2>1, <2>2, <2>3, <2>4, <2>5, <2>6 DEF IInv
<1>3. ASSUME NEW t \in Thread, NEW m \in Model, Reuse(t, m) PROVE IInv'
<2>1. TypeOK'
  BY <1>3 DEF Reuse
<2>2. Alone'
  BY <1>3 DEF Reuse
<2>3. (daemon = "unload" => IdleDue)'
  BY <1>3 DEF Reuse
<2>4. DeviceIsSelected' /\ WhisperStays'
  BY <1>3 DEF Reuse, DeviceIsSelected, WhisperStays
<2>5. StageHasItsModel'
  BY <1>3 DEF Reuse, StageHasItsModel, DeviceIsSelected
<2>6. AlignedInItsLanguage' /\ KeyTellsTheModel'
  BY <1>3 DEF Reuse, AlignedInItsLanguage, KeyTellsTheModel
<2>7. QED
  BY ONLY <2>1, <2>2, <2>3, <2>4, <2>5, <2>6 DEF IInv
<1>4. ASSUME NEW t \in Thread, NEW m \in Model, SelectDevice(t, m) PROVE IInv'
<2>1. TypeOK'
  BY <1>4 DEF SelectDevice
<2>2. Alone'
  BY <1>4 DEF SelectDevice
<2>3. (daemon = "unload" => IdleDue)'
  BY <1>4 DEF SelectDevice
<2>4. DeviceIsSelected' /\ WhisperStays'
  BY <1>4 DEF SelectDevice, DeviceIsSelected, WhisperStays
<2>5. StageHasItsModel'
  BY <1>4 DEF SelectDevice, StageHasItsModel, DeviceIsSelected
<2>6. AlignedInItsLanguage' /\ KeyTellsTheModel'
  BY <1>4 DEF SelectDevice, AlignedInItsLanguage, KeyTellsTheModel
<2>7. QED
  BY ONLY <2>1, <2>2, <2>3, <2>4, <2>5, <2>6 DEF IInv
<1>5. ASSUME NEW t \in Thread, NEW m \in Model, Load(t, m) PROVE IInv'
<2>1. TypeOK'
  BY <1>5 DEF Load
<2>2. Alone'
  BY <1>5 DEF Load
<2>3. (daemon = "unload" => IdleDue)'
  BY <1>5 DEF Load
<2>4. DeviceIsSelected' /\ WhisperStays'
  BY <1>5 DEF Load, DeviceIsSelected, WhisperStays
<2>5. StageHasItsModel'
  BY <1>5 DEF Load, StageHasItsModel, DeviceIsSelected
<2>6. AlignedInItsLanguage' /\ KeyTellsTheModel'
  BY <1>5 DEF Load, AlignedInItsLanguage, KeyTellsTheModel
<2>7. QED
  BY ONLY <2>1, <2>2, <2>3, <2>4, <2>5, <2>6 DEF IInv
<1>6. ASSUME NEW t \in Thread, MoveToDevice(t) PROVE IInv'
<2>1. TypeOK'
  BY <1>6 DEF MoveToDevice
<2>2. Alone'
  BY <1>6 DEF MoveToDevice
<2>3. (daemon = "unload" => IdleDue)'
  BY <1>6 DEF MoveToDevice
<2>4. DeviceIsSelected' /\ WhisperStays'
  BY <1>6 DEF MoveToDevice, DeviceIsSelected, WhisperStays
<2>5. StageHasItsModel'
  BY <1>6 DEF MoveToDevice, StageHasItsModel, DeviceIsSelected
<2>6. AlignedInItsLanguage' /\ KeyTellsTheModel'
  BY <1>6 DEF MoveToDevice, AlignedInItsLanguage, KeyTellsTheModel
<2>7. QED
  BY ONLY <2>1, <2>2, <2>3, <2>4, <2>5, <2>6 DEF IInv
<1>7. ASSUME NEW t \in Thread, NEW m \in Model, Use(t, m) PROVE IInv'
<2> DEFINE next == After[m]
<2>0. /\ stage[t] = m /\ step[t] = "use" /\ stage' = [stage EXCEPT ![t] = next]
      /\ step' = [step EXCEPT ![t] = "get"]
      /\ next \in {"diarization", "align", "finish"}
      /\ sem' = sem /\ resident' = resident /\ device' = device /\ align' = align
      /\ age' = age /\ daemon' = daemon
      /\ language' \in [Thread -> Language \cup {Nothing}]
      /\ \A u \in Thread : u # t => language'[u] = language[u]
  BY ONLY TypeOK, <1>7 DEF TypeOK, Use, After, Model, To, models
<2> HIDE DEF next
<2>1. TypeOK'
  BY <2>0
<2>2. Alone'
  BY <2>0
<2>3. (daemon = "unload" => IdleDue)'
  BY <2>0
<2>4. DeviceIsSelected' /\ WhisperStays'
  BY <2>0 DEF DeviceIsSelected, WhisperStays, StageHasItsModel
<2>5. StageHasItsModel'
  BY <2>0 DEF StageHasItsModel
<2>6. AlignedInItsLanguage' /\ KeyTellsTheModel'
  BY <2>0 DEF AlignedInItsLanguage, KeyTellsTheModel
<2>7. QED
  BY ONLY <2>1, <2>2, <2>3, <2>4, <2>5, <2>6 DEF IInv
<1>8. ASSUME NEW t \in Thread, NoOneToEmbed(t) PROVE IInv'
<2>1. TypeOK'
  BY <1>8 DEF NoOneToEmbed
<2>2. Alone'
  BY <1>8 DEF NoOneToEmbed
<2>3. (daemon = "unload" => IdleDue)'
  BY <1>8 DEF NoOneToEmbed
<2>4. DeviceIsSelected' /\ WhisperStays'
  BY <1>8 DEF NoOneToEmbed, DeviceIsSelected, WhisperStays
<2>5. StageHasItsModel'
  BY <1>8 DEF NoOneToEmbed, StageHasItsModel, DeviceIsSelected
<2>6. AlignedInItsLanguage' /\ KeyTellsTheModel'
  BY <1>8 DEF NoOneToEmbed, AlignedInItsLanguage, KeyTellsTheModel
<2>7. QED
  BY ONLY <2>1, <2>2, <2>3, <2>4, <2>5, <2>6 DEF IInv
<1>9. ASSUME NEW t \in Thread, JobRaises(t) PROVE IInv'
<2>1. TypeOK'
  BY <1>9 DEF JobRaises
<2>2. Alone'
  BY <1>9 DEF JobRaises
<2>3. (daemon = "unload" => IdleDue)'
  BY <1>9 DEF JobRaises
<2>4. DeviceIsSelected' /\ WhisperStays'
  BY <1>9 DEF JobRaises, DeviceIsSelected, WhisperStays
<2>5. StageHasItsModel'
  BY <1>9 DEF JobRaises, StageHasItsModel, DeviceIsSelected
<2>6. AlignedInItsLanguage' /\ KeyTellsTheModel'
  BY <1>9 DEF JobRaises, AlignedInItsLanguage, KeyTellsTheModel
<2>7. QED
  BY ONLY <2>1, <2>2, <2>3, <2>4, <2>5, <2>6 DEF IInv
<1>10. ASSUME NEW t \in Thread, AlignReuse(t) PROVE IInv'
<2>1. TypeOK'
  BY <1>10 DEF AlignReuse
<2>2. Alone'
  BY <1>10 DEF AlignReuse
<2>3. (daemon = "unload" => IdleDue)'
  BY <1>10 DEF AlignReuse
<2>4. DeviceIsSelected' /\ WhisperStays'
  BY <1>10 DEF AlignReuse, DeviceIsSelected, WhisperStays
<2>5. StageHasItsModel'
  BY <1>10 DEF AlignReuse, StageHasItsModel, DeviceIsSelected
<2>6. AlignedInItsLanguage' /\ KeyTellsTheModel'
  BY <1>10 DEF AlignReuse, AlignedInItsLanguage, KeyTellsTheModel
<2>7. QED
  BY ONLY <2>1, <2>2, <2>3, <2>4, <2>5, <2>6 DEF IInv
<1>11. ASSUME NEW t \in Thread, AlignForget(t) PROVE IInv'
<2>1. TypeOK'
  BY <1>11 DEF AlignForget
<2>2. Alone'
  BY <1>11 DEF AlignForget
<2>3. (daemon = "unload" => IdleDue)'
  BY <1>11 DEF AlignForget
<2>4. DeviceIsSelected' /\ WhisperStays'
  BY <1>11 DEF AlignForget, DeviceIsSelected, WhisperStays
<2>5. StageHasItsModel'
  BY <1>11 DEF AlignForget, StageHasItsModel, DeviceIsSelected
<2>6. AlignedInItsLanguage' /\ KeyTellsTheModel'
  BY <1>11 DEF AlignForget, AlignedInItsLanguage, KeyTellsTheModel
<2>7. QED
  BY ONLY <2>1, <2>2, <2>3, <2>4, <2>5, <2>6 DEF IInv
<1>12. ASSUME NEW t \in Thread, AlignLoad(t) PROVE IInv'
<2>1. TypeOK'
  BY <1>12 DEF AlignLoad
<2>2. Alone'
  BY <1>12 DEF AlignLoad
<2>3. (daemon = "unload" => IdleDue)'
  BY <1>12 DEF AlignLoad
<2>4. DeviceIsSelected' /\ WhisperStays'
  BY <1>12 DEF AlignLoad, DeviceIsSelected, WhisperStays
<2>5. StageHasItsModel'
  BY <1>12 DEF AlignLoad, StageHasItsModel, DeviceIsSelected
<2>6. AlignedInItsLanguage' /\ KeyTellsTheModel'
  BY <1>12 DEF AlignLoad, AlignedInItsLanguage, KeyTellsTheModel
<2>7. QED
  BY ONLY <2>1, <2>2, <2>3, <2>4, <2>5, <2>6 DEF IInv
<1>13. ASSUME NEW t \in Thread, AlignEnds(t) PROVE IInv'
<2>1. TypeOK'
  BY <1>13 DEF AlignEnds
<2>2. Alone'
  BY <1>13 DEF AlignEnds
<2>3. (daemon = "unload" => IdleDue)'
  BY <1>13 DEF AlignEnds
<2>4. DeviceIsSelected' /\ WhisperStays'
  BY <1>13 DEF AlignEnds, DeviceIsSelected, WhisperStays
<2>5. StageHasItsModel'
  BY <1>13 DEF AlignEnds, StageHasItsModel, DeviceIsSelected
<2>6. AlignedInItsLanguage' /\ KeyTellsTheModel'
  BY <1>13 DEF AlignEnds, AlignedInItsLanguage, KeyTellsTheModel
<2>7. QED
  BY ONLY <2>1, <2>2, <2>3, <2>4, <2>5, <2>6 DEF IInv
<1>14. ASSUME NEW t \in Thread, Finish(t) PROVE IInv'
<2>1. TypeOK'
  BY <1>14 DEF Finish
<2>2. Alone'
  BY <1>14 DEF Finish
<2>3. (daemon = "unload" => IdleDue)'
  BY <1>14 DEF Finish
<2>4. DeviceIsSelected' /\ WhisperStays'
  BY <1>14 DEF Finish, DeviceIsSelected, WhisperStays
<2>5. StageHasItsModel'
  BY <1>14 DEF Finish, StageHasItsModel, DeviceIsSelected
<2>6. AlignedInItsLanguage' /\ KeyTellsTheModel'
  BY <1>14 DEF Finish, AlignedInItsLanguage, KeyTellsTheModel
<2>7. QED
  BY ONLY <2>1, <2>2, <2>3, <2>4, <2>5, <2>6 DEF IInv
<1>15. ASSUME NEW t \in Thread, Leave(t) PROVE IInv'
<2>1. TypeOK'
  BY <1>15 DEF Leave
<2>2. Alone'
  BY <1>15 DEF Leave
<2>3. (daemon = "unload" => IdleDue)'
  BY <1>15 DEF Leave
<2>4. DeviceIsSelected' /\ WhisperStays'
  BY <1>15 DEF Leave, DeviceIsSelected, WhisperStays
<2>5. StageHasItsModel'
  BY <1>15 DEF Leave, StageHasItsModel, DeviceIsSelected
<2>6. AlignedInItsLanguage' /\ KeyTellsTheModel'
  BY <1>15 DEF Leave, AlignedInItsLanguage, KeyTellsTheModel
<2>7. QED
  BY ONLY <2>1, <2>2, <2>3, <2>4, <2>5, <2>6 DEF IInv
<1>16. CASE DaemonChecks
<2>1. TypeOK'
  BY <1>16 DEF DaemonChecks
<2>2. Alone'
  BY <1>16 DEF DaemonChecks
<2>3. (daemon = "unload" => IdleDue)'
  BY <1>16 DEF DaemonChecks
<2>4. DeviceIsSelected' /\ WhisperStays'
  BY <1>16 DEF DaemonChecks, DeviceIsSelected, WhisperStays
<2>5. StageHasItsModel'
  BY <1>16 DEF DaemonChecks, StageHasItsModel, DeviceIsSelected
<2>6. AlignedInItsLanguage' /\ KeyTellsTheModel'
  BY <1>16 DEF DaemonChecks, AlignedInItsLanguage, KeyTellsTheModel
<2>7. QED
  BY ONLY <2>1, <2>2, <2>3, <2>4, <2>5, <2>6 DEF IInv
<1>17. CASE DaemonAcquires
<2>1. TypeOK'
  BY <1>17 DEF DaemonAcquires
<2>2. Alone'
  BY <1>17 DEF DaemonAcquires
<2>3. (daemon = "unload" => IdleDue)'
  BY <1>17 DEF DaemonAcquires
<2>4. DeviceIsSelected' /\ WhisperStays'
  BY <1>17 DEF DaemonAcquires, DeviceIsSelected, WhisperStays
<2>5. StageHasItsModel'
  BY <1>17 DEF DaemonAcquires, StageHasItsModel, DeviceIsSelected
<2>6. AlignedInItsLanguage' /\ KeyTellsTheModel'
  BY <1>17 DEF DaemonAcquires, AlignedInItsLanguage, KeyTellsTheModel
<2>7. QED
  BY ONLY <2>1, <2>2, <2>3, <2>4, <2>5, <2>6 DEF IInv
<1>18. CASE DaemonRechecks
<2>1. TypeOK'
  BY <1>18 DEF DaemonRechecks
<2>2. Alone'
  BY <1>18 DEF DaemonRechecks
<2>3. (daemon = "unload" => IdleDue)'
  BY <1>18 DEF DaemonRechecks
<2>4. DeviceIsSelected' /\ WhisperStays'
  BY <1>18 DEF DaemonRechecks, DeviceIsSelected, WhisperStays
<2>5. StageHasItsModel'
  BY <1>18 DEF DaemonRechecks, StageHasItsModel, DeviceIsSelected
<2>6. AlignedInItsLanguage' /\ KeyTellsTheModel'
  BY <1>18 DEF DaemonRechecks, AlignedInItsLanguage, KeyTellsTheModel
<2>7. QED
  BY ONLY <2>1, <2>2, <2>3, <2>4, <2>5, <2>6 DEF IInv
<1>19. CASE UnloadModels
<2>1. TypeOK'
  BY <1>19 DEF UnloadModels
<2>2. Alone'
  BY <1>19 DEF UnloadModels
<2>3. (daemon = "unload" => IdleDue)'
  BY <1>19 DEF UnloadModels
<2>4. DeviceIsSelected' /\ WhisperStays'
  BY <1>19 DEF UnloadModels, DeviceIsSelected, WhisperStays
<2>5. StageHasItsModel'
  BY <1>19 DEF UnloadModels, StageHasItsModel, DeviceIsSelected
<2>6. AlignedInItsLanguage' /\ KeyTellsTheModel'
  BY <1>19 DEF UnloadModels, AlignedInItsLanguage, KeyTellsTheModel
<2>7. QED
  BY ONLY <2>1, <2>2, <2>3, <2>4, <2>5, <2>6 DEF IInv
<1>20. CASE DaemonReleases
<2>1. TypeOK'
  BY <1>20 DEF DaemonReleases
<2>2. Alone'
  BY <1>20 DEF DaemonReleases
<2>3. (daemon = "unload" => IdleDue)'
  BY <1>20 DEF DaemonReleases
<2>4. DeviceIsSelected' /\ WhisperStays'
  BY <1>20 DEF DaemonReleases, DeviceIsSelected, WhisperStays
<2>5. StageHasItsModel'
  BY <1>20 DEF DaemonReleases, StageHasItsModel, DeviceIsSelected
<2>6. AlignedInItsLanguage' /\ KeyTellsTheModel'
  BY <1>20 DEF DaemonReleases, AlignedInItsLanguage, KeyTellsTheModel
<2>7. QED
  BY ONLY <2>1, <2>2, <2>3, <2>4, <2>5, <2>6 DEF IInv
<1>21. CASE Tick
<2>1. TypeOK'
  BY <1>21 DEF Tick
<2>2. Alone'
  BY <1>21 DEF Tick
<2>3. (daemon = "unload" => IdleDue)'
  BY <1>21 DEF Tick
<2>4. DeviceIsSelected' /\ WhisperStays'
  BY <1>21 DEF Tick, DeviceIsSelected, WhisperStays
<2>5. StageHasItsModel'
  BY <1>21 DEF Tick, StageHasItsModel, DeviceIsSelected
<2>6. AlignedInItsLanguage' /\ KeyTellsTheModel'
  BY <1>21 DEF Tick, AlignedInItsLanguage, KeyTellsTheModel
<2>7. QED
  BY ONLY <2>1, <2>2, <2>3, <2>4, <2>5, <2>6 DEF IInv
<1>22. CASE UNCHANGED vars
  BY <1>22 DEF vars, DeviceIsSelected, WhisperStays, KeyTellsTheModel, StageHasItsModel, AlignedInItsLanguage
<1>23. ASSUME NEW t \in Thread, Run(t) PROVE IInv'
  BY ONLY <1>23, <1>2, <1>3, <1>4, <1>5, <1>6, <1>7, <1>8, <1>9, <1>10, <1>11, <1>12, <1>13, <1>14, <1>15 DEF Run
<1>24. QED
  BY ONLY [Next]_vars, <1>22, <1>23, <1>1, <1>16, <1>17, <1>18, <1>19, <1>20, <1>21
     DEF Next, Daemon

-----------------------------------------------------------------------------
(* The inductive invariant holds in every reachable state.                 *)
THEOREM Invariance == Spec => []IInv
  BY InitInv, StepInv, PTL DEF Spec

(* Type correctness: the semaphore, a binary one by its initial value, is  *)
(* taken by exactly those that are inside, also after a job that raises.   *)
THEOREM TypeCorrect == Spec => []TypeOK
<1>1. IInv => TypeOK
  BY DEF IInv
<1>2. QED
  BY <1>1, Invariance, PTL

(* No model is taken away from a stage that works with it.                 *)
THEOREM ModelsStayWhileUsed == Spec => []StageHasItsModel
<1>1. IInv => StageHasItsModel
  BY DEF IInv
<1>2. QED
  BY <1>1, Invariance, PTL

(* A recording is aligned with the model of its own language.              *)
THEOREM AlignmentFitsItsJob == Spec => []AlignedInItsLanguage
<1>1. IInv => AlignedInItsLanguage
  BY DEF IInv
<1>2. QED
  BY <1>1, Invariance, PTL

(* A job never leaves the runtime without models: the aligner empties only *)
(* its own cache, and Whisper was loaded before.                           *)
LEMMA JobsKeepModels ==
  ASSUME IInv, NEW t \in Thread, Run(t), HasLoadedModels
  PROVE  HasLoadedModels'
<1> USE DEF HasLoadedModels, models
<1>1. CASE stage[t] = "align"
<2>1. resident["whisper"] # Nothing
  BY <1>1 DEF IInv, WhisperStays
<2>2. resident' = resident
  BY <1>1 DEF Run, Enter, Reuse, SelectDevice, Load, Use, MoveToDevice, NoOneToEmbed, JobRaises,
              AlignReuse, AlignForget, AlignLoad, AlignEnds, Finish, Leave, Model
<2>3. QED
  BY <2>1, <2>2 DEF Model
<1>2. ASSUME NEW m \in Model, Load(t, m) PROVE HasLoadedModels'
<2>1. resident'[m] # Nothing
  BY <1>2, NothingAssumption DEF Load, IInv, TypeOK, DeviceIsSelected
<2>2. QED
  BY <2>1
<1>3. CASE MoveToDevice(t)
<2>1. resident'["diarization"] # Nothing
  BY <1>3 DEF MoveToDevice, IInv, TypeOK, DeviceIsSelected, Model
<2>2. QED
  BY <2>1 DEF Model
<1>4. CASE stage[t] # "align" /\ ~ MoveToDevice(t) /\ \A m \in Model : ~ Load(t, m)
<2>1. resident' = resident /\ align' = align
  BY <1>4 DEF Run, Enter, Reuse, SelectDevice, Use, NoOneToEmbed, JobRaises,
              AlignReuse, AlignForget, AlignLoad, AlignEnds, Finish, Leave
<2>2. QED
  BY <2>1
<1>5. QED
  BY <1>1, <1>2, <1>3, <1>4

(* The repeated check makes the daemon's decision current: models go only  *)
(* when nobody is inside and the timeout has passed since the last job.    *)
THEOREM UnloadIsNeverStale == Spec => UnloadsOnlyWhenIdle
<1>1. IInv /\ [Next]_vars =>
        [HasLoadedModels /\ ~ HasLoadedModels' =>
           IdleDue /\ \A t \in Thread : ~ Inside(t)]_vars
<2> SUFFICES ASSUME IInv, [Next]_vars, HasLoadedModels, ~ HasLoadedModels'
             PROVE  IdleDue /\ \A t \in Thread : ~ Inside(t)
  OBVIOUS
<2>1. CASE UnloadModels
  BY <2>1 DEF UnloadModels, IInv, Alone, DaemonInside
<2>2. ASSUME ~ UnloadModels, ~ \E t \in Thread : Run(t) PROVE HasLoadedModels'
<3>1. resident' = resident /\ align' = align
  BY <2>2 DEF Next, Arrive, Daemon, DaemonChecks, DaemonAcquires, DaemonRechecks, DaemonReleases,
              Tick, vars, models
<3>2. QED
  BY <3>1 DEF HasLoadedModels
<2>3. QED
  BY <2>1, <2>2, JobsKeepModels
<1>2. QED
  BY <1>1, Invariance, PTL DEF Spec, UnloadsOnlyWhenIdle
=============================================================================
