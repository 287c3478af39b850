----------------------------- MODULE GpuRuntime -----------------------------
(***************************************************************************)
(* The models a job uses on the GPU: loaded when a stage first needs them, *)
(* kept for the next job, and unloaded by the idle-unload daemon once no   *)
(* job has finished for MODEL_IDLE_TIMEOUT_SEC.                            *)
(*                                                                         *)
(* Job threads and the daemon share the GPU semaphore, the time of the     *)
(* last finished job and the attributes of the one TranscriptionPipeline.  *)
(* A thread here serves one job after another; what JobService does        *)
(* outside run_serialized_gpu_work is left out.  The clock is the time     *)
(* since a job last finished, in units of which Timeout make the idle      *)
(* timeout; it stops counting there, as nothing compares it further.       *)
(*                                                                         *)
(* An operator placed before the one it resembles (AlignForgetsKeyLate,    *)
(* FinishUnrecorded, DaemonTrustsFirstCheck...) is that operator with a    *)
(* plausible bug in it, which the properties are tried against.  No        *)
(* action uses it.                                                         *)
(***************************************************************************)
EXTENDS Integers

CONSTANTS Thread,    \* worker threads
          Language,  \* languages a recording can be in
          Device,    \* visible CUDA devices
          Nothing,   \* Python's None
          Host,      \* the memory of the CPU, where pyannote loads a model
          Timeout    \* the idle timeout, in clock units

ASSUME NothingAssumption == Nothing \notin Language \cup Device \cup {Host} /\ Host \notin Device
ASSUME TimeoutAssumption == Timeout \in Nat \ {0}

Model == {"whisper", "diarization", "embedding"}
Never == -1

VARIABLES
  sem,       \* value of _gpu_sem
  stage,     \* where each thread is in its job
  step,      \* and in the loading of the model of that stage
  language,  \* the language ASR detected for the thread's job
  resident,  \* where each model's object is, Nothing when it is None
  device,    \* _whisper_device, _diarization_device, _embedding_device
  align,     \* the language of _alignment_model and that of _alignment_cache_key
  age,       \* time since _last_gpu_job_finished_at
  daemon     \* program point of the idle-unload daemon

models == <<resident, device, align>>
vars   == <<sem, stage, step, language, models, age, daemon>>

NoAlignment == [model |-> Nothing, key |-> Nothing]

Working == Model \cup {"align"}
Inside(t) == stage[t] \in Working \cup {"finish", "leave"}
Busy(t) == stage[t] # "none"

HasLoadedModels == align.model # Nothing \/ \E m \in Model : resident[m] # Nothing

IdleDue == age >= Timeout

-----------------------------------------------------------------------------
Init ==
  /\ sem = 1
  /\ stage = [t \in Thread |-> "none"]
  /\ step = [t \in Thread |-> "get"]
  /\ language = [t \in Thread |-> Nothing]
  /\ resident = [m \in Model |-> Nothing]
  /\ device = [m \in Model |-> Nothing]
  /\ align = NoAlignment
  /\ age = Never
  /\ daemon = "asleep"

To(t, st, sp) ==
  /\ stage' = [stage EXCEPT ![t] = st]
  /\ step' = [step EXCEPT ![t] = sp]

-----------------------------------------------------------------------------
(* A job in run_serialized_gpu_work.                                       *)

Arrive(t) ==
  /\ stage[t] = "none"
  /\ To(t, "wait", "get")
  /\ UNCHANGED <<sem, language, models, age, daemon>>

Enter(t) ==
  /\ stage[t] = "wait" /\ sem > 0
  /\ sem' = sem - 1
  /\ To(t, "whisper", "get")
  /\ UNCHANGED <<language, models, age, daemon>>

(* "hot reuse".                                                            *)
Reuse(t, m) ==
  /\ stage[t] = m /\ step[t] = "get"
  /\ resident[m] # Nothing
  /\ To(t, m, "use")
  /\ UNCHANGED <<sem, language, models, age, daemon>>

(* _select_device_for_lazy_load: the device with the most free memory is   *)
(* any of them, but one selected earlier and not unloaded since is kept.   *)
SelectDevice(t, m) ==
  /\ stage[t] = m /\ step[t] = "get"
  /\ resident[m] = Nothing
  /\ \E d \in Device :
       /\ device[m] # Nothing => d = device[m]
       /\ device' = [device EXCEPT ![m] = d]
  /\ To(t, m, "load")
  /\ UNCHANGED <<sem, language, resident, align, age, daemon>>

(* Whisper and the speaker encoder are assigned once they are on their     *)
(* device.  Pyannote's pipeline is assigned first and moved afterwards.    *)
Load(t, m) ==
  /\ stage[t] = m /\ step[t] = "load"
  /\ IF m = "diarization"
       THEN resident' = [resident EXCEPT ![m] = Host] /\ To(t, m, "move")
       ELSE resident' = [resident EXCEPT ![m] = device[m]] /\ To(t, m, "use")
  /\ UNCHANGED <<sem, language, device, align, age, daemon>>

MoveToDevice(t) ==
  /\ stage[t] = "diarization" /\ step[t] = "move"
  /\ resident' = [resident EXCEPT !["diarization"] = device["diarization"]]
  /\ To(t, "diarization", "use")
  /\ UNCHANGED <<sem, language, device, align, age, daemon>>

After == [whisper |-> "diarization", diarization |-> "align", embedding |-> "finish"]

(* The stage is over.  ASR tells the language, and without speech turns    *)
(* no speaker is embedded.                                                 *)
Use(t, m) ==
  /\ stage[t] = m /\ step[t] = "use"
  /\ To(t, After[m], "get")
  /\ IF m = "whisper" THEN \E l \in Language : language' = [language EXCEPT ![t] = l]
                      ELSE UNCHANGED language
  /\ UNCHANGED <<sem, models, age, daemon>>

NoOneToEmbed(t) ==
  /\ stage[t] = "embedding" /\ step[t] = "get"
  /\ To(t, "finish", "get")
  /\ UNCHANGED <<sem, language, models, age, daemon>>

(* A model does not load, does not fit on its device, or fails in use.     *)
JobRaises(t) ==
  /\ stage[t] \in Working
  /\ To(t, "finish", "get")
  /\ UNCHANGED <<sem, language, models, age, daemon>>

(* Forced alignment: the cached model serves if its key fits.              *)
AlignReuse(t) ==
  /\ stage[t] = "align" /\ step[t] = "get"
  /\ align.key = language[t] /\ align.model # Nothing
  /\ To(t, "align", "use")
  /\ UNCHANGED <<sem, language, models, age, daemon>>

AlignForgetsKeyLate(t) ==
  /\ stage[t] = "align" /\ step[t] = "get"
  /\ ~ (align.key = language[t] /\ align.model # Nothing)
  /\ align' = [align EXCEPT !.key = language[t]]
  /\ To(t, "align", "load")
  /\ UNCHANGED <<sem, language, resident, device, age, daemon>>

(* Otherwise the cache is emptied before another one is loaded.            *)
AlignForget(t) ==
  /\ stage[t] = "align" /\ step[t] = "get"
  /\ ~ (align.key = language[t] /\ align.model # Nothing)
  /\ align' = NoAlignment
  /\ To(t, "align", "load")
  /\ UNCHANGED <<sem, language, resident, device, age, daemon>>

AlignLoad(t) ==
  /\ stage[t] = "align" /\ step[t] = "load"
  /\ align' = [model |-> language[t], key |-> language[t]]
  /\ To(t, "align", "use")
  /\ UNCHANGED <<sem, language, resident, device, age, daemon>>

(* Alignment ends: done, disabled for the language, or failed, in which    *)
(* case the job goes on without word times.                                *)
AlignEnds(t) ==
  /\ stage[t] = "align"
  /\ To(t, "embedding", "get")
  /\ UNCHANGED <<sem, language, models, age, daemon>>

FinishUnrecorded(t) ==
  /\ stage[t] = "finish"
  /\ To(t, "leave", "get")
  /\ UNCHANGED <<sem, language, models, age, daemon>>

(* record_gpu_job_finished, in the finally clause.                         *)
Finish(t) ==
  /\ stage[t] = "finish"
  /\ age' = 0
  /\ To(t, "leave", "get")
  /\ UNCHANGED <<sem, language, models, daemon>>

Leave(t) ==
  /\ stage[t] = "leave"
  /\ sem' = sem + 1
  /\ language' = [language EXCEPT ![t] = Nothing]
  /\ To(t, "none", "get")
  /\ UNCHANGED <<models, age, daemon>>

Run(t) ==
  \/ Enter(t)
  \/ \E m \in Model : Reuse(t, m) \/ SelectDevice(t, m) \/ Load(t, m) \/ Use(t, m)
  \/ MoveToDevice(t) \/ NoOneToEmbed(t) \/ JobRaises(t)
  \/ AlignReuse(t) \/ AlignForget(t) \/ AlignLoad(t) \/ AlignEnds(t)
  \/ Finish(t) \/ Leave(t)

-----------------------------------------------------------------------------
(* unload_idle_pipeline_if_due.                                            *)

(* Two reads without a lock, which is why both are repeated below.         *)
DaemonChecks ==
  /\ daemon = "asleep"
  /\ HasLoadedModels /\ IdleDue
  /\ daemon' = "acquire"
  /\ UNCHANGED <<sem, stage, step, language, models, age>>

DaemonAcquiresUnlocked ==
  /\ daemon = "acquire"
  /\ daemon' = "recheck"
  /\ sem' = 0
  /\ UNCHANGED <<stage, step, language, models, age>>

DaemonAcquires ==
  /\ daemon = "acquire" /\ sem > 0
  /\ sem' = sem - 1
  /\ daemon' = "recheck"
  /\ UNCHANGED <<stage, step, language, models, age>>

DaemonReturnsEarly ==
  /\ daemon = "recheck"
  /\ daemon' = IF HasLoadedModels /\ IdleDue THEN "unload" ELSE "asleep"
  /\ UNCHANGED <<sem, stage, step, language, models, age>>

DaemonTrustsFirstCheck ==
  /\ daemon = "recheck"
  /\ daemon' = "unload"
  /\ UNCHANGED <<sem, stage, step, language, models, age>>

DaemonRechecks ==
  /\ daemon = "recheck"
  /\ daemon' = IF HasLoadedModels /\ IdleDue THEN "unload" ELSE "release"
  /\ UNCHANGED <<sem, stage, step, language, models, age>>

UnloadModels ==
  /\ daemon = "unload"
  /\ resident' = [m \in Model |-> Nothing]
  /\ device' = [m \in Model |-> Nothing]
  /\ align' = NoAlignment
  /\ daemon' = "release"
  /\ UNCHANGED <<sem, stage, step, language, age>>

DaemonReleases ==
  /\ daemon = "release"
  /\ sem' = sem + 1
  /\ daemon' = "asleep"
  /\ UNCHANGED <<stage, step, language, models, age>>

Daemon ==
  DaemonChecks \/ DaemonAcquires \/ DaemonRechecks \/ UnloadModels \/ DaemonReleases

Tick ==
  /\ age \in 0..(Timeout - 1)
  /\ age' = age + 1
  /\ UNCHANGED <<sem, stage, step, language, models, daemon>>

Next ==
  \/ \E t \in Thread : Arrive(t) \/ Run(t)
  \/ Daemon
  \/ Tick

Spec == Init /\ [][Next]_vars

(* Jobs that run go on, the daemon wakes every interval and time passes;   *)
(* nobody has to bring a job.                                              *)
FairSpec ==
  /\ Spec
  /\ \A t \in Thread : WF_vars(Run(t))
  /\ WF_vars(Daemon) /\ WF_vars(Tick)

-----------------------------------------------------------------------------
(* Properties.                                                             *)

DaemonInside == daemon \in {"recheck", "unload", "release"}

(* Every variable stays in its type, and the semaphore is taken exactly    *)
(* when one thread, or the daemon, is inside.                              *)
TypeOK ==
  /\ sem \in {0, 1}
  /\ stage \in [Thread -> {"none", "wait", "finish", "leave"} \cup Working]
  /\ step \in [Thread -> {"get", "load", "move", "use"}]
  /\ language \in [Thread -> Language \cup {Nothing}]
  /\ resident \in [Model -> Device \cup {Host, Nothing}]
  /\ device \in [Model -> Device \cup {Nothing}]
  /\ align \in [model : Language \cup {Nothing}, key : Language \cup {Nothing}]
  /\ age \in {Never} \cup 0..Timeout
  /\ daemon \in {"asleep", "acquire", "recheck", "unload", "release"}
  /\ sem = 0 <=> DaemonInside \/ \E t \in Thread : Inside(t)

(* The model a stage works with is not unloaded under it.                  *)
StageHasItsModel ==
  \A t \in Thread, m \in Model :
    stage[t] = m /\ step[t] = "use" => resident[m] # Nothing

(* "Alignment models are now cached by language": a recording is never     *)
(* aligned with the model an earlier one left behind, also after a load    *)
(* that failed half way.                                                   *)
AlignedInItsLanguage ==
  \A t \in Thread :
    stage[t] = "align" /\ step[t] = "use" => align.model = language[t]

(* "a queued or freshly completed job cannot be unloaded based on a stale  *)
(* pre-wait observation": models are dropped only when no job is inside    *)
(* and none has finished for the whole timeout.                            *)
UnloadsOnlyWhenIdle ==
  [][HasLoadedModels /\ ~ HasLoadedModels' =>
       IdleDue /\ \A t \in Thread : ~ Inside(t)]_vars

(* Models left by a job, a failed one too, are given back once nobody      *)
(* brings another.                                                         *)
IdleModelsAreReleased ==
  (HasLoadedModels /\ \A t \in Thread : ~ Busy(t))
    ~> (~ HasLoadedModels \/ \E t \in Thread : Busy(t))

(* A model runs on the device selected for its load.                       *)
RunsOnItsDevice ==
  \A t \in Thread, m \in Model :
    stage[t] = m /\ step[t] = "use" => resident[m] = device[m]
=============================================================================
