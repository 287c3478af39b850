----------------------------- MODULE JobService -----------------------------
(***************************************************************************)
(* The life of a transcription job, from POST /api/transcribe to the last  *)
(* statement of its worker thread.                                         *)
(*                                                                         *)
(* One process serves the API: its event loop runs one request handler at  *)
(* a time (a handler gives the loop up only while the upload is streamed   *)
(* to disk), and every accepted job runs in a daemon thread of its own.    *)
(* Handler and threads share the jobs dictionary, the in-flight table and  *)
(* the GPU semaphore, all lost when the process dies, and three kinds of   *)
(* file that survive it: status.json and result.json of each job, and the  *)
(* hash index.                                                             *)
(*                                                                         *)
(* Job ids are opaque in the code.  Here they are numbered in the order in *)
(* which the handler inserts them in the jobs dictionary, so the oldest    *)
(* entry of that OrderedDict is the one with the least id.                 *)
(*                                                                         *)
(* A definition named like another with a suffix (ClaimUnchecked before    *)
(* Claim) is a seeded fault: the action with one mistake a change to the   *)
(* code could make.  No behaviour uses it; PROJECT.json names the property *)
(* that notices when it takes the place of the action.                     *)
(***************************************************************************)
EXTENDS Naturals, FiniteSets

CONSTANTS Hash,        \* contents an upload can have, named by their SHA-256
          NoHash,      \* the audio of an id not used yet
          CacheSize,   \* JOBS_MAX_CACHE
          MaxJobs,     \* bound: job ids the run may use
          MaxCrashes,  \* bound: times the process may die
          MaxFaults    \* bound: disk writes that may fail

ASSUME HashAssumption  == NoHash \notin Hash
ASSUME CacheAssumption == CacheSize \in Nat \ {0}
ASSUME BoundAssumption == MaxJobs \in Nat /\ MaxCrashes \in Nat /\ MaxFaults \in Nat

Job   == 1..MaxJobs
NoJob == 0

Stage      == {"converting", "denoising", "transcribing", "identifying"}
InProgress == {"queued"} \cup Stage
Terminal   == {"completed", "failed"}
Absent     == "absent"
Status     == InProgress \cup Terminal \cup {Absent}

VARIABLES
  up,         \* the process is serving
  req,        \* the request handler: its program point, upload and job
  mem,        \* jobs[id]["status"], Absent when the dictionary has no entry
  memResult,  \* ids whose entry has a "result" key
  inFlight,   \* _in_flight_hashes
  sem,        \* value of _gpu_sem
  worker,     \* the program point of each job's thread
  status,     \* status.json of each job
  result,     \* ids with a result.json
  index,      \* hash_index.json
  audio,      \* the content uploaded for each id
  nextJob,    \* the next unused id
  crashes, faults

memory  == <<mem, memResult>>
durable == <<status, result, index>>
ids     == <<audio, nextJob>>
budget  == <<crashes, faults>>
vars    == <<up, req, memory, inFlight, sem, worker, durable, ids, budget>>

-----------------------------------------------------------------------------
(* Program points.                                                         *)

Answered   == {"created", "dedup_done", "dedup_flight", "refused"}
Ready      == {"idle"} \cup Answered
HandlerPC  == Ready \cup {"bootstrap", "persist", "claim", "start"}

OnGpu      == Stage \cup {"artifacts", "unlock", "unwind"}
Committing == {"register", "mem_status", "mem_result", "write_done"}
Failing    == {"mem_failed", "mem_error", "write_failed"}
Running    == {"wait_gpu"} \cup OnGpu \cup Committing \cup Failing \cup {"release"}
WorkerPC   == {"none"} \cup Running \cup {"done", "dead"}

(* The stages whose callback may come next: "denoising" is reported only   *)
(* when a denoiser is configured.                                          *)
After(stage) ==
  CASE stage = "converting"   -> {"denoising", "transcribing"}
    [] stage = "denoising"    -> {"transcribing"}
    [] stage = "transcribing" -> {"identifying"}
    [] stage = "identifying"  -> {"artifacts"}

-----------------------------------------------------------------------------
(* The stores.                                                             *)

Cached(j) == mem[j] # Absent

Oldest(keys) == CHOOSE k \in keys : \A l \in keys : k <= l

(* The dictionary after jobs[j] = {"status": s}.                           *)
SetItem(j, s) ==
  LET grown == [mem EXCEPT ![j] = s]
      keys  == {k \in Job : grown[k] # Absent}
  IN  IF Cardinality(keys) > CacheSize
        THEN [grown EXCEPT ![Oldest(keys)] = Absent]
        ELSE grown

(* status.json of j once _write_status(j, s) has returned.  A failed write *)
(* leaves the old file; every caller but the first write ignores that.     *)
WriteStatus(j, s) ==
  \/ status' = [status EXCEPT ![j] = s] /\ faults' = faults
  \/ faults < MaxFaults /\ faults' = faults + 1 /\ status' = status

LookupHash(h) ==
  IF index[h] # NoJob /\ index[h] \in result THEN index[h] ELSE NoJob

UnregisterInFlight(h, j) ==
  IF inFlight[h] = j THEN [inFlight EXCEPT ![h] = NoJob] ELSE inFlight

OrphansNotFiltered == {j \in Job : status[j] # Absent}

Orphans == {j \in Job : status[j] \in InProgress}

-----------------------------------------------------------------------------
Init ==
  /\ up = TRUE
  /\ req = [pc |-> "idle", hash |-> NoHash, job |-> NoJob]
  /\ mem = [j \in Job |-> Absent]
  /\ memResult = {}
  /\ inFlight = [h \in Hash |-> NoJob]
  /\ sem = 1
  /\ worker = [j \in Job |-> "none"]
  /\ status = [j \in Job |-> Absent]
  /\ result = {}
  /\ index = [h \in Hash |-> NoJob]
  /\ audio = [j \in Job |-> NoHash]
  /\ nextJob = 1
  /\ crashes = 0
  /\ faults = 0

-----------------------------------------------------------------------------
(* POST /api/transcribe, after its upload has been saved and hashed.       *)

(* The hash index knows the content: answer with the finished job.         *)
UploadKnown(h) ==
  /\ up /\ req.pc \in Ready
  /\ LookupHash(h) # NoJob
  /\ req' = [pc |-> "dedup_done", hash |-> h, job |-> LookupHash(h)]
  /\ UNCHANGED <<up, memory, inFlight, sem, worker, durable, ids, budget>>

UploadNew(h) ==
  /\ up /\ req.pc \in Ready
  /\ LookupHash(h) = NoJob
  /\ nextJob \in Job
  /\ req' = [pc |-> "bootstrap", hash |-> h, job |-> nextJob]
  /\ audio' = [audio EXCEPT ![nextJob] = h]
  /\ nextJob' = nextJob + 1
  /\ UNCHANGED <<up, memory, inFlight, sem, worker, durable, budget>>

Bootstrap ==
  /\ req.pc = "bootstrap"
  /\ mem' = SetItem(req.job, "queued")
  /\ memResult' = {j \in memResult : mem'[j] # Absent}
  /\ req' = [req EXCEPT !.pc = "persist"]
  /\ UNCHANGED <<up, inFlight, sem, worker, durable, ids, budget>>

PersistQueued ==
  /\ req.pc = "persist"
  /\ status' = [status EXCEPT ![req.job] = "queued"]
  /\ req' = [req EXCEPT !.pc = "claim"]
  /\ UNCHANGED <<up, memory, inFlight, sem, worker, result, index, ids, budget>>

PersistQueuedIgnored ==
  /\ req.pc = "persist"
  /\ faults < MaxFaults /\ faults' = faults + 1
  /\ req' = [req EXCEPT !.pc = "claim"]
  /\ UNCHANGED <<up, memory, inFlight, sem, worker, durable, ids, crashes>>

(* The first status.json could not be written: the entry is discarded and  *)
(* the request answered with 503.                                          *)
PersistQueuedFails ==
  /\ req.pc = "persist"
  /\ faults < MaxFaults /\ faults' = faults + 1
  /\ mem' = [mem EXCEPT ![req.job] = Absent]
  /\ req' = [req EXCEPT !.pc = "refused"]
  /\ UNCHANGED <<up, memResult, inFlight, sem, worker, durable, ids, crashes>>

ClaimUnchecked ==
  /\ req.pc = "claim"
  /\ inFlight' = [inFlight EXCEPT ![req.hash] = req.job]
  /\ req' = [req EXCEPT !.pc = "start"]
  /\ UNCHANGED <<up, memory, sem, worker, durable, ids, budget>>

Claim ==
  /\ req.pc = "claim"
  /\ inFlight[req.hash] = NoJob
  /\ inFlight' = [inFlight EXCEPT ![req.hash] = req.job]
  /\ req' = [req EXCEPT !.pc = "start"]
  /\ UNCHANGED <<up, memory, sem, worker, durable, ids, budget>>

ClaimTakenDiscardsOwner ==
  /\ req.pc = "claim"
  /\ inFlight[req.hash] # NoJob
  /\ mem' = [mem EXCEPT ![inFlight[req.hash]] = Absent]
  /\ status' = [status EXCEPT ![inFlight[req.hash]] = Absent]
  /\ req' = [req EXCEPT !.pc = "dedup_flight", !.job = inFlight[req.hash]]
  /\ UNCHANGED <<up, memResult, inFlight, sem, worker, result, index, ids, budget>>

(* Another job owns the content: the new one is discarded, with its        *)
(* status.json, and the answer names the owner.                            *)
ClaimTaken ==
  /\ req.pc = "claim"
  /\ inFlight[req.hash] # NoJob
  /\ mem' = [mem EXCEPT ![req.job] = Absent]
  /\ status' = [status EXCEPT ![req.job] = Absent]
  /\ req' = [req EXCEPT !.pc = "dedup_flight", !.job = inFlight[req.hash]]
  /\ UNCHANGED <<up, memResult, inFlight, sem, worker, result, index, ids, budget>>

StartThread ==
  /\ req.pc = "start"
  /\ worker' = [worker EXCEPT ![req.job] = "wait_gpu"]
  /\ req' = [req EXCEPT !.pc = "created"]
  /\ UNCHANGED <<up, memory, inFlight, sem, durable, ids, budget>>

StartThreadFailsKeepsClaim ==
  /\ req.pc = "start"
  /\ mem' = [mem EXCEPT ![req.job] = "failed"]
  /\ WriteStatus(req.job, "failed")
  /\ req' = [req EXCEPT !.pc = "refused"]
  /\ UNCHANGED <<up, memResult, inFlight, sem, worker, result, index, ids, crashes>>

StartThreadFails ==
  /\ req.pc = "start"
  /\ mem' = [mem EXCEPT ![req.job] = "failed"]
  /\ WriteStatus(req.job, "failed")
  /\ inFlight' = UnregisterInFlight(req.hash, req.job)
  /\ req' = [req EXCEPT !.pc = "refused"]
  /\ UNCHANGED <<up, memResult, sem, worker, result, index, ids, crashes>>

(* The steps a handler takes once it has begun.                            *)
Handler ==
  \/ Bootstrap \/ PersistQueued \/ PersistQueuedFails
  \/ Claim \/ ClaimTaken \/ StartThread \/ StartThreadFails

-----------------------------------------------------------------------------
(* The worker thread, run_transcription.                                   *)

Goto(j, pc) == worker' = [worker EXCEPT ![j] = pc]

AcquireGpuUnguarded(j) ==
  /\ worker[j] = "wait_gpu"
  /\ sem' = 0
  /\ Goto(j, "converting")
  /\ UNCHANGED <<up, req, memory, inFlight, durable, ids, budget>>

AcquireGpu(j) ==
  /\ worker[j] = "wait_gpu"
  /\ sem > 0
  /\ sem' = sem - 1
  /\ Goto(j, "converting")
  /\ UNCHANGED <<up, req, memory, inFlight, durable, ids, budget>>

(* A stage reports itself through _record_status: memory, then disk.  The  *)
(* two are one step because nothing reads both between them.               *)
RecordStatus(j) ==
  /\ worker[j] \in Stage
  /\ Cached(j)
  /\ mem' = [mem EXCEPT ![j] = worker[j]]
  /\ WriteStatus(j, worker[j])
  /\ \E next \in After(worker[j]) : Goto(j, next)
  /\ UNCHANGED <<up, req, memResult, inFlight, sem, result, index, ids, crashes>>

PipelineRaisesReleasesTwice(j) ==
  /\ worker[j] \in Stage \cup {"artifacts"}
  /\ sem' = sem + 1
  /\ Goto(j, "unwind")
  /\ UNCHANGED <<up, req, memory, inFlight, durable, ids, budget>>

PipelineRaisesKeepsGpu(j) ==
  /\ worker[j] \in Stage \cup {"artifacts"}
  /\ Goto(j, "mem_failed")
  /\ UNCHANGED <<up, req, memory, inFlight, sem, durable, ids, budget>>

(* A stage raises, or _record_status does because the entry is gone.       *)
PipelineRaises(j) ==
  /\ worker[j] \in Stage \cup {"artifacts"}
  /\ Goto(j, "unwind")
  /\ UNCHANGED <<up, req, memory, inFlight, sem, durable, ids, budget>>

PersistNothing(j) ==
  /\ worker[j] = "artifacts"
  /\ Goto(j, "unlock")
  /\ UNCHANGED <<up, req, memory, inFlight, sem, durable, ids, budget>>

PersistResult(j) ==
  /\ worker[j] = "artifacts"
  /\ result' = result \cup {j}
  /\ Goto(j, "unlock")
  /\ UNCHANGED <<up, req, memory, inFlight, sem, status, index, ids, budget>>

(* An embedding could not be saved and the rollback could not remove       *)
(* result.json either.                                                     *)
RollbackFails(j) ==
  /\ worker[j] = "artifacts"
  /\ faults < MaxFaults /\ faults' = faults + 1
  /\ result' = result \cup {j}
  /\ Goto(j, "unwind")
  /\ UNCHANGED <<up, req, memory, inFlight, sem, status, index, ids, crashes>>

(* Leaving run_serialized_gpu_work, by return or by exception.             *)
ReleaseGpu(j) ==
  /\ worker[j] \in {"unlock", "unwind"}
  /\ sem' = sem + 1
  /\ Goto(j, IF worker[j] = "unlock" THEN "register" ELSE "mem_failed")
  /\ UNCHANGED <<up, req, memory, inFlight, durable, ids, budget>>

RegisterNothing(j) ==
  /\ worker[j] = "register"
  /\ Goto(j, "mem_status")
  /\ UNCHANGED <<up, req, memory, inFlight, sem, durable, ids, budget>>

RegisterHash(j) ==
  /\ worker[j] = "register"
  /\ index' = [index EXCEPT ![audio[j]] = j]
  /\ Goto(j, "mem_status")
  /\ UNCHANGED <<up, req, memory, inFlight, sem, status, result, ids, budget>>

RegisterHashFails(j) ==
  /\ worker[j] = "register"
  /\ faults < MaxFaults /\ faults' = faults + 1
  /\ Goto(j, "mem_failed")
  /\ UNCHANGED <<up, req, memory, inFlight, sem, durable, ids, crashes>>

(* jobs[id]["status"] = "completed", then jobs[id]["result"] = tr: two     *)
(* look-ups, each a KeyError once the entry is gone.                       *)
SetCompleted(j) ==
  /\ worker[j] = "mem_status" /\ Cached(j)
  /\ mem' = [mem EXCEPT ![j] = "completed"]
  /\ Goto(j, "mem_result")
  /\ UNCHANGED <<up, req, memResult, inFlight, sem, durable, ids, budget>>

SetResultRaises(j) ==
  /\ worker[j] = "mem_result"
  /\ Goto(j, "mem_failed")
  /\ UNCHANGED <<up, req, memory, inFlight, sem, durable, ids, budget>>

SetResult(j) ==
  /\ worker[j] = "mem_result" /\ Cached(j)
  /\ memResult' = memResult \cup {j}
  /\ Goto(j, "write_done")
  /\ UNCHANGED <<up, req, mem, inFlight, sem, durable, ids, budget>>

EntryGone(j) ==
  /\ worker[j] \in {"mem_status", "mem_result"} /\ ~ Cached(j)
  /\ Goto(j, "mem_failed")
  /\ UNCHANGED <<up, req, memory, inFlight, sem, durable, ids, budget>>

WriteCompleted(j) ==
  /\ worker[j] = "write_done"
  /\ WriteStatus(j, "completed")
  /\ Goto(j, "release")
  /\ UNCHANGED <<up, req, memory, inFlight, sem, result, index, ids, crashes>>

(* The except clause sets the status and the error, again two look-ups.    *)
SetFailed(j) ==
  /\ worker[j] = "mem_failed" /\ Cached(j)
  /\ mem' = [mem EXCEPT ![j] = "failed"]
  /\ Goto(j, "mem_error")
  /\ UNCHANGED <<up, req, memResult, inFlight, sem, durable, ids, budget>>

SetError(j) ==
  /\ worker[j] = "mem_error" /\ Cached(j)
  /\ Goto(j, "write_failed")
  /\ UNCHANGED <<up, req, memory, inFlight, sem, durable, ids, budget>>

(* One of them raises: the thread ends there, with status.json and the     *)
(* in-flight entry as they were.                                           *)
ThreadDies(j) ==
  /\ worker[j] \in {"mem_failed", "mem_error"} /\ ~ Cached(j)
  /\ Goto(j, "dead")
  /\ UNCHANGED <<up, req, memory, inFlight, sem, durable, ids, budget>>

WriteFailedKeepsClaim(j) ==
  /\ worker[j] = "write_failed"
  /\ WriteStatus(j, "failed")
  /\ Goto(j, "done")
  /\ UNCHANGED <<up, req, memory, inFlight, sem, result, index, ids, crashes>>

WriteFailed(j) ==
  /\ worker[j] = "write_failed"
  /\ WriteStatus(j, "failed")
  /\ Goto(j, "release")
  /\ UNCHANGED <<up, req, memory, inFlight, sem, result, index, ids, crashes>>

ReleaseClaim(j) ==
  /\ worker[j] = "release"
  /\ inFlight' = UnregisterInFlight(audio[j], j)
  /\ Goto(j, "done")
  /\ UNCHANGED <<up, req, memory, sem, durable, ids, budget>>

Worker(j) ==
  \/ AcquireGpu(j) \/ RecordStatus(j) \/ PipelineRaises(j)
  \/ PersistResult(j) \/ RollbackFails(j) \/ ReleaseGpu(j)
  \/ RegisterHash(j) \/ RegisterHashFails(j)
  \/ SetCompleted(j) \/ SetResult(j) \/ EntryGone(j) \/ WriteCompleted(j)
  \/ SetFailed(j) \/ SetError(j) \/ ThreadDies(j) \/ WriteFailed(j)
  \/ ReleaseClaim(j)

-----------------------------------------------------------------------------
(* The process dies, and with it its daemon threads and its memory.        *)
Crash ==
  /\ up /\ crashes < MaxCrashes
  /\ up' = FALSE
  /\ crashes' = crashes + 1
  /\ req' = [pc |-> "idle", hash |-> NoHash, job |-> NoJob]
  /\ mem' = [j \in Job |-> Absent]
  /\ memResult' = {}
  /\ inFlight' = [h \in Hash |-> NoJob]
  /\ sem' = 1
  /\ worker' = [j \in Job |-> "none"]
  /\ UNCHANGED <<durable, ids, faults>>

RestartWithoutRecovery ==
  /\ ~ up
  /\ up' = TRUE
  /\ UNCHANGED <<req, memory, inFlight, sem, worker, durable, ids, budget>>

(* recover_orphan_jobs, before the process serves again.  It goes on after *)
(* a file it cannot rewrite: those are in lost.                            *)
Restart ==
  /\ ~ up
  /\ \E lost \in SUBSET Orphans :
       /\ lost # {} => faults < MaxFaults
       /\ faults' = IF lost = {} THEN faults ELSE faults + 1
       /\ status' = [j \in Job |->
                       IF j \in Orphans \ lost THEN "failed" ELSE status[j]]
  /\ up' = TRUE
  /\ UNCHANGED <<req, memory, inFlight, sem, worker, result, index, ids, crashes>>

(* Nobody calls and no thread runs: the service may rest.                  *)
Rest ==
  /\ up /\ req.pc \in Ready
  /\ \A j \in Job : worker[j] \notin Running
  /\ UNCHANGED vars

Next ==
  \/ \E h \in Hash : UploadKnown(h) \/ UploadNew(h)
  \/ Handler
  \/ \E j \in Job : Worker(j)
  \/ Crash \/ Restart
  \/ Rest

Spec == Init /\ [][Next]_vars

(* The event loop finishes a handler it has begun, the operating system    *)
(* schedules every thread, and the container is restarted when it dies     *)
(* ("restart: unless-stopped").  Nobody has to upload anything, no crash   *)
(* and no failure has to happen, and the semaphore owes its waiters only   *)
(* weak fairness: each thread takes it once.                               *)
Fairness ==
  /\ WF_vars(Handler)
  /\ \A j \in Job : WF_vars(Worker(j))
  /\ WF_vars(Restart)

FairSpec == Spec /\ Fairness

-----------------------------------------------------------------------------
(* Properties.                                                             *)

(* Every variable stays in its type; in particular the semaphore is never  *)
(* released twice, whichever way the pipeline is left.                     *)
TypeOK ==
  /\ up \in BOOLEAN
  /\ req \in [pc : HandlerPC, hash : Hash \cup {NoHash}, job : Job \cup {NoJob}]
  /\ mem \in [Job -> Status]
  /\ memResult \in SUBSET Job
  /\ inFlight \in [Hash -> Job \cup {NoJob}]
  /\ sem \in {0, 1}
  /\ worker \in [Job -> WorkerPC]
  /\ status \in [Job -> Status]
  /\ result \in SUBSET Job
  /\ index \in [Hash -> Job \cup {NoJob}]
  /\ audio \in [Job -> Hash \cup {NoHash}]
  /\ nextJob \in Nat \ {0}
  /\ crashes \in Nat
  /\ faults \in Nat

(* run_serialized_gpu_work: at most one thread is inside the pipeline, on  *)
(* every path in and out of it.                                            *)
GpuExclusive ==
  \A j, k \in Job : worker[j] \in OnGpu /\ worker[k] \in OnGpu => j = k

(* "In-flight dedup": no two threads of the process work on the same       *)
(* content at once, although the look-up, the claim and the release of a   *)
(* hash are made by different threads at different times.                  *)
OneWorkerPerAudio ==
  \A j, k \in Job :
    worker[j] \in Running /\ worker[k] \in Running /\ audio[j] = audio[k] => j = k

(* A job a duplicate upload can be redirected to has a status.json, even   *)
(* after its entry was evicted or a later write failed.                    *)
DedupTargetDurable ==
  \A h \in Hash : inFlight[h] # NoJob =>
    status[inFlight[h]] # Absent /\ audio[inFlight[h]] = h

(* A job whose status.json says completed has its result.json, and a new   *)
(* upload of its content is answered from the index.                       *)
CompletedIsFindable ==
  \A j \in Job : status[j] = "completed" => j \in result /\ LookupHash(audio[j]) # NoJob

(* A terminal status.json is never rewritten: not by the worker's except   *)
(* clause, not by a handler, not by the recovery after a restart.          *)
TerminalIsFinal ==
  [][\A j \in Job : status[j] \in Terminal => status'[j] = status[j]]_vars

(* The service keeps the contract for the durable outcome of its jobs.     *)
OutcomeOf(s) ==
  CASE s = Absent     -> "none"
    [] s = "completed" -> "completed"
    [] s = "failed"    -> "failed"
    [] OTHER           -> "accepted"

Contract == INSTANCE JobContract WITH
              outcome  <- [j \in Job |-> OutcomeOf(status[j])],
              artifact <- result

KeepsContract == Contract!Spec

(* "Cleared when the job reaches a terminal state": the owner of an        *)
(* in-flight content is a job that still has a thread to finish it, or one *)
(* the handler is about to give a thread.                                  *)
OwnerIsLive ==
  \A h \in Hash : inFlight[h] # NoJob =>
    \/ worker[inFlight[h]] \in Running
    \/ req.pc = "start" /\ req.job = inFlight[h]

(* While the process serves, a status.json that says a job is under way    *)
(* belongs to a thread, or to the request being handled: what a client     *)
(* reads there as progress is progress.                                    *)
NoOrphanStatus ==
  up => \A j \in Orphans :
          worker[j] \in Running \/ (req.job = j /\ req.pc \in {"claim", "start"})

(* Every job that got a status.json reaches a terminal one, across a       *)
(* restart too, unless it was discarded as a duplicate.                    *)
EveryJobSettles ==
  \A j \in Job : (status[j] \in InProgress) ~> (status[j] \notin InProgress)

(* A content does not stay in flight for ever: uploads of it are not       *)
(* redirected to the same job without end.                                 *)
ClaimIsReleased ==
  \A h \in Hash, j \in Job : (inFlight[h] = j) ~> (inFlight[h] # j)
=============================================================================
