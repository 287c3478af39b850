-------------------------- MODULE JobService_proofs --------------------------
(***************************************************************************)
(* Proofs about JobService, for any contents, cache size and bounds.       *)
(***************************************************************************)
EXTENDS JobService, FiniteSetTheorems, TLAPS

Busy == {"bootstrap", "persist", "claim", "start"}

(* The semaphore is taken exactly while a thread is inside the pipeline.   *)
GpuInv ==
  /\ GpuExclusive
  /\ sem = 1 => \A j \in Job : worker[j] \notin OnGpu

(* An id is used from the moment its upload begins, and not before.        *)
IdInv ==
  \A j \in Job :
    /\ j < nextJob => audio[j] \in Hash
    /\ j >= nextJob => worker[j] = "none" /\ status[j] = Absent /\ j \notin result

(* The job of the request being handled has no thread and no artifact yet; *)
(* it owns its content only between the claim and the start.               *)
HandlerInv ==
  req.pc \in Busy =>
    /\ req.job \in Job /\ req.job < nextJob
    /\ req.hash \in Hash /\ audio[req.job] = req.hash
    /\ worker[req.job] = "none" /\ req.job \notin result
    /\ req.pc \in {"bootstrap", "persist"} => status[req.job] = Absent
    /\ req.pc \in {"claim", "start"} => status[req.job] = "queued"
    /\ req.pc # "start" => \A h \in Hash : inFlight[h] # req.job
    /\ req.pc = "start" => inFlight[req.hash] = req.job

(* A thread owns its content until it releases it (a dead one for ever),   *)
(* its status.json is not terminal before its last write, and what it has  *)
(* stored so far is where its program point says.                          *)
WorkerInv ==
  \A j \in Job :
    /\ worker[j] \in Running \cup {"dead"} => inFlight[audio[j]] = j
    /\ worker[j] \in (Running \ {"release"}) \cup {"dead"} => status[j] \in InProgress
    /\ worker[j] \in Committing \cup {"unlock"} => j \in result
    /\ worker[j] \in Committing \ {"register"} => index[audio[j]] # NoJob

(* The hash index names jobs of that content that have a result.json.      *)
IndexInv ==
  \A h \in Hash : index[h] # NoJob => index[h] \in result /\ audio[index[h]] = h

DoneInv ==
  \A j \in Job : status[j] = "completed" => j \in result /\ index[audio[j]] # NoJob

(* A dead process has no threads and handles no request.                   *)
DownInv == ~ up => req.pc = "idle" /\ \A j \in Job : worker[j] = "none"

IInv ==
  /\ TypeOK
  /\ GpuInv
  /\ IdInv
  /\ HandlerInv
  /\ WorkerInv
  /\ DedupTargetDurable
  /\ IndexInv
  /\ DoneInv
  /\ DownInv

-----------------------------------------------------------------------------
(* Eviction keeps the dictionary a map from ids to statuses.               *)
LEMMA SetItemType ==
  ASSUME mem \in [Job -> Status], NEW j \in Job, NEW s \in Status
  PROVE  SetItem(j, s) \in [Job -> Status]
  BY Zenon DEF SetItem, Status, Absent

(* A write of status.json, done or failed, touches one file.               *)
LEMMA WriteStatusEffect ==
  ASSUME status \in [Job -> Status], faults \in Nat,
         NEW j \in Job, NEW s \in Status, WriteStatus(j, s)
  PROVE  /\ status' \in [Job -> Status] /\ faults' \in Nat
         /\ status'[j] \in {status[j], s}
         /\ \A k \in Job \ {j} : status'[k] = status[k]
<1>1. CASE status' = [status EXCEPT ![j] = s] /\ faults' = faults
  BY <1>1
<1>2. CASE faults' = faults + 1 /\ status' = status
  BY <1>2
<1>3. QED
  BY <1>1, <1>2 DEF WriteStatus

(* A service that has never run satisfies the inductive invariant.         *)
LEMMA InitInv == Init => IInv
  BY BoundAssumption DEF Init, IInv, TypeOK, GpuInv, GpuExclusive, IdInv, HandlerInv,
     WorkerInv, DedupTargetDurable, IndexInv, DoneInv, DownInv, Answered, Ready,
     HandlerPC, OnGpu, Committing, Failing, Running, WorkerPC, Busy, Stage, InProgress,
     Terminal, Absent, Status, Job, NoJob

(* Every step of the service preserves the inductive invariant.            *)
(* The steps below expand the program points, the statuses and the parts   *)
(* of the invariant; each names the action it is about.                    *)
LEMMA StepInv == IInv /\ [Next]_vars => IInv'
<1> SUFFICES ASSUME IInv, [Next]_vars PROVE IInv'
  OBVIOUS
<1> USE DEF IInv, TypeOK, GpuInv, GpuExclusive, IdInv, HandlerInv, WorkerInv, DedupTargetDurable, IndexInv, DoneInv, DownInv, Answered, Ready, HandlerPC, OnGpu, Committing, Failing, Running, WorkerPC, Busy, Stage, InProgress, Terminal, Absent, Status, Job, NoJob, vars, memory, durable, ids, budget
<1>1. ASSUME NEW h \in Hash, UploadKnown(h) PROVE IInv'
  BY <1>1, SMTT(30) DEF UploadKnown, LookupHash
<1>2. ASSUME NEW h \in Hash, UploadNew(h) PROVE IInv'
<2>1. TypeOK'
  BY <1>2, HashAssumption, BoundAssumption DEF UploadNew
<2>2. GpuInv'
  BY <1>2, HashAssumption, BoundAssumption DEF UploadNew
<2>3. IdInv'
  BY <1>2, HashAssumption, BoundAssumption DEF UploadNew
<2>4. HandlerInv'
  BY <1>2, HashAssumption, BoundAssumption, SMTT(60) DEF UploadNew
<2>5. WorkerInv'
  BY <1>2, HashAssumption, BoundAssumption DEF UploadNew
<2>6. DedupTargetDurable'
  BY <1>2, HashAssumption, BoundAssumption DEF UploadNew
<2>7. IndexInv'
  BY <1>2, HashAssumption, BoundAssumption DEF UploadNew
<2>8. DoneInv'
  BY <1>2, HashAssumption, BoundAssumption DEF UploadNew
<2>9. DownInv'
  BY <1>2, HashAssumption, BoundAssumption DEF UploadNew
<2>10. QED
  BY <2>1, <2>2, <2>3, <2>4, <2>5, <2>6, <2>7, <2>8, <2>9
<1>3. CASE Bootstrap
  BY <1>3, SetItemType, SMTT(30) DEF Bootstrap
<1>4. CASE PersistQueued
  BY <1>4, SMTT(30) DEF PersistQueued
<1>5. CASE PersistQueuedFails
  BY <1>5, SMTT(30) DEF PersistQueuedFails
<1>6. CASE Claim
  BY <1>6, SMTT(30) DEF Claim
<1>7. CASE ClaimTaken
<2>1. TypeOK'
  BY <1>7 DEF ClaimTaken
<2>2. GpuInv'
  BY <1>7 DEF ClaimTaken
<2>3. IdInv'
  BY <1>7 DEF ClaimTaken
<2>4. HandlerInv'
  BY <1>7 DEF ClaimTaken
<2>5. WorkerInv'
  BY <1>7 DEF ClaimTaken
<2>6. DedupTargetDurable'
  BY <1>7 DEF ClaimTaken
<2>7. IndexInv'
  BY <1>7 DEF ClaimTaken
<2>8. DoneInv'
  BY <1>7 DEF ClaimTaken
<2>9. DownInv'
  BY <1>7 DEF ClaimTaken
<2>10. QED
  BY <2>1, <2>2, <2>3, <2>4, <2>5, <2>6, <2>7, <2>8, <2>9
<1>8. CASE StartThread
  BY <1>8, SMTT(30) DEF StartThread
<1>9. CASE StartThreadFails
<2>0. /\ status' \in [Job -> Status] /\ faults' \in Nat
     /\ status'[req.job] \in {status[req.job], "failed"}
     /\ \A k \in Job \ {req.job} : status'[k] = status[k]
  BY <1>9, WriteStatusEffect DEF StartThreadFails
<2>1. TypeOK'
  BY <1>9, <2>0 DEF StartThreadFails, UnregisterInFlight
<2>2. GpuInv'
  BY <1>9, <2>0 DEF StartThreadFails, UnregisterInFlight
<2>3. IdInv'
  BY <1>9, <2>0 DEF StartThreadFails, UnregisterInFlight
<2>4. HandlerInv'
  BY <1>9, <2>0 DEF StartThreadFails, UnregisterInFlight
<2>5. WorkerInv'
  BY <1>9, <2>0 DEF StartThreadFails, UnregisterInFlight
<2>6. DedupTargetDurable'
  BY <1>9, <2>0 DEF StartThreadFails, UnregisterInFlight
<2>7. IndexInv'
  BY <1>9, <2>0 DEF StartThreadFails, UnregisterInFlight
<2>8. DoneInv'
  BY <1>9, <2>0 DEF StartThreadFails, UnregisterInFlight
<2>9. DownInv'
  BY <1>9, <2>0 DEF StartThreadFails, UnregisterInFlight
<2>10. QED
  BY <2>1, <2>2, <2>3, <2>4, <2>5, <2>6, <2>7, <2>8, <2>9
<1>10. CASE Crash
<2>1. TypeOK'
  <3>1. mem' \in [Job -> Status] /\ worker' \in [Job -> WorkerPC]
    BY <1>10 DEF Crash
  <3>2. inFlight' \in [Hash -> Job \cup {NoJob}]
    BY <1>10 DEF Crash
  <3>3. req' \in [pc : HandlerPC, hash : Hash \cup {NoHash}, job : Job \cup {NoJob}]
    BY <1>10 DEF Crash
  <3>4. up' \in BOOLEAN /\ memResult' \in SUBSET Job /\ sem' \in {0, 1}
    BY <1>10 DEF Crash
  <3>5. /\ status' \in [Job -> Status] /\ result' \in SUBSET Job
        /\ index' \in [Hash -> Job \cup {NoJob}]
        /\ audio' \in [Job -> Hash \cup {NoHash}]
    BY <1>10 DEF Crash
  <3>6. nextJob' \in Nat \ {0} /\ crashes' \in Nat /\ faults' \in Nat
    BY <1>10 DEF Crash
  <3>7. QED
    BY <3>1, <3>2, <3>3, <3>4, <3>5, <3>6, Zenon DEF TypeOK
<2>2. GpuInv'
  BY <1>10, BoundAssumption DEF Crash
<2>3. IdInv'
  BY <1>10, BoundAssumption DEF Crash
<2>4. HandlerInv'
  BY <1>10, BoundAssumption DEF Crash
<2>5. WorkerInv'
  BY <1>10, BoundAssumption DEF Crash
<2>6. DedupTargetDurable'
  BY <1>10, BoundAssumption DEF Crash
<2>7. IndexInv'
  BY <1>10, BoundAssumption DEF Crash
<2>8. DoneInv'
  BY <1>10, BoundAssumption DEF Crash
<2>9. DownInv'
  BY <1>10, BoundAssumption DEF Crash
<2>10. QED
  BY <2>1, <2>2, <2>3, <2>4, <2>5, <2>6, <2>7, <2>8, <2>9
<1>11. CASE Restart
  BY <1>11, SMTT(30) DEF Restart, Orphans
<1>12. ASSUME NEW j \in Job, AcquireGpu(j) PROVE IInv'
  BY <1>12, SMTT(30) DEF AcquireGpu, Goto
<1>13. ASSUME NEW j \in Job, RecordStatus(j) PROVE IInv'
<2>0. /\ status' \in [Job -> Status] /\ faults' \in Nat
     /\ status'[j] \in {status[j], worker[j]}
     /\ \A k \in Job \ {j} : status'[k] = status[k]
  BY <1>13, WriteStatusEffect DEF RecordStatus
<2>1. TypeOK'
  BY <1>13, <2>0 DEF RecordStatus, Goto, After
<2>2. GpuInv'
  BY <1>13, <2>0 DEF RecordStatus, Goto, After
<2>3. IdInv'
  BY <1>13, <2>0 DEF RecordStatus, Goto, After
<2>4. HandlerInv'
  BY <1>13, <2>0 DEF RecordStatus, Goto, After
<2>5. WorkerInv'
  BY <1>13, <2>0 DEF RecordStatus, Goto, After
<2>6. DedupTargetDurable'
  BY <1>13, <2>0 DEF RecordStatus, Goto, After
<2>7. IndexInv'
  BY <1>13, <2>0 DEF RecordStatus, Goto, After
<2>8. DoneInv'
  BY <1>13, <2>0 DEF RecordStatus, Goto, After
<2>9. DownInv'
  BY <1>13, <2>0 DEF RecordStatus, Goto, After
<2>10. QED
  BY <2>1, <2>2, <2>3, <2>4, <2>5, <2>6, <2>7, <2>8, <2>9
<1>14. ASSUME NEW j \in Job, PipelineRaises(j) PROVE IInv'
  BY <1>14, SMTT(30) DEF PipelineRaises, Goto
<1>15. ASSUME NEW j \in Job, PersistResult(j) PROVE IInv'
  BY <1>15, SMTT(30) DEF PersistResult, Goto
<1>16. ASSUME NEW j \in Job, RollbackFails(j) PROVE IInv'
  BY <1>16, SMTT(30) DEF RollbackFails, Goto
<1>17. ASSUME NEW j \in Job, ReleaseGpu(j) PROVE IInv'
  BY <1>17, SMTT(30) DEF ReleaseGpu, Goto
<1>18. ASSUME NEW j \in Job, RegisterHash(j) PROVE IInv'
  BY <1>18, SMTT(30) DEF RegisterHash, Goto
<1>19. ASSUME NEW j \in Job, RegisterHashFails(j) PROVE IInv'
  BY <1>19, SMTT(30) DEF RegisterHashFails, Goto
<1>20. ASSUME NEW j \in Job, SetCompleted(j) PROVE IInv'
  BY <1>20, SMTT(30) DEF SetCompleted, Goto, Cached
<1>21. ASSUME NEW j \in Job, SetResult(j) PROVE IInv'
  BY <1>21, SMTT(30) DEF SetResult, Goto, Cached
<1>22. ASSUME NEW j \in Job, EntryGone(j) PROVE IInv'
  BY <1>22, SMTT(30) DEF EntryGone, Goto
<1>23. ASSUME NEW j \in Job, WriteCompleted(j) PROVE IInv'
<2>0. /\ status' \in [Job -> Status] /\ faults' \in Nat
     /\ status'[j] \in {status[j], "completed"}
     /\ \A k \in Job \ {j} : status'[k] = status[k]
  BY <1>23, WriteStatusEffect DEF WriteCompleted
<2>1. TypeOK'
  BY <1>23, <2>0 DEF WriteCompleted, Goto
<2>2. GpuInv'
  BY <1>23, <2>0 DEF WriteCompleted, Goto
<2>3. IdInv'
  BY <1>23, <2>0 DEF WriteCompleted, Goto
<2>4. HandlerInv'
  BY <1>23, <2>0 DEF WriteCompleted, Goto
<2>5. WorkerInv'
  BY <1>23, <2>0 DEF WriteCompleted, Goto
<2>6. DedupTargetDurable'
  BY <1>23, <2>0 DEF WriteCompleted, Goto
<2>7. IndexInv'
  BY <1>23, <2>0 DEF WriteCompleted, Goto
<2>8. DoneInv'
  BY <1>23, <2>0 DEF WriteCompleted, Goto
<2>9. DownInv'
  BY <1>23, <2>0 DEF WriteCompleted, Goto
<2>10. QED
  BY <2>1, <2>2, <2>3, <2>4, <2>5, <2>6, <2>7, <2>8, <2>9
<1>24. ASSUME NEW j \in Job, SetFailed(j) \/ SetError(j) PROVE IInv'
<2>1. CASE SetFailed(j)
  BY <2>1, SMTT(30) DEF SetFailed, Goto
<2>2. CASE SetError(j)
  BY <2>2, SMTT(30) DEF SetError, Goto
<2>3. QED
  BY <1>24, <2>1, <2>2
<1>25. ASSUME NEW j \in Job, ThreadDies(j) PROVE IInv'
  BY <1>25, SMTT(30) DEF ThreadDies, Goto
<1>26. ASSUME NEW j \in Job, WriteFailed(j) PROVE IInv'
<2>0. /\ status' \in [Job -> Status] /\ faults' \in Nat
     /\ status'[j] \in {status[j], "failed"}
     /\ \A k \in Job \ {j} : status'[k] = status[k]
  BY <1>26, WriteStatusEffect DEF WriteFailed
<2>1. TypeOK'
  BY <1>26, <2>0 DEF WriteFailed, Goto
<2>2. GpuInv'
  BY <1>26, <2>0 DEF WriteFailed, Goto
<2>3. IdInv'
  BY <1>26, <2>0 DEF WriteFailed, Goto
<2>4. HandlerInv'
  BY <1>26, <2>0 DEF WriteFailed, Goto
<2>5. WorkerInv'
  BY <1>26, <2>0 DEF WriteFailed, Goto
<2>6. DedupTargetDurable'
  BY <1>26, <2>0 DEF WriteFailed, Goto
<2>7. IndexInv'
  BY <1>26, <2>0 DEF WriteFailed, Goto
<2>8. DoneInv'
  BY <1>26, <2>0 DEF WriteFailed, Goto
<2>9. DownInv'
  BY <1>26, <2>0 DEF WriteFailed, Goto
<2>10. QED
  BY <2>1, <2>2, <2>3, <2>4, <2>5, <2>6, <2>7, <2>8, <2>9
<1>27. ASSUME NEW j \in Job, ReleaseClaim(j) PROVE IInv'
  BY <1>27, SMTT(30) DEF ReleaseClaim, Goto, UnregisterInFlight
<1>28. CASE UNCHANGED vars
  BY <1>28
<1>29. QED
  BY <1>1, <1>2, <1>3, <1>4, <1>5, <1>6, <1>7, <1>8, <1>9, <1>10, <1>11, <1>12, <1>13,
     <1>14, <1>15, <1>16, <1>17, <1>18, <1>19, <1>20, <1>21, <1>22, <1>23, <1>24, <1>25,
     <1>26, <1>27, <1>28, Zenon DEF Next, Handler, Worker, Rest

(* The inductive invariant holds in every reachable state, across evictions, *)
(* failed writes and crashes.                                              *)
THEOREM Invariance == Spec => []IInv
  BY InitInv, StepInv, PTL DEF Spec

-----------------------------------------------------------------------------
(* The safety properties of the runs.                                      *)

(* Every variable keeps its type, the semaphore's bounds included.         *)
THEOREM TypeCorrect == Spec => []TypeOK
<1>1. IInv => TypeOK
  BY DEF IInv
<1>2. QED
  BY <1>1, Invariance, PTL

(* Two threads are never inside the pipeline at once.                      *)
THEOREM GpuIsExclusive == Spec => []GpuExclusive
<1>1. IInv => GpuExclusive
  BY DEF IInv, GpuInv
<1>2. QED
  BY <1>1, Invariance, PTL

(* No content is worked on by two threads at once: both would own it, and  *)
(* a content has one owner.                                                *)
THEOREM NoConcurrentDuplicate == Spec => []OneWorkerPerAudio
<1>1. IInv => OneWorkerPerAudio
  <2> SUFFICES ASSUME IInv, NEW j \in Job, NEW k \in Job,
                      worker[j] \in Running, worker[k] \in Running, audio[j] = audio[k]
               PROVE  j = k
    BY DEF OneWorkerPerAudio
  <2>1. inFlight[audio[j]] = j /\ inFlight[audio[k]] = k
    BY DEF IInv, WorkerInv
  <2>2. QED
    BY <2>1
<1>2. QED
  BY <1>1, Invariance, PTL

(* A redirected client finds a status.json.                                *)
THEOREM RedirectIsDurable == Spec => []DedupTargetDurable
<1>1. IInv => DedupTargetDurable
  BY DEF IInv
<1>2. QED
  BY <1>1, Invariance, PTL

(* A job completed on disk has its result and answers for its content.     *)
THEOREM CompletedStaysFindable == Spec => []CompletedIsFindable
<1>1. IInv => CompletedIsFindable
  <2> SUFFICES ASSUME IInv, NEW j \in Job, status[j] = "completed"
               PROVE  j \in result /\ LookupHash(audio[j]) # NoJob
    BY DEF CompletedIsFindable
  <2>1. j \in result /\ index[audio[j]] # NoJob
    BY DEF IInv, DoneInv
  <2>2. j < nextJob
    BY DEF IInv, IdInv, TypeOK, Job, Absent
  <2>3. audio[j] \in Hash
    BY <2>2 DEF IInv, IdInv
  <2>4. index[audio[j]] \in result
    BY <2>1, <2>3 DEF IInv, IndexInv
  <2>5. QED
    BY <2>1, <2>4 DEF LookupHash
<1>2. QED
  BY <1>1, Invariance, PTL

-----------------------------------------------------------------------------
(* The durable outcome.                                                    *)

(* What one step can do to the files of the jobs.                          *)
DurableStep ==
  \/ UNCHANGED <<status, result>>
  \/ \E j \in Job :                                         \* accepted
       /\ status[j] = Absent
       /\ status' = [status EXCEPT ![j] = "queued"]
       /\ result' = result
  \/ \E j \in Job :                                         \* discarded
       /\ status[j] \in InProgress /\ j \notin result
       /\ status' = [status EXCEPT ![j] = Absent]
       /\ result' = result
  \/ \E j \in Job, s \in InProgress :                       \* progress
       /\ status[j] \in InProgress
       /\ status' = [status EXCEPT ![j] = s]
       /\ result' = result
  \/ \E j \in Job :                                         \* result stored
       /\ status[j] \in InProgress
       /\ result' = result \cup {j}
       /\ status' = status
  \/ \E j \in Job :                                         \* completed
       /\ status[j] \in InProgress /\ j \in result
       /\ status' = [status EXCEPT ![j] = "completed"]
       /\ result' = result
  \/ \E lost \in SUBSET Orphans :                           \* failed
       /\ status' = [j \in Job |-> IF j \in lost THEN "failed" ELSE status[j]]
       /\ result' = result

(* Marking one job under way as failed is a durable step: the recovery's,  *)
(* for a set of one job.                                                   *)
LEMMA OneFailed ==
  ASSUME status \in [Job -> Status], NEW j \in Job, status[j] \in InProgress,
         status' = [status EXCEPT ![j] = "failed"], result' = result
  PROVE  DurableStep
<1>1. {j} \in SUBSET Orphans
  BY DEF Orphans
<1>2. status' = [k \in Job |-> IF k \in {j} THEN "failed" ELSE status[k]]
  OBVIOUS
<1>3. QED
  BY <1>1, <1>2 DEF DurableStep

(* Whatever a step does in memory, it changes the files in one of the ways *)
(* of DurableStep.                                                         *)
LEMMA StepIsDurable == IInv /\ [Next]_vars => DurableStep
<1> SUFFICES ASSUME IInv, [Next]_vars PROVE DurableStep
  OBVIOUS
<1>0. status \in [Job -> Status]
  BY DEF IInv, TypeOK
<1>1. ASSUME NEW h \in Hash, UploadKnown(h) \/ UploadNew(h) PROVE DurableStep
  BY <1>1 DEF UploadKnown, UploadNew, durable, DurableStep
<1>2. CASE Bootstrap \/ PersistQueuedFails \/ Claim \/ StartThread
  BY <1>2 DEF Bootstrap, PersistQueuedFails, Claim, StartThread, durable, DurableStep
<1>3. CASE PersistQueued
  <2>1. req.job \in Job /\ status[req.job] = Absent
    BY <1>3 DEF PersistQueued, IInv, HandlerInv, Busy
  <2>2. QED
    BY <1>3, <2>1 DEF PersistQueued, DurableStep
<1>4. CASE ClaimTaken
  <2>1. req.job \in Job /\ status[req.job] \in InProgress /\ req.job \notin result
    BY <1>4 DEF ClaimTaken, IInv, HandlerInv, Busy, InProgress
  <2>2. QED
    BY <1>4, <2>1 DEF ClaimTaken, DurableStep
<1>5. CASE StartThreadFails
  <2>1. req.job \in Job /\ status[req.job] \in InProgress
    BY <1>5 DEF StartThreadFails, IInv, HandlerInv, Busy, InProgress
  <2>2. CASE status' = status
    BY <1>5, <2>2 DEF StartThreadFails, DurableStep
  <2>3. CASE status' = [status EXCEPT ![req.job] = "failed"]
    BY <1>0, <1>5, <2>1, <2>3, OneFailed DEF StartThreadFails
  <2>4. QED
    BY <1>5, <2>2, <2>3 DEF StartThreadFails, WriteStatus
<1>6. ASSUME NEW j \in Job,
             AcquireGpu(j) \/ PipelineRaises(j) \/ ReleaseGpu(j) \/ RegisterHash(j)
               \/ RegisterHashFails(j) \/ SetCompleted(j) \/ SetResult(j)
               \/ EntryGone(j) \/ SetFailed(j) \/ SetError(j) \/ ThreadDies(j)
               \/ ReleaseClaim(j)
      PROVE  DurableStep
  BY <1>6 DEF AcquireGpu, PipelineRaises, ReleaseGpu, RegisterHash, RegisterHashFails,
              SetCompleted, SetResult, EntryGone, SetFailed, SetError, ThreadDies, ReleaseClaim,
              durable, DurableStep
<1>7. ASSUME NEW j \in Job, RecordStatus(j) PROVE DurableStep
  <2>1. worker[j] \in InProgress /\ status[j] \in InProgress
    BY <1>7 DEF RecordStatus, IInv, WorkerInv, Running, OnGpu, InProgress, Stage
  <2>2. QED
    BY <1>7, <2>1 DEF RecordStatus, WriteStatus, DurableStep
<1>8. ASSUME NEW j \in Job, PersistResult(j) \/ RollbackFails(j) PROVE DurableStep
  <2>1. status[j] \in InProgress
    BY <1>8 DEF PersistResult, RollbackFails, IInv, WorkerInv, Running, OnGpu
  <2>2. QED
    BY <1>8, <2>1 DEF PersistResult, RollbackFails, DurableStep
<1>9. ASSUME NEW j \in Job, WriteCompleted(j) PROVE DurableStep
  <2>1. status[j] \in InProgress /\ j \in result
    BY <1>9 DEF WriteCompleted, IInv, WorkerInv, Running, Committing
  <2>2. QED
    BY <1>9, <2>1 DEF WriteCompleted, WriteStatus, DurableStep
<1>10. ASSUME NEW j \in Job, WriteFailed(j) PROVE DurableStep
  <2>1. status[j] \in InProgress
    BY <1>10 DEF WriteFailed, IInv, WorkerInv, Running, Failing
  <2>2. CASE status' = status
    BY <1>10, <2>2 DEF WriteFailed, DurableStep
  <2>3. CASE status' = [status EXCEPT ![j] = "failed"]
    BY <1>0, <1>10, <2>1, <2>3, OneFailed DEF WriteFailed
  <2>4. QED
    BY <1>10, <2>2, <2>3 DEF WriteFailed, WriteStatus
<1>11. CASE Crash
  BY <1>11 DEF Crash, durable, DurableStep
<1>12. CASE Restart
  <2>1. PICK lost \in SUBSET Orphans :
          status' = [j \in Job |-> IF j \in Orphans \ lost THEN "failed" ELSE status[j]]
    BY <1>12 DEF Restart
  <2>2. Orphans \ lost \in SUBSET Orphans
    OBVIOUS
  <2>3. QED
    BY <1>12, <2>1, <2>2 DEF Restart, DurableStep
<1>13. CASE UNCHANGED vars
  BY <1>13 DEF vars, durable, DurableStep
<1>14. QED
  BY <1>1, <1>2, <1>3, <1>4, <1>5, <1>6, <1>7, <1>8, <1>9, <1>10, <1>11, <1>12, <1>13
     DEF Next, Handler, Worker, Rest

(* No step rewrites a terminal status.json: the step that would do it      *)
(* finds the job under way.                                                *)
THEOREM OutcomeIsFinal == Spec => TerminalIsFinal
<1>1. IInv /\ [Next]_vars =>
        [\A j \in Job : status[j] \in Terminal => status'[j] = status[j]]_vars
  <2> SUFFICES ASSUME IInv, DurableStep, NEW j \in Job, status[j] \in Terminal
               PROVE  status'[j] = status[j]
    BY StepIsDurable
  <2>1. status \in [Job -> Status] /\ status[j] \notin InProgress /\ status[j] # Absent
    BY DEF IInv, TypeOK, Terminal, InProgress, Stage, Absent
  <2>2. j \notin Orphans
    BY <2>1 DEF Orphans
  <2>3. QED
    BY <2>1, <2>2 DEF DurableStep
<1>2. QED
  BY <1>1, Invariance, PTL DEF Spec, TerminalIsFinal

(* The job service implements its contract: each step on the files is one  *)
(* of the contract's, or changes nothing it can see.                       *)
THEOREM KeepsItsContract == Spec => KeepsContract
<1> DEFINE outcome == [j \in Job |-> OutcomeOf(status[j])]
<1>1. Init => Contract!Init
  BY DEF Init, Contract!Init, OutcomeOf, Absent
<1>2. IInv /\ [Next]_vars => [Contract!Next]_<<outcome, result>>
  <2> SUFFICES ASSUME IInv, DurableStep
               PROVE  Contract!Next \/ (outcome' = outcome /\ result' = result)
    BY StepIsDurable
  <2>0. status \in [Job -> Status]
    BY DEF IInv, TypeOK
  <2>1. CASE UNCHANGED <<status, result>>
    BY <2>1
  <2>2. ASSUME NEW j \in Job, status[j] = Absent, result' = result,
               status' = [status EXCEPT ![j] = "queued"]
        PROVE  Contract!Accept(j)
    BY <2>0, <2>2 DEF Contract!Accept, OutcomeOf, Absent
  <2>3. ASSUME NEW j \in Job, status[j] \in InProgress, j \notin result, result' = result,
               status' = [status EXCEPT ![j] = Absent]
        PROVE  Contract!TakeBack(j)
    BY <2>0, <2>3 DEF Contract!TakeBack, OutcomeOf, Absent, InProgress, Stage
  <2>4. ASSUME NEW j \in Job, NEW s \in InProgress, status[j] \in InProgress,
               status' = [status EXCEPT ![j] = s]
        PROVE  outcome' = outcome
    BY <2>0, <2>4 DEF OutcomeOf, Absent, InProgress, Stage
  <2>5. ASSUME NEW j \in Job, status[j] \in InProgress, result' = result \cup {j},
               status' = status
        PROVE  Contract!Store(j)
    BY <2>0, <2>5 DEF Contract!Store, OutcomeOf, Absent, InProgress, Stage
  <2>6. ASSUME NEW j \in Job, status[j] \in InProgress, j \in result, result' = result,
               status' = [status EXCEPT ![j] = "completed"]
        PROVE  Contract!Complete(j)
    BY <2>0, <2>6 DEF Contract!Complete, OutcomeOf, Absent, InProgress, Stage
  <2>7. ASSUME NEW lost \in SUBSET Orphans, result' = result,
               status' = [j \in Job |-> IF j \in lost THEN "failed" ELSE status[j]]
        PROVE  Contract!Abandon(lost) /\ lost \in SUBSET Job
    <3>1. \A j \in lost : j \in Job /\ outcome[j] = "accepted"
      BY <2>7 DEF OutcomeOf, Orphans, Absent, InProgress, Stage
    <3>2. outcome' = [j \in Job |-> IF j \in lost THEN "failed" ELSE outcome[j]]
      BY <2>7 DEF OutcomeOf, Absent
    <3>3. QED
      BY <2>7, <3>1, <3>2 DEF Contract!Abandon
  <2>8. QED
    BY <2>1, <2>2, <2>3, <2>4, <2>5, <2>6, <2>7 DEF DurableStep, Contract!Next
<1>3. QED
  BY <1>1, <1>2, Invariance, PTL DEF Spec, KeepsContract, Contract!Spec

-----------------------------------------------------------------------------
(* When the dictionary holds every job and every write succeeds.           *)

Calm == CacheSize >= MaxJobs /\ MaxFaults = 0

(* No entry of a job under way is missing, so no thread dies half way, and *)
(* a thread that is about to give up its content has finished its file.    *)
CalmInv ==
  /\ faults = 0
  /\ \A j \in Job :
       /\ worker[j] # "dead"
       /\ worker[j] \in Running => mem[j] # Absent
       /\ worker[j] = "release" => status[j] \in Terminal
  /\ req.pc \in {"persist", "claim", "start"} => mem[req.job] # Absent
  /\ OwnerIsLive
  /\ NoOrphanStatus

LEMMA NothingEvicted ==
  ASSUME Calm, mem \in [Job -> Status], NEW j \in Job, NEW s \in Status
  PROVE  SetItem(j, s) = [mem EXCEPT ![j] = s]
<1> DEFINE keys == {k \in Job : [mem EXCEPT ![j] = s][k] # Absent}
<1>1. IsFiniteSet(Job) /\ Cardinality(Job) = MaxJobs
  BY BoundAssumption, FS_Interval DEF Job
<1>2. Cardinality(keys) <= MaxJobs /\ Cardinality(keys) \in Nat
  <2>1. keys \subseteq Job
    OBVIOUS
  <2> HIDE DEF keys
  <2> QED BY <1>1, <2>1, FS_Subset, FS_CardinalityType
<1>3. ~(Cardinality(keys) > CacheSize)
  BY <1>2, CacheAssumption, BoundAssumption DEF Calm
<1> QED BY <1>3 DEF SetItem

LEMMA WriteSucceeds ==
  ASSUME Calm, faults = 0, NEW j \in Job, NEW s, WriteStatus(j, s)
  PROVE  status' = [status EXCEPT ![j] = s] /\ faults' = faults
BY DEF WriteStatus, Calm

LEMMA StepCalm == Calm /\ IInv /\ CalmInv /\ [Next]_vars => CalmInv'
<1> SUFFICES ASSUME Calm, IInv, CalmInv, [Next]_vars PROVE CalmInv'
  OBVIOUS
<1> USE DEF CalmInv, OwnerIsLive, NoOrphanStatus, Orphans, IInv, TypeOK, HandlerInv,
            WorkerInv, DedupTargetDurable, DownInv, Answered, Ready, HandlerPC, OnGpu,
            Committing, Failing, Running, WorkerPC, Busy, Stage, InProgress, Terminal,
            Absent, Status, Job, NoJob, vars, memory, durable, ids, budget
<1>0. ~(faults < MaxFaults)
  BY DEF Calm
<1>1. ASSUME NEW h \in Hash, UploadKnown(h) PROVE CalmInv'
  BY <1>1, SMTT(30) DEF UploadKnown
<1>2. ASSUME NEW h \in Hash, UploadNew(h) PROVE CalmInv'
  BY <1>2, SMTT(30) DEF UploadNew, IdInv
<1>3. CASE Bootstrap
  <2>1. mem' = [mem EXCEPT ![req.job] = "queued"]
    BY <1>3, NothingEvicted DEF Bootstrap
  <2>2. /\ mem'[req.job] = "queued"
        /\ \A k \in Job : mem[k] # Absent => mem'[k] # Absent
    <3>1. req.job \in Job
      BY <1>3 DEF Bootstrap
    <3> QED BY <2>1, <3>1
  <2>3. /\ req.pc = "bootstrap" /\ req' = [req EXCEPT !.pc = "persist"]
        /\ UNCHANGED <<up, inFlight, worker, status, faults>>
    BY <1>3 DEF Bootstrap
  <2>4. req'.pc = "persist" /\ req'.job = req.job
    BY <2>3
  <2> QED BY <2>2, <2>3, <2>4
<1>4. CASE PersistQueued
  BY <1>4, SMTT(30) DEF PersistQueued
<1>5. CASE PersistQueuedFails
  BY <1>0, <1>5 DEF PersistQueuedFails
<1>6. CASE Claim
  BY <1>6, SMTT(30) DEF Claim
<1>7. CASE ClaimTaken
  BY <1>7, SMTT(30) DEF ClaimTaken
<1>8. CASE StartThread
  BY <1>8, SMTT(30) DEF StartThread
<1>9. CASE StartThreadFails
  <2>1. status' = [status EXCEPT ![req.job] = "failed"] /\ faults' = faults
    BY <1>9, WriteSucceeds DEF StartThreadFails
  <2> QED BY <1>9, <2>1, SMTT(30) DEF StartThreadFails, UnregisterInFlight
<1>10. CASE Crash
  BY <1>10, SMTT(30) DEF Crash
<1>11. CASE Restart
  BY <1>0, <1>11, SMTT(30) DEF Restart
<1>12. ASSUME NEW j \in Job, AcquireGpu(j) PROVE CalmInv'
  BY <1>12, SMTT(30) DEF AcquireGpu, Goto
<1>13. ASSUME NEW j \in Job, RecordStatus(j) PROVE CalmInv'
  <2>1. status' = [status EXCEPT ![j] = worker[j]] /\ faults' = faults
    BY <1>13, WriteSucceeds DEF RecordStatus
  <2>2. PICK next \in After(worker[j]) : worker' = [worker EXCEPT ![j] = next]
    BY <1>13 DEF RecordStatus, Goto
  <2>3. next \in Stage \cup {"artifacts"}
    BY <1>13, <2>2 DEF RecordStatus, After
  <2> QED BY <1>13, <2>1, <2>2, <2>3, SMTT(30) DEF RecordStatus
<1>14. ASSUME NEW j \in Job, PipelineRaises(j) PROVE CalmInv'
  BY <1>14, SMTT(30) DEF PipelineRaises, Goto
<1>15. ASSUME NEW j \in Job, PersistResult(j) PROVE CalmInv'
  BY <1>15, SMTT(30) DEF PersistResult, Goto
<1>16. ASSUME NEW j \in Job, RollbackFails(j) \/ RegisterHashFails(j) PROVE CalmInv'
  BY <1>0, <1>16 DEF RollbackFails, RegisterHashFails
<1>17. ASSUME NEW j \in Job, ReleaseGpu(j) PROVE CalmInv'
  BY <1>17, SMTT(30) DEF ReleaseGpu, Goto
<1>18. ASSUME NEW j \in Job, RegisterHash(j) PROVE CalmInv'
  BY <1>18, SMTT(30) DEF RegisterHash, Goto
<1>19. ASSUME NEW j \in Job, SetCompleted(j) \/ SetFailed(j) PROVE CalmInv'
  <2>1. CASE SetCompleted(j)
    BY <2>1, SMTT(30) DEF SetCompleted, Goto
  <2>2. CASE SetFailed(j)
    BY <2>2, SMTT(30) DEF SetFailed, Goto
  <2> QED BY <1>19, <2>1, <2>2
<1>20. ASSUME NEW j \in Job, SetResult(j) \/ SetError(j) PROVE CalmInv'
  <2>1. CASE SetResult(j)
    BY <2>1, SMTT(30) DEF SetResult, Goto
  <2>2. CASE SetError(j)
    BY <2>2, SMTT(30) DEF SetError, Goto
  <2> QED BY <1>20, <2>1, <2>2
<1>21. ASSUME NEW j \in Job, EntryGone(j) \/ ThreadDies(j) PROVE CalmInv'
  BY <1>21 DEF EntryGone, ThreadDies, Cached
<1>22. ASSUME NEW j \in Job, WriteCompleted(j) PROVE CalmInv'
  <2>1. status' = [status EXCEPT ![j] = "completed"] /\ faults' = faults
    BY <1>22, WriteSucceeds DEF WriteCompleted
  <2> QED BY <1>22, <2>1, SMTT(30) DEF WriteCompleted, Goto
<1>23. ASSUME NEW j \in Job, WriteFailed(j) PROVE CalmInv'
  <2>1. status' = [status EXCEPT ![j] = "failed"] /\ faults' = faults
    BY <1>23, WriteSucceeds DEF WriteFailed
  <2> QED BY <1>23, <2>1, SMTT(30) DEF WriteFailed, Goto
<1>24. ASSUME NEW j \in Job, ReleaseClaim(j) PROVE CalmInv'
  BY <1>24, SMTT(30) DEF ReleaseClaim, Goto, UnregisterInFlight
<1>25. CASE UNCHANGED vars
  BY <1>25
<1> QED
  BY <1>1, <1>2, <1>3, <1>4, <1>5, <1>6, <1>7, <1>8, <1>9, <1>10, <1>11, <1>12, <1>13,
     <1>14, <1>15, <1>16, <1>17, <1>18, <1>19, <1>20, <1>21, <1>22, <1>23, <1>24, <1>25
     DEF Next, Handler, Worker, Rest

LEMMA InitCalm == Init => CalmInv
BY DEF Init, CalmInv, OwnerIsLive, NoOrphanStatus, Orphans, Running, OnGpu, Stage,
   Committing, Failing, InProgress, Absent, NoJob

(* A service whose dictionary holds every job and whose writes succeed     *)
(* keeps an entry for every job under way, across crashes.                 *)
THEOREM CalmHolds == ASSUME Calm PROVE Spec => []CalmInv
<1>1. IInv /\ CalmInv /\ [Next]_vars => CalmInv'
  BY StepCalm, Calm
<1> QED BY <1>1, InitCalm, Invariance, PTL DEF Spec

(* There, a content is in flight only while its owner has a thread or is   *)
(* about to get one.                                                       *)
THEOREM OwnersAreLive == ASSUME Calm PROVE Spec => []OwnerIsLive
<1>1. CalmInv => OwnerIsLive
  BY DEF CalmInv
<1> QED BY <1>1, CalmHolds, Calm, PTL

(* There, a status file that says a job is under way tells the truth.      *)
THEOREM NoStatusIsOrphaned == ASSUME Calm PROVE Spec => []NoOrphanStatus
<1>1. CalmInv => NoOrphanStatus
  BY DEF CalmInv
<1> QED BY <1>1, CalmHolds, Calm, PTL
=============================================================================
