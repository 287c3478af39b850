---------------------------- MODULE JobApi_proofs ----------------------------
(***************************************************************************)
(* What the clients of the job service are told, for any contents, cache   *)
(* size, crashes and failing writes.                                       *)
(***************************************************************************)
EXTENDS JobApi, JobService_proofs

(* b may be answered after a.                                              *)
Ahead(a, b) == Rank(a) <= Rank(b) /\ (a \in Terminal => b = a)

(* What the entry of a job says at each program point of its request and   *)
(* its thread.                                                             *)
EntryOf(j) ==
  /\ j >= nextJob => mem[j] = Absent
  /\ req.pc = "bootstrap" /\ req.job = j => mem[j] = Absent
  /\ req.pc \in {"persist", "claim", "start"} /\ req.job = j => mem[j] \in {Absent, "queued"}
  /\ worker[j] = "wait_gpu" => mem[j] \in {Absent, "queued"}
  /\ worker[j] \in Stage /\ mem[j] # Absent => Rank(mem[j]) < Rank(worker[j])
  /\ worker[j] \in {"artifacts", "unlock", "unwind", "register", "mem_status", "mem_failed"} =>
       mem[j] \in InProgress \cup {Absent}
  /\ worker[j] \in {"mem_result", "write_done"} => mem[j] \in {"completed", Absent}
  /\ worker[j] \in {"mem_error", "write_failed"} => mem[j] \in {"failed", Absent}

StoredOf(j) == mem[j] = "completed" => j \in result /\ index[audio[j]] # NoJob

EntryInv == \A j \in Job : EntryOf(j) /\ StoredOf(j)

(* The two reads of an entry, and what the clients were told before.       *)
ToldInv ==
  /\ told \in [Job -> {NotAsked, "not_found"} \cup InProgress \cup Terminal]
  /\ \A j \in Job :
       /\ j >= nextJob \/ (req.pc \in Busy /\ req.job = j) => told[j] = NotAsked
       /\ mem[j] # Absent => Ahead(told[j], mem[j])
       /\ told[j] = "completed" => j \in result /\ index[audio[j]] # NoJob
  /\ poll.pc = "second_read" =>
       /\ req.pc \notin Busy /\ poll.job < nextJob
       /\ poll.job \in Job /\ poll.first \in InProgress \cup Terminal
       /\ mem[poll.job] # Absent =>
            Ahead(told[poll.job], poll.first) /\ Ahead(poll.first, mem[poll.job])
       /\ poll.first = "completed" => poll.job \in result /\ index[audio[poll.job]] # NoJob

ApiInv == IInv /\ EntryInv /\ ToldInv

-----------------------------------------------------------------------------
LEMMA Ranks ==
  /\ Rank(NotAsked) = 0 /\ Rank("not_found") = 0 /\ Rank("queued") = 1
  /\ Rank("converting") = 2 /\ Rank("denoising") = 3 /\ Rank("transcribing") = 4
  /\ Rank("identifying") = 5 /\ Rank("completed") = 6 /\ Rank("failed") = 6
BY DEF Rank, NotAsked, Terminal

LEMMA AheadIsTransitive ==
  ASSUME NEW a \in {NotAsked, "not_found"} \cup InProgress \cup Terminal,
         NEW b \in InProgress \cup Terminal, NEW c \in InProgress \cup Terminal,
         Ahead(a, b), Ahead(b, c)
  PROVE  Ahead(a, c)
<1>1. /\ Rank(a) \in Nat /\ Rank(b) \in Nat /\ Rank(c) \in Nat
  BY Ranks DEF InProgress, Stage, Terminal
<1> QED BY <1>1 DEF Ahead

(* The clients' steps are stutters of the service, the others its steps.   *)
LEMMA ApiStepIsStep == [ApiNext]_apiVars => [Next]_vars
BY DEF ApiNext, Post, Serve, Die, Poll, ReadEntry, AnswerFromEntry, AnswerFromDisk, Next,
   apiVars

(* What is stored stays, and a job keeps its audio.                        *)
LEMMA StoredStays ==
  ASSUME IInv, [Next]_vars, NEW j \in Job, j \in result, index[audio[j]] # NoJob
  PROVE  j \in result' /\ index'[audio'[j]] # NoJob
<1>1. /\ j < nextJob /\ audio[j] \in Hash /\ j # NoJob
  BY DEF IInv, IdInv, TypeOK, Job, NoJob
<1>2. CASE UNCHANGED <<result, index, audio>>
  BY <1>2
<1>3. ASSUME NEW h \in Hash, UploadNew(h) PROVE j \in result' /\ index'[audio'[j]] # NoJob
  BY <1>1, <1>3 DEF UploadNew, IInv, TypeOK, durable
<1>4. ASSUME NEW k \in Job, PersistResult(k) \/ RollbackFails(k) \/ RegisterHash(k)
      PROVE j \in result' /\ index'[audio'[j]] # NoJob
  <2>1. k # NoJob /\ audio' = audio /\ index \in [Hash -> Job \cup {NoJob}]
    BY <1>4 DEF PersistResult, RollbackFails, RegisterHash, ids, Job, NoJob, IInv, TypeOK
  <2>2. CASE PersistResult(k) \/ RollbackFails(k)
    BY <2>1, <2>2 DEF PersistResult, RollbackFails
  <2>3. CASE RegisterHash(k)
    BY <1>1, <2>1, <2>3 DEF RegisterHash
  <2> QED BY <1>4, <2>2, <2>3
<1>5. ASSUME NEW h \in Hash, UploadKnown(h) PROVE UNCHANGED <<result, index, audio>>
  BY <1>5 DEF UploadKnown, durable, ids
<1>6. CASE Handler
  BY <1>2, <1>6 DEF Handler, Bootstrap, PersistQueued, PersistQueuedFails, Claim, ClaimTaken,
     StartThread, StartThreadFails, durable, ids
<1>7. ASSUME NEW k \in Job, Worker(k), ~(PersistResult(k) \/ RollbackFails(k) \/ RegisterHash(k))
      PROVE UNCHANGED <<result, index, audio>>
  BY <1>7 DEF Worker, AcquireGpu, RecordStatus, PipelineRaises, ReleaseGpu, RegisterHashFails,
     SetCompleted, SetResult, EntryGone, WriteCompleted, SetFailed, SetError, ThreadDies, WriteFailed,
     ReleaseClaim, durable, ids
<1>8. CASE Crash \/ Restart \/ Rest \/ UNCHANGED vars
  BY <1>2, <1>8 DEF Crash, Restart, Rest, vars, durable, ids
<1> QED BY <1>2, <1>3, <1>4, <1>5, <1>6, <1>7, <1>8 DEF Next

-----------------------------------------------------------------------------
(* The entry of a job advances with its thread.                            *)

(* What a step does to the entry of one job: nothing, an eviction or a     *)
(* discard, what the request that makes the job does, or an advance.       *)
EntryMoves(j) ==
  \/ mem'[j] \in {mem[j], Absent}
  \/ req.pc \in Busy /\ req.job = j /\ mem'[j] \in {"queued", "failed"}
  \/ mem[j] # Absent /\ mem'[j] # Absent /\ Ahead(mem[j], mem'[j])

LEMMA SetItemMoves ==
  ASSUME mem \in [Job -> Status], NEW i \in Job, NEW s \in Status, NEW j \in Job
  PROVE  SetItem(i, s)[j] \in {IF j = i THEN s ELSE mem[j], Absent}
BY DEF SetItem, Status, Absent

LEMMA EntryKeeps ==
  ASSUME IInv, EntryInv, [Next]_vars, NEW j \in Job
  PROVE  EntryOf(j)' /\ EntryMoves(j)
<1> USE DEF EntryInv, EntryOf, EntryMoves, IInv, TypeOK, HandlerInv, IdInv, DownInv, Answered,
            Ready, HandlerPC, OnGpu, Committing, Failing, Running, WorkerPC, Busy, Stage,
            InProgress, Terminal, Absent, Status, Job, NoJob, vars, memory, durable, ids, budget
<1>0. /\ Rank("queued") = 1 /\ Rank("converting") = 2 /\ Rank("denoising") = 3
      /\ Rank("transcribing") = 4 /\ Rank("identifying") = 5 /\ Rank("completed") = 6
      /\ Rank("failed") = 6
  BY Ranks
<1>1. ASSUME NEW h \in Hash, UploadKnown(h) PROVE EntryOf(j)' /\ EntryMoves(j)
  BY <1>1, SMTT(30) DEF UploadKnown
<1>2. ASSUME NEW h \in Hash, UploadNew(h) PROVE EntryOf(j)' /\ EntryMoves(j)
  BY <1>2, SMTT(30) DEF UploadNew
<1>3. CASE Bootstrap
  <2>1. req.job \in Job /\ mem'[j] \in {IF j = req.job THEN "queued" ELSE mem[j], Absent}
    BY <1>3, SetItemMoves DEF Bootstrap
  <2> QED BY <1>3, <2>1, SMTT(30) DEF Bootstrap
<1>4. CASE PersistQueued
  BY <1>4, SMTT(30) DEF PersistQueued
<1>5. CASE PersistQueuedFails
  BY <1>5, SMTT(30) DEF PersistQueuedFails
<1>6. CASE Claim
  BY <1>6, SMTT(30) DEF Claim
<1>7. CASE ClaimTaken
  BY <1>7, SMTT(30) DEF ClaimTaken
<1>8. CASE StartThread
  BY <1>8, SMTT(30) DEF StartThread
<1>9. CASE StartThreadFails
  <2>1. /\ req.pc = "start" /\ req.job \in Job
        /\ mem' = [mem EXCEPT ![req.job] = "failed"]
        /\ req' = [req EXCEPT !.pc = "refused"] /\ UNCHANGED <<worker, nextJob>>
    BY <1>9 DEF StartThreadFails
  <2>2. req'.pc = "refused"
    BY <2>1
  <2>3. CASE j # req.job
    BY <2>1, <2>2, <2>3
  <2>4. CASE j = req.job
    <3>1. mem[j] \in {Absent, "queued"} /\ mem'[j] = "failed" /\ worker'[j] = "none" /\ j < nextJob
      BY <2>1, <2>4
    <3> QED BY <1>0, <2>1, <2>2, <3>1 DEF Ahead
  <2> QED BY <2>3, <2>4
<1>10. CASE Crash
  BY <1>10, SMTT(30) DEF Crash
<1>11. CASE Restart
  BY <1>11, SMTT(30) DEF Restart
<1>12. ASSUME NEW k \in Job, AcquireGpu(k) PROVE EntryOf(j)' /\ EntryMoves(j)
  BY <1>0, <1>12, SMTT(30) DEF AcquireGpu, Goto
<1>13. ASSUME NEW k \in Job, RecordStatus(k) PROVE EntryOf(j)' /\ EntryMoves(j)
  <2>1. PICK next \in After(worker[k]) : worker' = [worker EXCEPT ![k] = next]
    BY <1>13 DEF RecordStatus, Goto
  <2>2. /\ worker[k] \in Stage /\ mem[k] # Absent
        /\ mem' = [mem EXCEPT ![k] = worker[k]]
        /\ UNCHANGED <<req, nextJob>>
    BY <1>13 DEF RecordStatus, Cached
  <2>3. /\ worker[k] = "converting"   => next \in {"denoising", "transcribing"}
        /\ worker[k] = "denoising"    => next = "transcribing"
        /\ worker[k] = "transcribing" => next = "identifying"
        /\ worker[k] = "identifying"  => next = "artifacts"
    BY <2>1 DEF After
  <2>4. CASE j # k
    BY <2>1, <2>2, <2>4
  <2>5. CASE j = k
    <3>1. mem'[j] = worker[j] /\ worker'[j] = next /\ Rank(mem[j]) < Rank(mem'[j])
      BY <2>1, <2>2, <2>5
    <3>2. next = "artifacts" \/ (next \in Stage /\ Rank(mem'[j]) < Rank(next))
      <4>1. \/ worker[k] = "converting" \/ worker[k] = "denoising"
            \/ worker[k] = "transcribing" \/ worker[k] = "identifying"
        BY <2>2
      <4>2. mem'[j] = worker[k]
        BY <2>5, <3>1
      <4>3. CASE worker[k] = "converting"
        <5>1. Rank(mem'[j]) = 2 /\ next \in {"denoising", "transcribing"}
          BY <1>0, <2>3, <4>2, <4>3
        <5> QED BY <1>0, <5>1
      <4>4. CASE worker[k] = "denoising"
        BY <1>0, <2>3, <4>2, <4>4
      <4>5. CASE worker[k] = "transcribing"
        BY <1>0, <2>3, <4>2, <4>5
      <4>6. CASE worker[k] = "identifying"
        BY <2>3, <4>6
      <4> QED BY <4>1, <4>3, <4>4, <4>5, <4>6
    <3>3. EntryOf(j)'
      BY <2>2, <2>3, <2>5, <3>1, <3>2
    <3>4. mem[j] \notin Terminal /\ Rank(mem[j]) \in Nat /\ Rank(mem'[j]) \in Nat
      BY <1>0, <2>2, <2>5, <3>1
    <3> QED BY <2>2, <2>5, <3>1, <3>3, <3>4 DEF Ahead
  <2> QED BY <2>4, <2>5
<1>14. ASSUME NEW k \in Job, PipelineRaises(k) PROVE EntryOf(j)' /\ EntryMoves(j)
  BY <1>0, <1>14, SMTT(30) DEF PipelineRaises, Goto
<1>15. ASSUME NEW k \in Job, PersistResult(k) \/ RollbackFails(k) PROVE EntryOf(j)' /\ EntryMoves(j)
  <2>1. CASE PersistResult(k)
    BY <2>1, SMTT(30) DEF PersistResult, Goto
  <2>2. CASE RollbackFails(k)
    BY <2>2, SMTT(30) DEF RollbackFails, Goto
  <2> QED BY <1>15, <2>1, <2>2
<1>16. ASSUME NEW k \in Job, RegisterHash(k) \/ RegisterHashFails(k) PROVE EntryOf(j)' /\ EntryMoves(j)
  <2>1. CASE RegisterHash(k)
    BY <2>1, SMTT(30) DEF RegisterHash, Goto
  <2>2. CASE RegisterHashFails(k)
    BY <2>2, SMTT(30) DEF RegisterHashFails, Goto
  <2> QED BY <1>16, <2>1, <2>2
<1>17. ASSUME NEW k \in Job, ReleaseGpu(k) PROVE EntryOf(j)' /\ EntryMoves(j)
  BY <1>17, SMTT(30) DEF ReleaseGpu, Goto
<1>18. ASSUME NEW k \in Job, SetCompleted(k) PROVE EntryOf(j)' /\ EntryMoves(j)
  BY <1>0, <1>18, SMTT(30) DEF SetCompleted, Goto, Cached, Ahead
<1>19. ASSUME NEW k \in Job, SetFailed(k) PROVE EntryOf(j)' /\ EntryMoves(j)
  BY <1>0, <1>19, SMTT(30) DEF SetFailed, Goto, Cached, Ahead
<1>20. ASSUME NEW k \in Job, SetResult(k) \/ SetError(k) PROVE EntryOf(j)' /\ EntryMoves(j)
  <2>1. CASE SetResult(k)
    BY <2>1, SMTT(30) DEF SetResult, Goto
  <2>2. CASE SetError(k)
    BY <2>2, SMTT(30) DEF SetError, Goto
  <2> QED BY <1>20, <2>1, <2>2
<1>21. ASSUME NEW k \in Job, EntryGone(k) PROVE EntryOf(j)' /\ EntryMoves(j)
  BY <1>21, SMTT(30) DEF EntryGone, Goto, Cached
<1>22. ASSUME NEW k \in Job, ThreadDies(k) \/ ReleaseClaim(k) PROVE EntryOf(j)' /\ EntryMoves(j)
  <2>1. CASE ThreadDies(k)
    BY <2>1, SMTT(30) DEF ThreadDies, Goto
  <2>2. CASE ReleaseClaim(k)
    BY <2>2, SMTT(30) DEF ReleaseClaim, Goto
  <2> QED BY <1>22, <2>1, <2>2
<1>23. ASSUME NEW k \in Job, WriteCompleted(k) \/ WriteFailed(k) PROVE EntryOf(j)' /\ EntryMoves(j)
  <2>1. CASE WriteCompleted(k)
    BY <2>1, SMTT(30) DEF WriteCompleted, Goto
  <2>2. CASE WriteFailed(k)
    BY <2>2, SMTT(30) DEF WriteFailed, Goto
  <2> QED BY <1>23, <2>1, <2>2
<1>24. CASE UNCHANGED vars
  BY <1>24
<1> QED
  BY <1>1, <1>2, <1>3, <1>4, <1>5, <1>6, <1>7, <1>8, <1>9, <1>10, <1>11, <1>12, <1>13,
     <1>14, <1>15, <1>16, <1>17, <1>18, <1>19, <1>20, <1>21, <1>22, <1>23, <1>24
     DEF Next, Handler, Worker, Rest

(* Only SetCompleted makes an entry say completed.                         *)
LEMMA StoredKeeps ==
  ASSUME IInv, EntryInv, [Next]_vars, NEW j \in Job
  PROVE  StoredOf(j)'
<1> SUFFICES ASSUME mem'[j] = "completed" PROVE j \in result' /\ index'[audio'[j]] # NoJob
  BY DEF StoredOf
<1>1. CASE mem[j] = "completed"
  BY <1>1, StoredStays DEF EntryInv, StoredOf
<1>2. CASE mem[j] # "completed" /\ worker[j] = "mem_status"
  BY <1>2, StoredStays DEF IInv, WorkerInv, Committing
<1>3. CASE mem[j] # "completed" /\ worker[j] # "mem_status"
  <2> USE <1>3 DEF IInv, TypeOK, Absent, memory, vars
  <2>1. ~Bootstrap
    BY SetItemMoves DEF Bootstrap, HandlerInv, Busy, Status, InProgress
  <2>2. CASE Handler
    BY <2>1, <2>2 DEF Handler, PersistQueued, PersistQueuedFails, Claim, ClaimTaken,
       StartThread, StartThreadFails
  <2>3. ASSUME NEW k \in Job, Worker(k) PROVE FALSE
    BY <2>3 DEF Worker, AcquireGpu, RecordStatus, PipelineRaises, PersistResult,
       RollbackFails, ReleaseGpu, RegisterHash, RegisterHashFails, SetCompleted, SetResult,
       EntryGone, WriteCompleted, SetFailed, SetError, ThreadDies, WriteFailed, ReleaseClaim, Stage
  <2>4. ASSUME NEW h \in Hash, UploadKnown(h) \/ UploadNew(h) PROVE FALSE
    BY <2>4 DEF UploadKnown, UploadNew
  <2>5. CASE Crash \/ Restart \/ Rest \/ UNCHANGED vars
    BY <2>5 DEF Crash, Restart, Rest
  <2> QED BY <2>2, <2>3, <2>4, <2>5 DEF Next
<1> QED BY <1>1, <1>2, <1>3

-----------------------------------------------------------------------------
(* The clients.                                                            *)

(* A job nobody can have asked about yet was one before.                   *)
LEMMA NewStaysNew ==
  ASSUME IInv, [Next]_vars, NEW j \in Job,
         j >= nextJob' \/ (req'.pc \in Busy /\ req'.job = j)
  PROVE  j >= nextJob \/ (req.pc \in Busy /\ req.job = j)
<1> USE DEF IInv, TypeOK, Busy, Answered, Ready, Job, NoJob, vars, memory, durable, ids, budget
<1>1. ASSUME NEW h \in Hash, UploadKnown(h) \/ UploadNew(h)
      PROVE  j >= nextJob \/ (req.pc \in Busy /\ req.job = j)
  BY <1>1 DEF UploadKnown, UploadNew
<1>2. CASE Handler
  <2>1. req.pc \in Busy /\ nextJob' = nextJob
    BY <1>2 DEF Handler, Bootstrap, PersistQueued, PersistQueuedFails, Claim, ClaimTaken,
       StartThread, StartThreadFails
  <2>2. req'.pc \in Busy => req'.job = req.job
    BY <1>2 DEF Handler, Bootstrap, PersistQueued, PersistQueuedFails, Claim, ClaimTaken,
       StartThread, StartThreadFails
  <2> QED BY <2>1, <2>2
<1>3. ASSUME NEW k \in Job, Worker(k) PROVE UNCHANGED <<req, nextJob>>
  BY <1>3 DEF Worker, AcquireGpu, RecordStatus, PipelineRaises, PersistResult,
     RollbackFails, ReleaseGpu, RegisterHash, RegisterHashFails, SetCompleted, SetResult,
     EntryGone, WriteCompleted, SetFailed, SetError, ThreadDies, WriteFailed, ReleaseClaim
<1>4. CASE Crash \/ Restart \/ Rest \/ UNCHANGED vars
  BY <1>4 DEF Crash, Restart, Rest
<1> QED BY <1>1, <1>2, <1>3, <1>4 DEF Next

(* No POST is handled between the two reads.                               *)
LEMMA PollKeepsLoop ==
  ASSUME IInv, ToldInv, poll.pc = "second_read", Serve
  PROVE  req'.pc \notin Busy /\ nextJob' = nextJob
<1>1. ~Handler
  BY DEF ToldInv, Handler, Bootstrap, PersistQueued, PersistQueuedFails, Claim, ClaimTaken,
     StartThread, StartThreadFails, Busy
<1>2. UNCHANGED <<req, nextJob>>
  BY <1>1 DEF Serve, Restart, Worker, AcquireGpu, RecordStatus, PipelineRaises, PersistResult,
     RollbackFails, ReleaseGpu, RegisterHash, RegisterHashFails, SetCompleted, SetResult,
     EntryGone, WriteCompleted, SetFailed, SetError, ThreadDies, WriteFailed, ReleaseClaim, ids
<1> QED BY <1>2 DEF ToldInv

LEMMA EntryType ==
  ASSUME IInv, NEW j \in Job, mem[j] # Absent
  PROVE  mem[j] \in InProgress \cup Terminal
BY DEF IInv, TypeOK, Status

(* A step of the service keeps what the clients know true.                 *)
LEMMA ServiceStep ==
  ASSUME ApiInv, IInv', [Next]_vars, told' = told,
         poll'.pc # "second_read" \/ (poll' = poll /\ req'.pc \notin Busy /\ nextJob' = nextJob)
  PROVE  ToldInv'
<1>1. told' \in [Job -> {NotAsked, "not_found"} \cup InProgress \cup Terminal]
  BY DEF ApiInv, ToldInv
<1>2. ASSUME NEW j \in Job, j >= nextJob' \/ (req'.pc \in Busy /\ req'.job = j)
      PROVE  told'[j] = NotAsked
  BY <1>2, NewStaysNew DEF ApiInv, ToldInv
<1>3. ASSUME NEW j \in Job, mem'[j] # Absent,
             NEW a \in {NotAsked, "not_found"} \cup InProgress \cup Terminal,
             mem[j] # Absent => Ahead(a, mem[j]),
             req.pc \in Busy /\ req.job = j => a = NotAsked
      PROVE  Ahead(a, mem'[j])
  <2>1. EntryMoves(j)
    BY EntryKeeps DEF ApiInv
  <2>2. CASE mem'[j] = mem[j]
    BY <1>3, <2>2
  <2>3. CASE req.pc \in Busy /\ req.job = j /\ mem'[j] \in {"queued", "failed"}
    BY <1>3, <2>3, Ranks DEF Ahead, NotAsked, Terminal
  <2>4. CASE mem[j] # Absent /\ Ahead(mem[j], mem'[j])
    <3>1. mem[j] \in InProgress \cup Terminal
      BY <2>4, EntryType DEF ApiInv
    <3>2. mem'[j] \in InProgress \cup Terminal
      BY <1>3 DEF IInv, TypeOK, Status
    <3> QED BY <1>3, <2>4, <3>1, <3>2, AheadIsTransitive
  <2> QED BY <1>3, <2>1, <2>2, <2>3, <2>4 DEF EntryMoves
<1>4. ASSUME NEW j \in Job, mem'[j] # Absent PROVE Ahead(told'[j], mem'[j])
  BY <1>3, <1>4 DEF ApiInv, ToldInv
<1>5. ASSUME NEW j \in Job, told'[j] = "completed"
      PROVE  j \in result' /\ index'[audio'[j]] # NoJob
  BY <1>5, StoredStays DEF ApiInv, ToldInv
<1>6. ASSUME poll'.pc = "second_read"
      PROVE  /\ req'.pc \notin Busy /\ poll'.job < nextJob'
             /\ poll'.job \in Job /\ poll'.first \in InProgress \cup Terminal
             /\ mem'[poll'.job] # Absent =>
                  Ahead(told'[poll'.job], poll'.first) /\ Ahead(poll'.first, mem'[poll'.job])
             /\ poll'.first = "completed" =>
                  poll'.job \in result' /\ index'[audio'[poll'.job]] # NoJob
  <2>1. poll' = poll /\ req'.pc \notin Busy /\ nextJob' = nextJob
    BY <1>6
  <2>2. /\ poll.job \in Job /\ poll.first \in InProgress \cup Terminal
        /\ req.pc \notin Busy /\ poll.job < nextJob
    BY <1>6, <2>1 DEF ApiInv, ToldInv
  <2>3. mem'[poll.job] # Absent => mem[poll.job] # Absent
    <3>1. EntryMoves(poll.job)
      BY <2>2, EntryKeeps DEF ApiInv
    <3> QED BY <2>2, <3>1 DEF EntryMoves
  <2>4. mem'[poll.job] # Absent =>
          Ahead(told[poll.job], poll.first) /\ Ahead(poll.first, mem'[poll.job])
    BY <1>3, <1>6, <2>1, <2>2, <2>3 DEF ApiInv, ToldInv
  <2>5. poll.first = "completed" => poll.job \in result' /\ index'[audio'[poll.job]] # NoJob
    BY <1>6, <2>1, <2>2, StoredStays DEF ApiInv, ToldInv
  <2> QED BY <2>1, <2>2, <2>4, <2>5
<1> QED BY <1>1, <1>2, <1>4, <1>5, <1>6 DEF ToldInv

LEMMA ToldKeeps ==
  ASSUME ApiInv, IInv', [ApiNext]_apiVars
  PROVE  ToldInv'
<1> USE DEF ApiInv
<1>1. [Next]_vars
  BY ApiStepIsStep
<1>2. CASE Post \/ Die
  <2>1. told' = told /\ poll'.pc # "second_read"
    BY <1>2 DEF Post, Die
  <2> QED BY <1>1, <2>1, ServiceStep
<1>3. CASE Serve
  <2>1. told' = told /\ poll' = poll
    BY <1>3 DEF Serve
  <2> QED BY <1>1, <1>3, <2>1, ServiceStep, PollKeepsLoop
<1>4. CASE UNCHANGED <<vars, poll, told>>
  BY <1>4 DEF ToldInv, vars, memory, durable, ids
<1>5. ASSUME NEW j \in Job, ReadEntry(j) PROVE ToldInv'
  <2>1. /\ poll'.pc = "second_read" /\ poll'.job = j /\ poll'.first = mem[j]
        /\ mem[j] # Absent /\ j < nextJob /\ req.pc \notin Busy
        /\ UNCHANGED <<req, mem, result, index, audio, nextJob, told>>
    BY <1>5 DEF ReadEntry, LoopIsFree, Cached, Ready, Answered, Busy, vars, memory, durable, ids
  <2>2. mem[j] \in InProgress \cup Terminal
    BY <2>1, EntryType
  <2>3. Ahead(mem[j], mem[j])
    <3>1. Rank(mem[j]) \in Nat
      BY <2>2, Ranks DEF InProgress, Stage, Terminal
    <3> QED BY <3>1 DEF Ahead
  <2>4. mem[j] = "completed" => j \in result /\ index[audio[j]] # NoJob
    BY DEF EntryInv, StoredOf
  <2> QED BY <2>1, <2>2, <2>3, <2>4 DEF ToldInv
<1>6. CASE AnswerFromEntry
  <2>1. UNCHANGED <<req, mem, result, index, audio, nextJob>> /\ poll.pc = "second_read"
    BY <1>6 DEF AnswerFromEntry, vars, memory, durable, ids
  <2>2. CASE poll' = [poll EXCEPT !.pc = "error_500"] /\ told' = told
    <3>1. ASSUME poll'.pc = "second_read" PROVE poll' = poll
      BY <2>1, <2>2, <3>1
    <3> QED BY <2>1, <2>2, <3>1 DEF ToldInv
  <2>3. CASE /\ poll' = [pc |-> "idle", job |-> NoJob, first |-> Absent]
             /\ told' = [told EXCEPT ![poll.job] = poll.first]
    <3>1. /\ poll.job \in Job /\ poll.first \in InProgress \cup Terminal
          /\ req.pc \notin Busy /\ poll.job < nextJob
          /\ mem[poll.job] # Absent => Ahead(poll.first, mem[poll.job])
          /\ poll.first = "completed" => poll.job \in result /\ index[audio[poll.job]] # NoJob
      BY <2>1 DEF ToldInv
    <3>2. poll'.pc # "second_read"
      BY <2>3
    <3>3. /\ told' \in [Job -> {NotAsked, "not_found"} \cup InProgress \cup Terminal]
          /\ told'[poll.job] = poll.first
          /\ \A j \in Job \ {poll.job} : told'[j] = told[j]
      BY <2>3, <3>1 DEF ToldInv
    <3>4. ~(poll.job >= nextJob)
      BY <3>1 DEF IInv, TypeOK, Job
    <3> QED BY <2>1, <3>1, <3>2, <3>3, <3>4 DEF ToldInv
  <2> QED BY <1>6, <2>2, <2>3 DEF AnswerFromEntry
<1>7. ASSUME NEW j \in Job, AnswerFromDisk(j) PROVE ToldInv'
  <2>1. /\ UNCHANGED <<req, mem, result, index, audio, nextJob, poll>>
        /\ poll.pc # "second_read" /\ req.pc \notin Busy /\ j < nextJob /\ mem[j] = Absent
        /\ told' = [told EXCEPT ![j] = AnswerOnDisk(j)]
    BY <1>7 DEF AnswerFromDisk, LoopIsFree, Cached, Ready, Answered, Busy, vars, memory, durable, ids
  <2>2. AnswerOnDisk(j) \in {"not_found"} \cup Terminal
    BY DEF AnswerOnDisk, IInv, TypeOK, Status, Terminal
  <2>3. AnswerOnDisk(j) = "completed" => status[j] = "completed"
    BY DEF AnswerOnDisk
  <2>4. status[j] = "completed" => j \in result /\ index[audio[j]] # NoJob
    BY DEF IInv, DoneInv
  <2>5. /\ told' \in [Job -> {NotAsked, "not_found"} \cup InProgress \cup Terminal]
        /\ told'[j] = AnswerOnDisk(j) /\ \A k \in Job \ {j} : told'[k] = told[k]
    BY <2>1, <2>2 DEF ToldInv
  <2>6. ~(j >= nextJob)
    BY <2>1 DEF IInv, TypeOK, Job
  <2> QED BY <2>1, <2>3, <2>4, <2>5, <2>6 DEF ToldInv
<1> QED
  BY <1>2, <1>3, <1>4, <1>5, <1>6, <1>7 DEF ApiNext, Poll, Rest, apiVars

LEMMA InitApi == ApiInit => ApiInv
<1> SUFFICES ASSUME ApiInit PROVE ApiInv
  OBVIOUS
<1>1. IInv
  BY InitInv DEF ApiInit
<1>2. EntryInv
  BY DEF ApiInit, Init, EntryInv, EntryOf, StoredOf, Stage, Absent
<1>3. ToldInv
  <2>1. /\ told \in [Job -> {NotAsked, "not_found"} \cup InProgress \cup Terminal]
        /\ \A j \in Job : told[j] = NotAsked /\ mem[j] = Absent
    BY DEF ApiInit, Init
  <2>2. poll.pc # "second_read"
    BY DEF ApiInit
  <2>3. NotAsked # "completed"
    BY DEF NotAsked
  <2>4. \A j \in Job : told[j] # "completed"
    BY <2>1, <2>3
  <2> QED BY <2>1, <2>2, <2>4 DEF ToldInv
<1> QED BY <1>1, <1>2, <1>3 DEF ApiInv

LEMMA StepApi == ApiInv /\ [ApiNext]_apiVars => ApiInv'
<1> SUFFICES ASSUME ApiInv, [ApiNext]_apiVars PROVE ApiInv'
  OBVIOUS
<1>1. [Next]_vars
  BY ApiStepIsStep
<1>2. IInv'
  BY <1>1, StepInv DEF ApiInv
<1>3. EntryInv'
  <2>1. \A j \in Job : EntryOf(j)' /\ StoredOf(j)'
    BY <1>1, EntryKeeps, StoredKeeps DEF ApiInv
  <2> QED BY <2>1 DEF EntryInv
<1>4. ToldInv'
  BY <1>2, ToldKeeps
<1> QED BY <1>2, <1>3, <1>4 DEF ApiInv

(* The inductive invariant of the service and its clients.                 *)
THEOREM ApiInvariance == ApiSpec => []ApiInv
BY InitApi, StepApi, PTL DEF ApiSpec

(* Whoever was told "completed" finds the transcription, for ever.         *)
THEOREM CompletedAnswersAreTrue == ApiSpec => []ToldCompletedIsStored
<1>1. ApiInv => ToldCompletedIsStored
  <2> SUFFICES ASSUME ApiInv, NEW j \in Job, told[j] = "completed"
               PROVE  j \in result /\ LookupHash(audio[j]) # NoJob
    BY DEF ToldCompletedIsStored
  <2>1. j \in result /\ index[audio[j]] # NoJob
    BY DEF ApiInv, ToldInv
  <2>2. audio[j] \in Hash
    BY <2>1 DEF ApiInv, IInv, IdInv, TypeOK, Job
  <2> QED BY <2>1, <2>2 DEF ApiInv, IInv, IndexInv, LookupHash
<1> QED BY <1>1, ApiInvariance, PTL

(* While a job has an entry, no answer about it takes an earlier one back. *)
THEOREM AnswersNeverGoBack == ApiSpec => AnswersAdvance
<1>1. ASSUME ApiInv, [ApiNext]_apiVars, NEW j \in Job, Cached(j), told'[j] # told[j]
      PROVE  Rank(told[j]) < Rank(told'[j])
  <2>1. AnswerFromEntry
    BY <1>1 DEF ApiNext, Post, Serve, Die, Poll, ReadEntry, AnswerFromDisk, Rest, apiVars,
       ApiInv, ToldInv
  <2>2. poll.pc = "second_read" /\ told' = [told EXCEPT ![poll.job] = poll.first]
    BY <1>1, <2>1 DEF AnswerFromEntry
  <2>3. j = poll.job /\ told'[j] = poll.first
    BY <1>1, <2>2 DEF ApiInv, ToldInv
  <2>4. /\ Ahead(told[j], poll.first) /\ poll.first \in InProgress \cup Terminal
        /\ told[j] \in {NotAsked, "not_found"} \cup InProgress \cup Terminal
    BY <1>1, <2>2, <2>3 DEF ApiInv, ToldInv, Cached
  <2>5. told[j] \notin Terminal /\ told[j] # poll.first
    BY <1>1, <2>3, <2>4 DEF Ahead
  <2>6. ASSUME NEW a \in {NotAsked, "not_found"} \cup InProgress,
               NEW b \in InProgress \cup Terminal, a # b, Rank(a) <= Rank(b)
        PROVE  Rank(a) < Rank(b)
    BY <2>6, Ranks DEF InProgress, Stage, Terminal
  <2> QED BY <2>3, <2>4, <2>5, <2>6 DEF Ahead
<1>2. ApiInv /\ [ApiNext]_apiVars =>
        [\A j \in Job : Cached(j) /\ told'[j] # told[j] => Rank(told[j]) < Rank(told'[j])]_apiVars
  BY <1>1
<1> QED BY <1>2, ApiInvariance, PTL DEF ApiSpec, AnswersAdvance
=============================================================================
