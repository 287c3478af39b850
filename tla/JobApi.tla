------------------------------- MODULE JobApi -------------------------------
(***************************************************************************)
(* JobService together with its clients' view: GET /api/jobs/{id}.         *)
(*                                                                         *)
(* get_job runs on the same event loop as the upload handler, so the two   *)
(* never interleave; worker threads run between its two reads of the entry *)
(* in the jobs dictionary.  Without an entry it answers from disk, where   *)
(* it reads one status.json.                                               *)
(***************************************************************************)
EXTENDS JobService

VARIABLES poll,  \* the running GET: its program point, job and first read
          told   \* the last status each job's clients were given

apiVars == <<vars, poll, told>>

NotAsked == "not_asked"

ApiInit ==
  /\ Init
  /\ poll = [pc |-> "idle", job |-> NoJob, first |-> Absent]
  /\ told = [j \in Job |-> NotAsked]

LoopIsFree == up /\ req.pc \in Ready /\ poll.pc # "second_read"

(* The job has an entry: resp["status"] is read first.                     *)
ReadEntry(j) ==
  /\ LoopIsFree
  /\ j < nextJob
  /\ Cached(j)
  /\ poll' = [pc |-> "second_read", job |-> j, first |-> mem[j]]
  /\ UNCHANGED <<vars, told>>

(* job["status"] is read again to choose the body; job["result"] raises    *)
(* KeyError while the worker has set the status and not yet the result.    *)
AnswerFromEntry ==
  /\ poll.pc = "second_read"
  /\ IF mem[poll.job] = "completed" /\ poll.job \notin memResult
       THEN poll' = [poll EXCEPT !.pc = "error_500"] /\ UNCHANGED told
       ELSE /\ poll' = [pc |-> "idle", job |-> NoJob, first |-> Absent]
            /\ told' = [told EXCEPT ![poll.job] = poll.first]
  /\ UNCHANGED vars

(* The answer read from disk: a job found under way is taken for one that  *)
(* an earlier process left behind.                                         *)
AnswerOnDisk(j) ==
  CASE status[j] = Absent       -> "not_found"
    [] status[j] \in InProgress -> "failed"
    [] OTHER                    -> status[j]

AnswerFromDisk(j) ==
  /\ LoopIsFree
  /\ j < nextJob
  /\ ~ Cached(j)
  /\ told' = [told EXCEPT ![j] = AnswerOnDisk(j)]
  /\ UNCHANGED <<vars, poll>>

Poll == AnswerFromEntry \/ \E j \in Job : ReadEntry(j) \/ AnswerFromDisk(j)

(* A POST begins only when no GET is under way; a crash drops the GET.     *)
Post ==
  /\ poll.pc # "second_read"
  /\ \E h \in Hash : UploadKnown(h) \/ UploadNew(h)
  /\ UNCHANGED <<poll, told>>

Die ==
  /\ Crash
  /\ poll' = [pc |-> "idle", job |-> NoJob, first |-> Absent]
  /\ UNCHANGED told

Serve ==
  /\ Handler \/ Restart \/ \E j \in Job : Worker(j)
  /\ UNCHANGED <<poll, told>>

ApiNext == Post \/ Serve \/ Die \/ Poll \/ (Rest /\ UNCHANGED <<poll, told>>)

ApiSpec == ApiInit /\ [][ApiNext]_apiVars

-----------------------------------------------------------------------------
(* Properties.                                                             *)

Rank(s) ==
  CASE s \in {NotAsked, "not_found"} -> 0
    [] s = "queued"       -> 1
    [] s = "converting"   -> 2
    [] s = "denoising"    -> 3
    [] s = "transcribing" -> 4
    [] s = "identifying"  -> 5
    [] s \in Terminal     -> 6

(* The answers a client gets from memory only ever advance, although each  *)
(* is put together from two reads while the worker goes on: no poll takes  *)
(* a job back to an earlier stage, and none changes a terminal answer.     *)
AnswersAdvance ==
  [][\A j \in Job : Cached(j) /\ told'[j] # told[j] => Rank(told[j]) < Rank(told'[j])]_apiVars

(* A client that was told "completed" can fetch the transcription from     *)
(* then on, across evictions, failed writes and restarts.                  *)
ToldCompletedIsStored ==
  \A j \in Job : told[j] = "completed" => j \in result /\ LookupHash(audio[j]) # NoJob

(* "If a completed job is still present in memory, result is served from   *)
(* the in-memory job cache": polling a known job is never answered 500.    *)
PollNeverErrs == poll.pc # "error_500"
=============================================================================
