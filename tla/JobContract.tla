----------------------------- MODULE JobContract -----------------------------
(***************************************************************************)
(* What the job service promises about each job, whatever happens in its   *)
(* memory: the durable outcome a client can still read after a restart.    *)
(* An accepted job ends at most once; it completes only after its          *)
(* transcription has been stored; and a job may be taken back only while   *)
(* nothing has been stored for it (its upload duplicated another one).     *)
(***************************************************************************)
CONSTANT Job

VARIABLES outcome,   \* what status.json says of each job
          artifact   \* the jobs whose transcription is stored

Outcome == {"none", "accepted", "completed", "failed"}

Init ==
  /\ outcome = [j \in Job |-> "none"]
  /\ artifact = {}

Accept(j) ==
  /\ outcome[j] = "none"
  /\ outcome' = [outcome EXCEPT ![j] = "accepted"]
  /\ UNCHANGED artifact

TakeBack(j) ==
  /\ outcome[j] = "accepted"
  /\ j \notin artifact
  /\ outcome' = [outcome EXCEPT ![j] = "none"]
  /\ UNCHANGED artifact

Store(j) ==
  /\ outcome[j] = "accepted"
  /\ artifact' = artifact \cup {j}
  /\ UNCHANGED outcome

Complete(j) ==
  /\ outcome[j] = "accepted"
  /\ j \in artifact
  /\ outcome' = [outcome EXCEPT ![j] = "completed"]
  /\ UNCHANGED artifact

(* One job fails, or a restart fails several that were under way.          *)
Abandon(lost) ==
  /\ \A j \in lost : outcome[j] = "accepted"
  /\ outcome' = [j \in Job |-> IF j \in lost THEN "failed" ELSE outcome[j]]
  /\ UNCHANGED artifact

Next ==
  \/ \E j \in Job : Accept(j) \/ TakeBack(j) \/ Store(j) \/ Complete(j)
  \/ \E lost \in SUBSET Job : Abandon(lost)

Spec == Init /\ [][Next]_<<outcome, artifact>>
=============================================================================
