--------------------------- MODULE PipelineRun_proofs ---------------------------
(***************************************************************************)
(* The files of a pipeline run and what its result says, for any           *)
(* recordings, requests, providers and number of faults and crashes.       *)
(***************************************************************************)
EXTENDS PipelineRun, Segments_proofs, TLAPS

(* Where a run is, in the order it gets there.                             *)
Early    == {"ingest", "normalize"}
Hearing  == {"vad", "asr", "diarization", "embedding"}
Late     == {"voiceprint_match", "punc", "postprocess", "artifacts"}
Building == {"result", "npy"}
Over     == {"cleanup", "ended", "dead"}

PC == Early \cup {"enhance"} \cup Hearing \cup Late \cup Building \cup Over

Normalized == IF request.wav THEN "upload" ELSE "wav"

(* The audio: what was given stays, what is made is listed or its writer   *)
(* failed, and which file the next model is given.                         *)
GivenInv ==
  /\ disk \in [File -> {"none", "part", "whole"}]
  /\ disk["upload"] = "whole"
  /\ request.raw => disk["raw"] = "whole"

ListedInv ==
  /\ temps \in Seq(Temporary)
  /\ \A f \in Temporary :
       disk[f] # "none" => \/ f \in torn \cup stuck
                           \/ pc # "ended" /\ f \in ToSet(temps)

AudioInv ==
  /\ pc \in Early \cup {"enhance"} => disk["denoised"] = "none"
  /\ pc = "normalize" =>
       /\ working = "upload"
       /\ embedding = IF request.raw THEN "raw" ELSE "upload"
  /\ pc \in {"enhance"} \cup Hearing =>
       /\ disk[Normalized] = "whole"
       /\ working \in {Normalized, "denoised"}
       /\ disk["denoised"] = IF working = "denoised" THEN "whole" ELSE "none"
       /\ embedding = IF request.raw THEN "raw" ELSE Normalized

(* The stored files: none before the result is written, none that could be *)
(* unlinked after a failure, and all of them after a run that is done.     *)
BundleInv ==
  /\ npy \in [Label -> {"none", "part", "whole"}]
  /\ json \in BOOLEAN
  /\ outcome \in {"running", "done", "failed"}
  /\ outcome = "running" =>
       \A l \in Label : npy[l] \in {"none"} \cup (IF l \in voices THEN {"whole"} ELSE {})
  /\ pc \in Early \cup {"enhance"} \cup Hearing \cup Late \cup Building => outcome = "running"
  /\ pc \notin Over \cup {"npy"} => json = FALSE /\ \A l \in Label : npy[l] = "none"
  /\ pc \in Building => request.dir
  /\ pc = "npy" => json
  /\ pc \in {"cleanup", "ended"} /\ outcome # "failed" /\ request.dir =>
       json /\ \A l \in Label : npy[l] = IF l \in voices THEN "whole" ELSE "none"
  /\ outcome = "failed" =>
       /\ json => "result" \in stuck
       /\ \A l \in Label : npy[l] # "none" => l \in stuck

IInv == pc \in PC /\ GivenInv /\ ListedInv /\ AudioInv /\ BundleInv

-----------------------------------------------------------------------------
(* The stage after a stage is the next of the list.                        *)
LEMMA NextStage ==
  ASSUME NEW m \in 1..10
  PROVE  After(Stages[m]) = Stages[m + 1]
<1>1. DOMAIN Stages = 1..11 /\ Len(Stages) = 11
  BY DEF Stages
<1>2. \A i \in 1..11 : Stages[i] = Stages[m] => i = m
  BY DEF Stages
<1> DEFINE at == CHOOSE i \in DOMAIN Stages : Stages[i] = Stages[m]
<1>3. at = m
  BY <1>1, <1>2
<1>4. After(Stages[m]) = IF at = Len(Stages) THEN "cleanup" ELSE Stages[at + 1]
  BY DEF After
<1> HIDE DEF at
<1> QED BY <1>1, <1>3, <1>4

(* After the last stage comes the finally clause.                          *)
LEMMA LastStage == After("artifacts") = "cleanup"
<1>1. DOMAIN Stages = 1..11 /\ Len(Stages) = 11 /\ Stages[11] = "artifacts"
  BY DEF Stages
<1>2. \A i \in 1..11 : Stages[i] = "artifacts" => i = 11
  BY DEF Stages
<1>3. (CHOOSE i \in DOMAIN Stages : Stages[i] = "artifacts") = 11
  BY <1>1, <1>2
<1> QED BY <1>1, <1>3 DEF After

(* The stages in their order.                                              *)
LEMMA Order ==
  /\ After("ingest") = "normalize" /\ After("normalize") = "enhance"
  /\ After("enhance") = "vad" /\ After("vad") = "asr" /\ After("asr") = "diarization"
  /\ After("diarization") = "embedding" /\ After("embedding") = "voiceprint_match"
  /\ After("voiceprint_match") = "punc" /\ After("punc") = "postprocess"
  /\ After("postprocess") = "artifacts"
<1>1. /\ Stages[1] = "ingest" /\ Stages[2] = "normalize" /\ Stages[3] = "enhance"
      /\ Stages[4] = "vad" /\ Stages[5] = "asr" /\ Stages[6] = "diarization"
      /\ Stages[7] = "embedding" /\ Stages[8] = "voiceprint_match"
      /\ Stages[9] = "punc" /\ Stages[10] = "postprocess" /\ Stages[11] = "artifacts"
  BY DEF Stages
<1>2. \A k \in 1..10 : After(Stages[k]) = Stages[k + 1]
  BY NextStage
<1> QED BY <1>1, <1>2

(* The stages are those named here.                                        *)
LEMMA StageNames == ToSet(Stages) = Early \cup {"enhance"} \cup Hearing \cup Late
BY DEF ToSet, Stages, Early, Hearing, Late

(* A path more on the list of temporary files.                             *)
LEMMA Listing ==
  ASSUME NEW s \in Seq(Temporary), NEW f \in Temporary
  PROVE  Append(s, f) \in Seq(Temporary) /\ ToSet(Append(s, f)) = ToSet(s) \cup {f}
<1>1. /\ Append(s, f) \in Seq(Temporary) /\ DOMAIN s = 1..Len(s)
      /\ DOMAIN Append(s, f) = 1..(Len(s) + 1)
      /\ Append(s, f)[Len(s) + 1] = f /\ Len(s) \in Nat
      /\ \A k \in 1..Len(s) : Append(s, f)[k] = s[k]
  OBVIOUS
<1> DEFINE t == Append(s, f)
<1>2. ToSet(t) = {t[k] : k \in 1..(Len(s) + 1)} /\ ToSet(s) = {s[k] : k \in 1..Len(s)}
  BY <1>1 DEF ToSet
<1> HIDE DEF t
<1>3. t[Len(s) + 1] = f /\ \A k \in 1..Len(s) : t[k] = s[k]
  BY <1>1 DEF t
<1>4. \A k \in 1..(Len(s) + 1) : k \in 1..Len(s) \/ k = Len(s) + 1
  BY <1>1
<1>5. \A k \in 1..Len(s) : k \in 1..(Len(s) + 1)
  BY <1>1
<1>6. Len(s) + 1 \in 1..(Len(s) + 1)
  BY <1>1
<1> QED BY <1>1, <1>2, <1>3, <1>4, <1>5, <1>6 DEF t

-----------------------------------------------------------------------------
(* The invariant holds initially.                                          *)
LEMMA InitHolds == Init => IInv
<1> SUFFICES ASSUME Init PROVE IInv
  OBVIOUS
<1>1. pc = "ingest"
  BY DEF Init, Stages
<1>2. GivenInv
  BY DEF Init, GivenInv, File, Temporary
<1>3. disk["wav"] = "none" /\ disk["denoised"] = "none" /\ temps = <<>>
  BY DEF Init, File, Temporary
<1>4. ListedInv
  BY <1>3 DEF ListedInv, Temporary
<1>5. AudioInv
  BY <1>1, <1>3 DEF AudioInv, Hearing
<1>6. BundleInv
  BY <1>1 DEF Init, BundleInv, Over, Building
<1> QED BY <1>1, <1>2, <1>4, <1>5, <1>6 DEF IInv, PC, Early

(* A step that leaves the files and the paths alone, and moves on.         *)
LEMMA DataStep ==
  ASSUME IInv, UNCHANGED <<request, disk, paths, bundle, outcome, history>>,
         \/ pc \in Hearing /\ pc' \in Hearing \cup Late
         \/ pc \in {"enhance"} /\ pc' = "vad"
         \/ pc \in Late /\ pc' \in Late
  PROVE  IInv'
<1> USE DEF Early, Hearing, Late, Building, Over
<1>1. pc' \in PC
  BY DEF PC
<1>2. GivenInv' /\ ListedInv'
  BY DEF IInv, GivenInv, ListedInv, paths, history
<1>3. AudioInv'
  BY DEF IInv, AudioInv, Normalized, paths
<1>4. BundleInv'
  BY DEF IInv, BundleInv, bundle, history
<1> QED BY <1>1, <1>2, <1>3, <1>4 DEF IInv

(* A stage raises: the files it may have spoilt are known.                 *)
LEMMA AbortStep ==
  ASSUME IInv, Abort, pc \in Early \cup {"enhance"} \cup Hearing \cup Late \cup {"result"},
         UNCHANGED <<bundle, stuck>>,
         \/ disk' = disk /\ torn' = torn
         \/ disk' = [disk EXCEPT !["wav"] = "none"] /\ torn' = torn
         \/ \E f \in Temporary : disk' = [disk EXCEPT ![f] = "part"] /\ torn' = torn \cup {f}
  PROVE  IInv'
<1> USE DEF Early, Hearing, Late, Building, Over
<1>1. pc' = "cleanup" /\ outcome' = "failed" /\ UNCHANGED <<request, temps, voices>>
  BY DEF Abort, given, paths, data
<1>2. GivenInv'
  BY <1>1 DEF IInv, GivenInv, File, Temporary
<1>3. ListedInv'
  <2>1. ASSUME NEW f \in Temporary, disk'[f] # "none" PROVE f \in torn' \/ disk[f] # "none"
    BY <2>1 DEF IInv, GivenInv, File, Temporary
  <2>2. torn \subseteq torn'
    OBVIOUS
  <2> QED BY <1>1, <2>1, <2>2 DEF IInv, ListedInv
<1>4. AudioInv'
  BY <1>1 DEF AudioInv
<1>5. BundleInv'
  BY <1>1 DEF IInv, BundleInv, bundle
<1> QED BY <1>1, <1>2, <1>3, <1>4, <1>5 DEF IInv, PC

(* Every way a stage raises.                                               *)
LEMMA AbortsHold ==
  ASSUME IInv, \/ NoProvider \/ StageRaises \/ NormalizeTimesOut \/ NormalizeFails
               \/ EnhanceFails \/ KernelRefused \/ WriteResultFails
  PROVE  IInv'
<1>1. /\ Abort /\ pc \in Early \cup {"enhance"} \cup Hearing \cup Late \cup {"result"}
      /\ UNCHANGED <<bundle, stuck>>
  BY StageNames DEF NoProvider, StageRaises, NormalizeTimesOut, NormalizeFails, EnhanceFails,
     KernelRefused, WriteResultFails, Runs, history, Early, Hearing, Late
<1>2. \/ disk' = disk /\ torn' = torn
      \/ disk' = [disk EXCEPT !["wav"] = "none"] /\ torn' = torn
      \/ \E f \in Temporary : disk' = [disk EXCEPT ![f] = "part"] /\ torn' = torn \cup {f}
  BY DEF NoProvider, StageRaises, NormalizeTimesOut, NormalizeFails, EnhanceFails,
     KernelRefused, WriteResultFails, history, Temporary
<1> QED BY <1>1, <1>2, AbortStep

(* Ingest keeps the invariant.                                             *)
LEMMA IngestHolds == ASSUME IInv, Ingest PROVE IInv'
<1> USE DEF Early, Hearing, Late, Building, Over
<1>1. /\ pc = "ingest" /\ pc' = "normalize" /\ working' = "upload"
      /\ embedding' = IF request.raw THEN "raw" ELSE "upload"
      /\ UNCHANGED <<request, outcome, disk, temps, voices, bundle, torn, stuck>>
  BY Order DEF Ingest, Runs, Hands, given, data, history
<1>2. GivenInv' /\ ListedInv'
  BY <1>1 DEF IInv, GivenInv, ListedInv
<1>3. AudioInv' /\ BundleInv'
  BY <1>1 DEF IInv, AudioInv, BundleInv, bundle
<1> QED BY <1>1, <1>2, <1>3 DEF IInv, PC

(* So does normalize: the WAV it made is listed.                           *)
LEMMA NormalizeHolds == ASSUME IInv, Normalize PROVE IInv'
<1> USE DEF Early, Hearing, Late, Building, Over
<1>1. /\ pc = "normalize" /\ pc' = "enhance" /\ working' = Normalized
      /\ embedding' = IF request.raw THEN embedding ELSE Normalized
      /\ disk' = [disk EXCEPT ![Normalized] = "whole"]
      /\ NormalizeLists(Normalized)
      /\ UNCHANGED <<request, outcome, voices, bundle, torn, stuck>>
  BY Order DEF Normalize, Runs, Hands, Normalized, given, data, history
<1>2. Normalized \in {"upload", "wav"} /\ Normalized \in File
  BY DEF Normalized, File, Temporary
<1>3. GivenInv'
  BY <1>1, <1>2 DEF IInv, GivenInv, File, Temporary
<1>4. ListedInv'
  <2>1. CASE Normalized = "upload"
    BY <1>1, <2>1 DEF IInv, ListedInv, NormalizeLists, GivenInv, File, Temporary
  <2>2. CASE Normalized = "wav"
    <3>1. temps' = Append(temps, "wav") /\ "wav" \in Temporary
      BY <1>1, <2>2 DEF NormalizeLists, Temporary
    <3>2. temps' \in Seq(Temporary) /\ ToSet(temps') = ToSet(temps) \cup {"wav"}
      BY <3>1, Listing DEF IInv, ListedInv
    <3>3. \A f \in Temporary \ {"wav"} : disk'[f] = disk[f]
      BY <1>1, <2>2 DEF IInv, GivenInv, File
    <3> QED BY <1>1, <3>2, <3>3 DEF IInv, ListedInv
  <2> QED BY <1>2, <2>1, <2>2
<1>5. AudioInv'
  <2>1. /\ disk'[Normalized] = "whole" /\ disk'["denoised"] = disk["denoised"]
        /\ Normalized' = Normalized
    BY <1>1, <1>2 DEF IInv, GivenInv, File, Temporary, Normalized
  <2> QED BY <1>1, <1>2, <2>1 DEF IInv, AudioInv
<1>6. BundleInv'
  BY <1>1 DEF IInv, BundleInv, bundle
<1> QED BY <1>1, <1>3, <1>4, <1>5, <1>6 DEF IInv, PC

(* So does enhance: the denoised audio is listed.                          *)
LEMMA EnhanceHolds == ASSUME IInv, Enhance PROVE IInv'
<1> USE DEF Early, Hearing, Late, Building, Over
<1>1. /\ pc = "enhance" /\ pc' = "vad" /\ working' = "denoised"
      /\ embedding' = embedding /\ temps' = Append(temps, "denoised")
      /\ disk' = [disk EXCEPT !["denoised"] = "whole"]
      /\ UNCHANGED <<request, outcome, voices, bundle, torn, stuck>>
  BY Order DEF Enhance, EnhanceMoves, EmbeddingStays, Runs, Hands, given, data, history
<1>2. GivenInv'
  BY <1>1 DEF IInv, GivenInv, File, Temporary
<1>3. ListedInv'
  <2>1. "denoised" \in Temporary
    BY DEF Temporary
  <2>2. temps' \in Seq(Temporary) /\ ToSet(temps') = ToSet(temps) \cup {"denoised"}
    BY <1>1, <2>1, Listing DEF IInv, ListedInv
  <2>3. \A f \in Temporary \ {"denoised"} : disk'[f] = disk[f]
    BY <1>1 DEF IInv, GivenInv, File
  <2> QED BY <1>1, <2>2, <2>3 DEF IInv, ListedInv
<1>4. AudioInv'
  <2>1. /\ disk'["denoised"] = "whole" /\ disk'[Normalized] = disk[Normalized]
        /\ Normalized' = Normalized
    BY <1>1 DEF IInv, GivenInv, File, Temporary, Normalized
  <2> QED BY <1>1, <2>1 DEF IInv, AudioInv
<1>5. BundleInv'
  BY <1>1 DEF IInv, BundleInv, bundle
<1> QED BY <1>1, <1>2, <1>3, <1>4, <1>5 DEF IInv, PC

(* So do the stages that touch no file.                                    *)
LEMMA StagesHold ==
  ASSUME IInv, \/ EnhanceSkips
               \/ \E s \in {"vad", "punc", "postprocess"} : PassThrough(s)
               \/ Asr \/ Diarization \/ VoiceprintMatch
  PROVE  IInv'
<1>1. UNCHANGED <<request, disk, paths, bundle, outcome, history>>
  BY DEF EnhanceSkips, PassThrough, Asr, Diarization, VoiceprintMatch, Hands, given, paths
<1>2. \/ pc \in Hearing /\ pc' \in Hearing \cup Late
      \/ pc \in {"enhance"} /\ pc' = "vad"
      \/ pc \in Late /\ pc' \in Late
  BY Order DEF EnhanceSkips, PassThrough, Asr, Diarization, VoiceprintMatch, Hands, Runs,
     Hearing, Late
<1> QED BY <1>1, <1>2, DataStep

(* The embeddings of a run are those of its labels from here on.           *)
LEMMA EmbeddingHolds == ASSUME IInv, Embedding PROVE IInv'
<1>1. UNCHANGED <<request, disk, paths, bundle, outcome, history>>
  BY DEF Embedding, Hands, given, paths
<1>2. pc \in Hearing /\ pc' \in Late
  BY Order DEF Embedding, Hands, Runs, Hearing, Late
<1> QED BY <1>1, <1>2, DataStep

-----------------------------------------------------------------------------
(* The result is built, stored and the run ends.                           *)

(* Building and writing the result.                                        *)
LEMMA BuildHolds == ASSUME IInv, BuildInMemory \/ Build \/ WriteResult PROVE IInv'
<1> USE DEF Early, Hearing, Late, Building, Over
<1>1. UNCHANGED <<request, disk, paths, voices, npy, outcome, history>>
  BY DEF BuildInMemory, Build, WriteResult, Hands, given, paths, data, bundle
<1>2. \/ pc = "artifacts" /\ pc' = "cleanup" /\ ~request.dir /\ json' = json
      \/ pc = "artifacts" /\ pc' = "result" /\ request.dir /\ json' = json
      \/ pc = "result" /\ pc' = "npy" /\ json' = TRUE
  BY LastStage DEF BuildInMemory, Build, WriteResult, Hands, Runs, bundle
<1>3. pc = "result" => request.dir
  BY DEF IInv, BundleInv
<1>4. GivenInv' /\ ListedInv' /\ AudioInv'
  BY <1>1, <1>2 DEF IInv, GivenInv, ListedInv, AudioInv, paths, history
<1>5. BundleInv'
  BY <1>1, <1>2, <1>3 DEF IInv, BundleInv, history
<1> QED BY <1>2, <1>4, <1>5 DEF IInv, PC

(* An embedding is saved.                                                  *)
LEMMA SaveHolds == ASSUME IInv, NEW l \in Label, SaveEmbedding(l) PROVE IInv'
<1> USE DEF Early, Hearing, Late, Building, Over
<1>1. /\ pc = "npy" /\ pc' = "npy" /\ l \in voices /\ npy' = [npy EXCEPT ![l] = "whole"]
      /\ UNCHANGED <<request, disk, paths, voices, json, outcome, history>>
  BY DEF SaveEmbedding, given, data
<1>2. GivenInv' /\ ListedInv' /\ AudioInv'
  BY <1>1 DEF IInv, GivenInv, ListedInv, AudioInv, paths, history
<1>3. BundleInv'
  BY <1>1 DEF IInv, BundleInv, history
<1> QED BY <1>1, <1>2, <1>3 DEF IInv, PC

(* A save fails, and what was written is removed as far as it can be.      *)
LEMMA SaveFailsHolds == ASSUME IInv, NEW l \in Label, SaveEmbeddingFails(l) PROVE IInv'
<1> USE DEF Early, Hearing, Late, Building, Over
<1>1. /\ pc = "npy" /\ pc' = "cleanup" /\ outcome' = "failed"
      /\ UNCHANGED <<request, disk, temps, torn>>
  BY DEF SaveEmbeddingFails, Abort, given, paths
<1>2. PICK left : /\ npy' = [m \in Label |-> IF m \notin left THEN "none"
                                          ELSE IF m = l THEN "part" ELSE npy[m]]
                  /\ json' = ("result" \in left)
                  /\ stuck' = stuck \cup left
  BY DEF SaveEmbeddingFails, Rollback
<1>3. GivenInv'
  BY <1>1 DEF IInv, GivenInv
<1>4. ListedInv'
  BY <1>1, <1>2 DEF IInv, ListedInv
<1>5. AudioInv'
  BY <1>1 DEF AudioInv
<1>6. BundleInv'
  <2>1. npy \in [Label -> {"none", "part", "whole"}]
    BY DEF IInv, BundleInv
  <2>2. npy' \in [Label -> {"none", "part", "whole"}] /\ json' \in BOOLEAN
    BY <1>2, <2>1
  <2>3. \A m \in Label : npy'[m] # "none" => m \in stuck'
    BY <1>2
  <2>4. json' => "result" \in stuck'
    BY <1>2
  <2> QED BY <1>1, <2>2, <2>3, <2>4 DEF BundleInv
<1> QED BY <1>1, <1>3, <1>4, <1>5, <1>6 DEF IInv, PC

(* Every embedding is saved.                                               *)
LEMMA StoredHolds == ASSUME IInv, Stored PROVE IInv'
<1> USE DEF Early, Hearing, Late, Building, Over
<1>1. /\ pc = "npy" /\ pc' = "cleanup" /\ \A l \in voices : npy[l] # "none"
      /\ UNCHANGED <<request, disk, paths, voices, bundle, outcome, history>>
  BY LastStage DEF Stored, Hands, given, data
<1>2. GivenInv' /\ ListedInv' /\ AudioInv'
  BY <1>1 DEF IInv, GivenInv, ListedInv, AudioInv, paths, history
<1>3. outcome = "running"
  BY <1>1 DEF IInv, BundleInv
<1>4. \A l \in Label : npy[l] = IF l \in voices THEN "whole" ELSE "none"
  BY <1>1, <1>3 DEF IInv, BundleInv
<1>5. BundleInv'
  BY <1>1, <1>3, <1>4 DEF IInv, BundleInv, bundle, history
<1> QED BY <1>1, <1>2, <1>5 DEF IInv, PC

(* The temporary files are removed as far as they can be.                  *)
LEMMA CleanupHolds == ASSUME IInv, Cleanup PROVE IInv'
<1> USE DEF Early, Hearing, Late, Building, Over
<1>1. /\ pc = "cleanup" /\ pc' = "ended"
      /\ outcome' = IF outcome = "failed" THEN "failed" ELSE "done"
      /\ UNCHANGED <<request, paths, voices, bundle, torn>>
  BY DEF Cleanup, given, data
<1>2. PICK left : CleanupGeneratedFiles(left) /\ stuck' = stuck \cup left
  BY DEF Cleanup
<1>3. ToSet(temps) \subseteq Temporary
  BY DEF IInv, ListedInv, ToSet
<1>4. \A f \in File : disk'[f] = IF f \in ToSet(temps) \ left THEN "none" ELSE disk[f]
  BY <1>2 DEF CleanupGeneratedFiles
<1>5. GivenInv'
  <2>1. "upload" \in File \ Temporary /\ "raw" \in File \ Temporary
    BY DEF File, Temporary
  <2>2. disk' \in [File -> {"none", "part", "whole"}]
    BY <1>2 DEF CleanupGeneratedFiles, IInv, GivenInv
  <2> QED BY <1>1, <1>3, <1>4, <2>1, <2>2 DEF IInv, GivenInv
<1>6. ListedInv'
  <2>1. Temporary \subseteq File /\ temps' = temps
    BY <1>1 DEF File, paths
  <2> QED BY <1>1, <1>2, <1>4, <2>1 DEF IInv, ListedInv
<1>7. AudioInv'
  BY <1>1 DEF AudioInv
<1>8. BundleInv'
  BY <1>1, <1>2 DEF IInv, BundleInv, bundle
<1> QED BY <1>1, <1>5, <1>6, <1>7, <1>8 DEF IInv, PC

(* The process dies.                                                       *)
LEMMA CrashHolds == ASSUME IInv, Crash PROVE IInv'
<1> USE DEF Early, Hearing, Late, Building, Over
<1>1. /\ pc # "ended" /\ pc' = "dead"
      /\ UNCHANGED <<request, disk, paths, voices, bundle, outcome, history>>
  BY DEF Crash, given, data
<1> QED
  BY <1>1 DEF IInv, PC, GivenInv, ListedInv, AudioInv, BundleInv, paths, bundle, history

(* Every step keeps the invariant.                                         *)
LEMMA StepHolds == IInv /\ [Next]_vars => IInv'
<1> SUFFICES ASSUME IInv, [Next]_vars PROVE IInv'
  OBVIOUS
<1>1. CASE UNCHANGED vars
  BY <1>1 DEF vars, given, paths, data, bundle, history, IInv, GivenInv, ListedInv, AudioInv,
     BundleInv, Normalized
<1> QED
  BY <1>1, AbortsHold, IngestHolds, NormalizeHolds, EnhanceHolds, StagesHold, EmbeddingHolds,
     BuildHolds, SaveHolds, SaveFailsHolds, StoredHolds, CleanupHolds, CrashHolds DEF Next

(* The inductive invariant holds in every reachable state of a run: which  *)
(* file is where, which are listed for removal, and what has been stored.  *)
THEOREM Invariance == Spec => []IInv
BY InitHolds, StepHolds, PTL DEF Spec

(* A run that ends leaves the upload and the raw audio and nothing it made *)
(* on the way, but for files whose writer failed or whose unlinking did.   *)
THEOREM NoTraceIsLeft == Spec => []LeavesNoTrace
<1>1. IInv => LeavesNoTrace
  BY DEF IInv, LeavesNoTrace, GivenInv, ListedInv
<1> QED BY <1>1, Invariance, PTL

(* Every model is given a whole file, and the right one.                   *)
THEOREM TheRightAudioIsRead == Spec => []ReadsTheRightAudio
<1>1. IInv => ReadsTheRightAudio
  <2> SUFFICES ASSUME IInv PROVE ReadsTheRightAudio
    OBVIOUS
  <2>1. ASSUME pc \in {"asr", "diarization"}
        PROVE  disk[working] = "whole" /\ (disk["denoised"] = "whole" => working = "denoised")
    BY <2>1 DEF IInv, AudioInv, Hearing
  <2>2. ASSUME pc = "embedding"
        PROVE  /\ disk[embedding] = "whole"
               /\ embedding = IF request.raw THEN "raw"
                              ELSE IF request.wav THEN "upload" ELSE "wav"
    BY <2>2 DEF IInv, AudioInv, GivenInv, Hearing, Normalized
  <2> QED BY <2>1, <2>2 DEF ReadsTheRightAudio
<1> QED BY <1>1, Invariance, PTL

(* A run that is done has stored its result with every embedding; a failed *)
(* one has stored nothing that could be unlinked.                          *)
THEOREM BundleIsStoredWhole == Spec => []StoredBundleIsWhole
<1>1. IInv => StoredBundleIsWhole
  BY DEF IInv, StoredBundleIsWhole, BundleInv
<1> QED BY <1>1, Invariance, PTL

-----------------------------------------------------------------------------
(* What is said.  From one stage to the next: what was heard is what the   *)
(* guard leaves, the pieces are what the aligner makes of it, whichever    *)
(* segments it is able to align, what is aligned comes from them and from  *)
(* the turns, every label of the map has a name that can be numbered, and  *)
(* the result comes from the aligned segments and the map.                 *)
Talking == {"embedding", "voiceprint_match", "punc", "postprocess", "artifacts", "result"}

Cuttings == {ForcedAlignment(heard, recording.cut, able) : able \in SUBSET DOMAIN recording.cut}

TalkInv ==
  /\ recording \in Recordings
  /\ pc \in {"diarization"} \cup Talking => heard = Guarded(recording.heard)
  /\ pc \in Talking =>
       /\ turns = recording.turns
       /\ pieces \in Cuttings
       /\ aligned = DedupShort(Aligned(pieces, turns))
  /\ voices \in SUBSET Label

NameInv == \A l \in DOMAIN map : map[l].name \in Name

BuiltInv ==
  pc = "result" =>
    \/ /\ result = ResultSegments(aligned, map)
       /\ unique = UniqueSpeakers(result)
    \/ /\ request.kernel
       /\ result = KernelResult(aligned, map).segments
       /\ unique = KernelResult(aligned, map).unique

SaidInv == TalkInv /\ NameInv /\ BuiltInv

(* Nothing is said at first.                                               *)
LEMMA SaidInit == Init => SaidInv
<1> SUFFICES ASSUME Init PROVE SaidInv
  OBVIOUS
<1>1. pc = "ingest" /\ recording \in Recordings /\ voices = {} /\ map = <<>>
  BY DEF Init, Stages
<1>2. NameInv
  BY <1>1 DEF NameInv
<1> QED BY <1>1, <1>2 DEF SaidInv, TalkInv, BuiltInv, Talking

(* A step that leaves what is heard and said alone.                        *)
LEMMA SilentStep ==
  ASSUME SaidInv, UNCHANGED <<given, data>>,
         \/ pc' \notin {"diarization"} \cup Talking
         \/ pc \in {"voiceprint_match", "punc", "postprocess"} /\ pc' \in Talking \ {"result"}
         \/ pc' = pc
  PROVE  SaidInv'
<1>1. UNCHANGED <<request, recording, heard, turns, pieces, aligned, voices, map, result, unique>>
  BY DEF given, data
<1>2. TalkInv' /\ NameInv'
  BY <1>1, Zenon DEF SaidInv, TalkInv, NameInv, Talking, Cuttings
<1>3. BuiltInv'
  BY <1>1 DEF SaidInv, BuiltInv, Talking
<1> QED BY <1>2, <1>3 DEF SaidInv

(* Every step but those of the models and the building of the result.      *)
LEMMA SilentSteps ==
  ASSUME SaidInv,
         \/ NoProvider \/ StageRaises \/ Ingest
         \/ Normalize \/ NormalizeTimesOut \/ NormalizeFails
         \/ EnhanceSkips \/ Enhance \/ EnhanceFails
         \/ \E s \in {"vad", "punc", "postprocess"} : PassThrough(s)
         \/ KernelRefused \/ WriteResult \/ WriteResultFails
         \/ \E l \in Label : SaveEmbedding(l) \/ SaveEmbeddingFails(l)
         \/ Stored \/ Cleanup \/ Crash
  PROVE  SaidInv'
<1>1. UNCHANGED <<given, data>>
  BY DEF NoProvider, StageRaises, Ingest, Normalize, NormalizeTimesOut, NormalizeFails,
     EnhanceSkips, Enhance, EnhanceFails, PassThrough, KernelRefused, WriteResult,
     WriteResultFails, SaveEmbedding, SaveEmbeddingFails, Stored, Cleanup, Crash, Abort, Hands
<1>2. \/ pc' \notin {"diarization"} \cup Talking
      \/ pc \in {"voiceprint_match", "punc", "postprocess"} /\ pc' \in Talking \ {"result"}
      \/ pc' = pc
  BY Order, LastStage DEF NoProvider, StageRaises, Ingest, Normalize, NormalizeTimesOut,
     NormalizeFails, EnhanceSkips, Enhance, EnhanceFails, PassThrough, KernelRefused,
     WriteResult, WriteResultFails, SaveEmbedding, SaveEmbeddingFails, Stored, Cleanup, Crash,
     Abort, Hands, Runs, Talking
<1> QED BY <1>1, <1>2, SilentStep

(* Transcription: the guard goes over what Whisper hears.                  *)
LEMMA AsrSays == ASSUME SaidInv, Asr PROVE SaidInv'
<1>1. /\ pc' = "diarization" /\ heard' = Guarded(recording.heard)
      /\ UNCHANGED <<recording, voices, map>>
  BY Order DEF Asr, Hands, Runs, given
<1>2. TalkInv'
  BY <1>1, Zenon DEF SaidInv, TalkInv, Talking
<1> QED BY <1>1, <1>2 DEF SaidInv, NameInv, BuiltInv

(* Diarization: the turns, the pieces, and the aligned segments made of    *)
(* both.                                                                   *)
LEMMA DiarizationSays == ASSUME SaidInv, Diarization PROVE SaidInv'
<1>1. /\ pc = "diarization" /\ pc' = "embedding" /\ turns' = recording.turns
      /\ UNCHANGED <<recording, heard, voices, map>>
  BY Order DEF Diarization, Hands, Runs, given
<1>2. PICK able \in SUBSET DOMAIN recording.cut :
        pieces' = ForcedAlignment(heard, recording.cut, able)
  <2>1. PICK able \in IF request.align THEN SUBSET DOMAIN recording.cut ELSE {{}} :
          pieces' = ForcedAlignment(heard, recording.cut, able)
    BY Zenon DEF Diarization
  <2> QED BY <2>1
<1>3. pieces' \in Cuttings' /\ aligned' = DedupShort(Aligned(pieces', turns'))
  BY <1>1, <1>2 DEF Cuttings, Diarization
<1>4. TalkInv'
  BY <1>1, <1>3 DEF SaidInv, TalkInv, Talking
<1> QED BY <1>1, <1>4 DEF SaidInv, NameInv, BuiltInv

(* Embedding: only labels of turns get a voice.                            *)
LEMMA EmbeddingSays == ASSUME SaidInv, Embedding PROVE SaidInv'
<1>1. /\ pc = "embedding" /\ pc' = "voiceprint_match"
      /\ UNCHANGED <<recording, heard, turns, pieces, aligned, map>>
  BY Order DEF Embedding, Hands, Runs, given
<1>2. voices' \in SUBSET Label
  <2>1. turns = recording.turns /\ recording \in Recordings
    BY <1>1 DEF SaidInv, TalkInv, Talking
  <2>2. turns \in Seq(TurnOf(Label))
    BY <2>1, RecordingsAssumption DEF TurnOf
  <2>3. \A i \in DOMAIN turns : turns[i].speaker \in Label
    <3> DEFINE R == TurnOf(Label)
    <3>1. \A t \in R : t.speaker \in Label
      BY DEF TurnOf
    <3> HIDE DEF R
    <3> QED BY <2>2, <3>1 DEF R
  <2>4. PICK read \in SUBSET DOMAIN turns : voices' = {turns[i].speaker : i \in read}
    BY DEF Embedding
  <2> QED BY <2>3, <2>4
<1>3. TalkInv'
  BY <1>1, <1>2 DEF SaidInv, TalkInv, Talking, Cuttings
<1> QED BY <1>1, <1>3 DEF SaidInv, NameInv, BuiltInv

(* Matching: a label is called by its own name or that of a speaker.       *)
LEMMA MatchSays == ASSUME SaidInv, VoiceprintMatch PROVE SaidInv'
<1>1. /\ pc = "voiceprint_match" /\ pc' = "punc"
      /\ UNCHANGED <<recording, heard, turns, pieces, aligned, voices>>
  BY Order DEF VoiceprintMatch, Hands, Runs, given
<1>2. TalkInv'
  BY <1>1 DEF SaidInv, TalkInv, Talking, Cuttings
<1>3. NameInv'
  <2>1. CASE ~request.db
    BY <2>1 DEF VoiceprintMatch, NameInv
  <2>2. CASE request.db
    <3>1. PICK who \in [voices -> Speaker \cup {NoId}] : map' = [l \in voices |-> Entry(l, who[l])]
      BY <2>2 DEF VoiceprintMatch
    <3>2. \A l \in voices : l \in Label
      BY DEF SaidInv, TalkInv
    <3> QED BY <3>1, <3>2 DEF NameInv, Entry, Name
  <2> QED BY <2>1, <2>2
<1> QED BY <1>1, <1>2, <1>3 DEF SaidInv, BuiltInv

(* The result is built.                                                    *)
LEMMA BuildSays == ASSUME SaidInv, BuildInMemory \/ Build PROVE SaidInv'
<1>1. CASE BuildInMemory
  <2>1. pc' = "cleanup" /\ UNCHANGED <<recording, voices, map>>
    BY <1>1, LastStage DEF BuildInMemory, Hands, Runs, given
  <2> QED BY <2>1 DEF SaidInv, TalkInv, NameInv, BuiltInv, Talking
<1>2. CASE Build
  <2>1. pc = "artifacts" /\ pc' = "result"
        /\ UNCHANGED <<request, recording, heard, turns, pieces, aligned, voices, map>>
    BY <1>2 DEF Build, Runs, given
  <2>2. TalkInv' /\ NameInv'
    BY <2>1 DEF SaidInv, TalkInv, NameInv, Talking, Cuttings
  <2>3. BuiltInv'
    BY <1>2, <2>1 DEF Build, BuiltInv
  <2> QED BY <2>2, <2>3 DEF SaidInv
<1> QED BY <1>1, <1>2

(* Every step keeps what is said.                                          *)
LEMMA SaidStep == SaidInv /\ [Next]_vars => SaidInv'
<1> SUFFICES ASSUME SaidInv, [Next]_vars PROVE SaidInv'
  OBVIOUS
<1>1. CASE UNCHANGED vars
  <2>1. UNCHANGED <<given, data>> /\ pc' = pc
    BY <1>1 DEF vars
  <2> QED BY <2>1, SilentStep
<1>2. CASE Next
  BY <1>2, SilentSteps, AsrSays, DiarizationSays, EmbeddingSays, MatchSays, BuildSays DEF Next
<1> QED BY <1>1, <1>2

(* What is said in every reachable state.                                  *)
THEOREM SaidInvariance == Spec => []SaidInv
BY SaidInit, SaidStep, PTL DEF Spec

(* The types of what the result is built from.                             *)
LEMMA Typed ==
  ASSUME TalkInv, pc \in {"diarization"} \cup Talking
  PROVE  /\ recording.heard \in Seq(Heard(STRING)) /\ InOrder(recording.heard)
         /\ recording.turns \in Seq(TurnOf(Label))
         /\ heard \in Seq(Heard(STRING)) /\ InOrder(heard)
<1>1. recording \in Recordings /\ heard = Guarded(recording.heard)
  BY DEF TalkInv
<1>2. recording.heard \in Seq(Heard(STRING)) /\ InOrder(recording.heard)
  BY <1>1, RecordingsAssumption DEF Heard, InOrder
<1>3. recording.turns \in Seq(TurnOf(Label))
  BY <1>1, RecordingsAssumption DEF TurnOf
<1>4. heard \in Seq(Heard(STRING)) /\ InOrder(heard)
  <2> DEFINE h == recording.heard
  <2>1. h \in Seq(Heard(STRING)) /\ InOrder(h)
    BY <1>2
  <2>2. heard = Without(h, Suppressed(h))
    BY <1>1 DEF Guarded
  <2> HIDE DEF h
  <2> QED BY <2>1, <2>2, WithoutKeeps
<1> QED BY <1>2, <1>3, <1>4

(* The pieces are pieces of what was heard.                                *)
LEMMA PiecesTyped ==
  ASSUME TalkInv, pc \in Talking
  PROVE  PiecesOf(pieces, STRING) /\ turns \in Seq(TurnOf(Label))
<1> DEFINE cut == recording.cut
           W(Text) == [start : Nat, end : Nat, text : Seq(Text), words : {TRUE}]
<1>1. heard \in Seq(Heard(STRING)) /\ InOrder(heard) /\ turns \in Seq(TurnOf(Label))
  BY Typed DEF TalkInv
<1>2. PICK able \in SUBSET DOMAIN cut : pieces = ForcedAlignment(heard, cut, able)
  BY DEF TalkInv, Cuttings
<1>3. \A s \in able : cut[s] \in Seq(W(STRING))
  BY <1>2, RecordingsAssumption DEF TalkInv
<1> HIDE DEF cut
<1>4. PiecesOf(ForcedAlignment(heard, cut, able), STRING)
  BY <1>1, <1>3, ForcedIs, Zenon
<1> QED BY <1>1, <1>2, <1>4

(* Aligned segments carry a text and a label or unknown.                   *)
LEMMA AlignedTyped ==
  ASSUME TalkInv, pc \in Talking
  PROVE  aligned \in Seq(Piece(STRING, Label \cup {Unknown}))
<1> DEFINE Who == Label \cup {Unknown}
<1>1. pieces \in Seq(Uttered(STRING)) /\ turns \in Seq(TurnOf(Label))
  BY PiecesTyped DEF PiecesOf
<1>2. aligned = DedupShort(Aligned(pieces, turns))
  BY DEF TalkInv
<1> DEFINE a == Aligned(pieces, turns)
<1>3. AlignedTo(a, pieces, turns, STRING, Label)
  BY <1>1, AlignedIs, Zenon
<1> HIDE DEF a
<1>4. a \in Seq(Piece(STRING, Who))
  BY <1>3 DEF AlignedTo
<1> DEFINE P == Piece(STRING, Who)
<1>5. a \in Seq(P)
  BY <1>4
<1> HIDE DEF P, Who
<1>6. DedupShort(a) \in Seq(P)
  <2>1. PICK f \in [0..Len(a) -> Seq(P)] : f[Len(a)] = DedupShort(a)
    BY <1>5, DedupCourse, Zenon
  <2>2. Len(a) \in 0..Len(a)
    BY <1>5
  <2> QED BY <2>1, <2>2
<1> QED BY <1>2, <1>6 DEF a, P, Who

(* A result is the one Python builds, also when the kernel builds it.      *)
LEMMA PythonBuilds ==
  ASSUME SaidInv, pc = "result"
  PROVE  result = ResultSegments(aligned, map) /\ unique = UniqueSpeakers(result)
<1>1. aligned \in Seq(Piece(STRING, Label \cup {Unknown}))
  BY AlignedTyped DEF SaidInv, Talking
<1>2. /\ KernelResult(aligned, map).segments = ResultSegments(aligned, map)
      /\ KernelResult(aligned, map).unique = UniqueSpeakers(ResultSegments(aligned, map))
  <2> DEFINE Who == Label \cup {Unknown}
  <2>1. aligned \in Seq(Piece(STRING, Who))
    BY <1>1
  <2> HIDE DEF Who
  <2> QED BY <2>1, KernelAgrees
<1> QED BY <1>2 DEF SaidInv, BuiltInv

(* The guard removes a segment exactly when it is a hallucination, of its  *)
(* own or in a longest run of its key, whatever was heard.                 *)
THEOREM WholeRunsAreRemoved == Spec => []GuardRemovesWholeRuns
<1>1. SaidInv => GuardRemovesWholeRuns
  <2> SUFFICES ASSUME SaidInv, pc = "diarization" PROVE GuardRemovesWholeRuns
    BY DEF GuardRemovesWholeRuns
  <2> DEFINE segs == recording.heard
  <2>1. heard = Without(segs, Suppressed(segs)) /\ segs \in Seq(Heard(STRING))
    BY Typed DEF SaidInv, TalkInv, Guarded
  <2> HIDE DEF segs
  <2>2. Suppressed(segs) = {i \in DOMAIN segs : SingleHallucination(segs[i]) \/ Chanted(segs, i)}
    BY <2>1, SuppressedIs
  <2>3. heard = Without(segs, {i \in DOMAIN segs : SingleHallucination(segs[i]) \/ Chanted(segs, i)})
    BY <2>1, <2>2, Zenon
  <2> QED BY <2>3, Zenon DEF GuardRemovesWholeRuns, Chanted, segs
<1> QED BY <1>1, SaidInvariance, PTL

(* The result says for any labels what the pieces of what was heard say    *)
(* for them and nothing else, but for repeated short texts, and covers     *)
(* what it keeps.                                                          *)
THEOREM WhatWasHeardIsSaid == Spec => []SaysWhatWasHeard
<1>1. SaidInv => SaysWhatWasHeard
  <2> SUFFICES ASSUME SaidInv, pc = "result" PROVE SaysWhatWasHeard
    BY DEF SaysWhatWasHeard
  <2>1. PiecesOf(pieces, STRING) /\ turns \in Seq(TurnOf(Label))
    BY PiecesTyped DEF SaidInv, Talking
  <2>2. aligned = DedupShort(Aligned(pieces, turns))
    BY DEF SaidInv, TalkInv, Talking
  <2>3. result = ResultSegments(aligned, map)
    BY PythonBuilds
  <2>4. ASSUME NEW L PROVE Told(result, pieces, turns, L)
    BY <2>1, <2>2, <2>3, ToldIs, Zenon
  <2>5. \A L \in SUBSET (Label \cup {Unknown}) : GivenTo(result, L) = HeardBy(pieces, turns, L)
    BY <2>4 DEF Told
  <2>6. \A i \in DOMAIN pieces :
          \/ Repeated(pieces, i)
          \/ \E k \in DOMAIN result :
               /\ result[k].label = AssignSpeaker(pieces[i], turns)
               /\ result[k].start <= pieces[i].start /\ pieces[i].end <= result[k].end
    BY <2>4 DEF Told
  <2> QED BY <2>5, <2>6, Zenon DEF SaysWhatWasHeard, GivenTo, HeardBy, Repeated
<1> QED BY <1>1, SaidInvariance, PTL

(* Two labels are shown under one name only when one of them goes by a     *)
(* name that is the other's with a number.                                 *)
THEOREM NamesAreApart == Spec => []NamesApart
<1>1. SaidInv => NamesApart
  <2> SUFFICES ASSUME SaidInv, pc = "result",
                      NEW j \in DOMAIN result, NEW k \in DOMAIN result,
                      result[j].label # result[k].label, result[j].name = result[k].name
               PROVE  \E l, m \in {result[j].label, result[k].label} :
                        \E n \in 2..Cardinality(Label \cup {Unknown}) :
                          BaseName(l, map) = Numbered[<<BaseName(m, map), n>>]
    BY Zenon DEF NamesApart
  <2> DEFINE Who == Label \cup {Unknown}
             l == result[j].label
             m == result[k].label
  <2>1. aligned \in Seq(Piece(STRING, Who)) /\ result = ResultSegments(aligned, map)
    BY AlignedTyped, PythonBuilds DEF SaidInv, Talking
  <2>2. IsFiniteSet(Who)
    BY NamesAssumption, FS_AddElement
  <2>3. \A w \in Who : \A n \in 2..Cardinality(Who) : <<BaseName(w, map), n>> \in DOMAIN Numbered
    <3>1. \A w \in Who : BaseName(w, map) \in Name
      BY DEF SaidInv, NameInv, BaseName, Name
    <3>2. Name \X (2..Cardinality(Who)) \subseteq DOMAIN Numbered
      BY NamesAssumption
    <3> HIDE DEF Who
    <3> QED BY <3>1, <3>2
  <2>4. \E n \in 2..Cardinality(Who) :
          \/ BaseName(l, map) = Numbered[<<BaseName(m, map), n>>]
          \/ BaseName(m, map) = Numbered[<<BaseName(l, map), n>>]
    <3> HIDE DEF Who, l, m
    <3>1. l = ResultSegments(aligned, map)[j].label /\ m = ResultSegments(aligned, map)[k].label
          /\ l # m
      BY <2>1 DEF l, m
    <3> QED BY <2>1, <2>2, <2>3, <3>1, ResultApart
  <2> QED BY <2>4
<1> QED BY <1>1, SaidInvariance, PTL

(* What the kernel builds is what the Python code would have built.        *)
THEOREM TheKernelBuildsTheSame == Spec => []KernelBuildsTheSame
<1>1. SaidInv => KernelBuildsTheSame
  BY PythonBuilds DEF KernelBuildsTheSame
<1> QED BY <1>1, SaidInvariance, PTL
=============================================================================
