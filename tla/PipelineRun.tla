------------------------------ MODULE PipelineRun ------------------------------
(***************************************************************************)
(* One recording on its way through the pipeline: the runner and its       *)
(* eleven stages, the files they read, write and leave, and the result     *)
(* that is built and stored at the end.                                    *)
(*                                                                         *)
(* A run is one call in one job's thread; GpuRuntime shows that no other   *)
(* call runs meanwhile.  What a model hears is an input: a recording comes *)
(* with the segments Whisper hears, the pieces WhisperX cuts each of those *)
(* into when it aligns it, and the turns pyannote finds.  Any stage that   *)
(* does work may raise, and the process may die at any moment.             *)
(*                                                                         *)
(* A definition that carries a suffix and precedes the one it is named     *)
(* after is a seeded fault; no behaviour uses it.                          *)
(***************************************************************************)
EXTENDS Segments, RepetitionGuard, KernelBridge

CONSTANTS Recordings,  \* records of what is heard, its cuts and the turns
          Label,       \* speaker labels of the turns
          Speaker,     \* ids of enrolled speakers
          NameOf,      \* NameOf[i]: the name of speaker i
          MinEmbed,    \* MIN_EMBED_DURATION
          Requests,    \* the requests considered
          Canonical,   \* Canonical[s]: the step a spelling of it stands for
          Providers,   \* Providers[s]: the providers registered for a step
          MaxFaults,   \* bound: things that go wrong
          MaxCrashes   \* bound: deaths of the process

Stages == <<"ingest", "normalize", "enhance", "vad", "asr", "diarization",
            "embedding", "voiceprint_match", "punc", "postprocess", "artifacts">>

ASSUME RegistryAssumption ==
  \A s \in ToSet(Stages) : Canonical[s] = s /\ "default" \in Providers[s]

(* Whisper hears a recording from its start to its end.  The cut has the   *)
(* segments that can be aligned.  A piece of one has words; how many there *)
(* are, what they say and when is left open.                               *)
ASSUME RecordingsAssumption ==
  \A r \in Recordings :
    /\ r.heard \in Seq([start : Nat, end : Nat, text : Seq(STRING)])
    /\ \A i \in DOMAIN r.heard : \A j \in i..Len(r.heard) :
         r.heard[i].start <= r.heard[j].start
    /\ DOMAIN r.cut \subseteq ToSet(r.heard)
    /\ \A s \in DOMAIN r.cut : r.cut[s] \in
         Seq([start : Nat, end : Nat, text : Seq(STRING), words : {TRUE}])
    /\ r.turns \in Seq([start : Nat, end : Nat, speaker : Label])

(* A name can be numbered as far as there are labels to go by it.          *)
Name == Label \cup {Unknown} \cup {NameOf[i] : i \in Speaker}

ASSUME NamesAssumption ==
  /\ IsFiniteSet(Label)
  /\ Name \X (2..Cardinality(Label \cup {Unknown})) \subseteq DOMAIN Numbered

Temporary == {"wav", "denoised"}
File      == {"upload", "raw"} \cup Temporary

VARIABLES
  request,   \* the PipelineRequest; never changes
  recording, \* what the audio holds; never changes
  pc,        \* the stage to run next, or what follows the stages
  disk,      \* the audio files: "none", "part" of one, or "whole"
  working, embedding,  \* working_audio_path, embedding_audio_path
  temps,     \* temporary_paths
  heard,     \* the segments of transcription_result
  turns,     \* diarization_turns
  pieces,    \* the segments the aligner returned, not yet given speakers
  aligned,   \* aligned_segments
  voices,    \* the labels of speaker_embeddings
  map,       \* voiceprint_matches
  result,    \* the segments of the result
  unique,    \* its unique_speakers
  json,      \* result.json is on disk
  npy,       \* the embedding files, as disk
  outcome,   \* "running", "done" or "failed"
  faults, crashes,   \* bounds
  torn,      \* history: files whose writer failed and left them
  stuck      \* history: files that could not be unlinked

paths   == <<working, embedding, temps>>
data    == <<heard, turns, pieces, aligned, voices, map, result, unique>>
bundle  == <<json, npy>>
history == <<torn, stuck>>
given   == <<request, recording>>
vars    == <<given, pc, disk, paths, data, bundle, outcome, faults, crashes,
             history>>

Init ==
  /\ request \in Requests
  /\ recording \in Recordings
  /\ pc = Stages[1]
  /\ disk = [f \in File |-> IF f = "upload" \/ (f = "raw" /\ request.raw)
                              THEN "whole" ELSE "none"]
  /\ working = "" /\ embedding = "" /\ temps = <<>>
  /\ heard = <<>> /\ turns = <<>> /\ pieces = <<>> /\ aligned = <<>>
  /\ voices = {} /\ map = <<>>
  /\ result = <<>> /\ unique = <<>>
  /\ json = FALSE
  /\ npy = [l \in Label |-> "none"]
  /\ outcome = "running"
  /\ faults = 0 /\ crashes = 0
  /\ torn = {} /\ stuck = {}

-----------------------------------------------------------------------------
(* The provider the request selects for a stage.  Its keys are spellings   *)
(* of steps, of which a later one overrides an earlier one for its step.   *)
ProviderFor(stage) ==
  LET same == {k \in DOMAIN request.selection :
                 Canonical[request.selection[k].step] = stage}
  IN  IF same = {} THEN "default" ELSE request.selection[Max(same)].provider

Resolves(stage) == ProviderFor(stage) \in Providers[stage]

After(stage) ==
  LET k == CHOOSE i \in DOMAIN Stages : Stages[i] = stage
  IN  IF k = Len(Stages) THEN "cleanup" ELSE Stages[k + 1]

(* A stage runs with the provider it resolves and hands over to the next.  *)
Runs(stage) ==
  /\ pc = stage
  /\ Resolves(stage)

Hands(stage) == pc' = After(stage) /\ UNCHANGED <<outcome, given, crashes>>

(* An exception leaves the stages for the finally clause.                  *)
Abort ==
  /\ pc' = "cleanup"
  /\ outcome' = "failed"
  /\ UNCHANGED <<given, paths, data, crashes>>

Fault == faults < MaxFaults /\ faults' = faults + 1

NoProvider ==
  /\ pc \in ToSet(Stages)
  /\ ~Resolves(pc)
  /\ Abort
  /\ UNCHANGED <<disk, bundle, faults, history>>

(* A model, a decoder, the database or the status callback raises before   *)
(* the stage has changed anything.                                         *)
StageRaises ==
  /\ pc \in ToSet(Stages) \ {"ingest", "vad", "punc", "postprocess"}
  /\ Resolves(pc)
  /\ Fault
  /\ Abort
  /\ UNCHANGED <<disk, bundle, history>>

-----------------------------------------------------------------------------
Ingest ==
  /\ Runs("ingest")
  /\ working' = "upload"
  /\ embedding' = IF request.raw THEN "raw" ELSE "upload"
  /\ Hands("ingest")
  /\ UNCHANGED <<disk, temps, data, bundle, faults, history>>

(* An upload that is a WAV already is used as it is.                       *)
NormalizeAlwaysListed(path) == temps' = Append(temps, path)

NormalizeLists(path) ==
  temps' = IF path = "upload" THEN temps ELSE Append(temps, path)

Normalize ==
  /\ Runs("normalize")
  /\ LET path == IF request.wav THEN "upload" ELSE "wav"
     IN  /\ disk' = [disk EXCEPT ![path] = "whole"]
         /\ working' = path
         /\ embedding' = IF request.raw THEN embedding ELSE path
         /\ NormalizeLists(path)
  /\ Hands("normalize")
  /\ UNCHANGED <<data, bundle, faults, history>>

(* ffmpeg runs out of time, and what it wrote is unlinked ...              *)
NormalizeTimesOut ==
  /\ Runs("normalize") /\ ~request.wav
  /\ Fault
  /\ Abort
  /\ disk' = [disk EXCEPT !["wav"] = "none"]
  /\ UNCHANGED <<bundle, history>>

(* ... or it fails otherwise, and what it wrote stays.                     *)
NormalizeFails ==
  /\ Runs("normalize") /\ ~request.wav
  /\ Fault
  /\ Abort
  /\ disk' = [disk EXCEPT !["wav"] = "part"]
  /\ torn' = torn \cup {"wav"}
  /\ UNCHANGED <<bundle, stuck>>

(* No model, a model of no known name, or DeepFilterNet on clean audio.    *)
EnhanceSkips ==
  /\ Runs("enhance")
  /\ request.denoise # "noisereduce"
  /\ Hands("enhance")
  /\ UNCHANGED <<disk, paths, data, bundle, faults, history>>

Denoises == request.denoise \in {"noisereduce", "deepfilternet"}

EmbeddingFollowsAudio == embedding' = "denoised"
EmbeddingStays == embedding' = embedding

EnhanceMoves ==
  /\ working' = "denoised"
  /\ EmbeddingStays
  /\ temps' = Append(temps, "denoised")

Enhance ==
  /\ Runs("enhance") /\ Denoises
  /\ disk' = [disk EXCEPT !["denoised"] = "whole"]
  /\ EnhanceMoves
  /\ Hands("enhance")
  /\ UNCHANGED <<data, bundle, faults, history>>

(* Writing the denoised audio fails; its path was not listed yet.          *)
EnhanceFails ==
  /\ Runs("enhance") /\ Denoises
  /\ Fault
  /\ Abort
  /\ disk' = [disk EXCEPT !["denoised"] = "part"]
  /\ torn' = torn \cup {"denoised"}
  /\ UNCHANGED <<bundle, stuck>>

(* vad, punc and postprocess note in the metadata that they did nothing.   *)
PassThrough(stage) ==
  /\ Runs(stage)
  /\ Hands(stage)
  /\ UNCHANGED <<disk, paths, data, bundle, faults, history>>

(* Whisper's segments come stripped; the guard goes over them.             *)
Asr ==
  /\ Runs("asr")
  /\ heard' = Guarded(recording.heard)
  /\ Hands("asr")
  /\ UNCHANGED <<disk, paths, turns, pieces, aligned, voices, map, result,
                 unique, bundle, faults, history>>

(* Forced alignment cuts up the segments it is able to align.  It is left  *)
(* out for a disabled language, and when it fails the run goes on; then    *)
(* the segments are those that were heard.                                 *)
Diarization ==
  /\ Runs("diarization")
  /\ turns' = recording.turns
  /\ \E able \in IF request.align THEN SUBSET DOMAIN recording.cut ELSE {{}} :
       pieces' = ForcedAlignment(heard, recording.cut, able)
  /\ aligned' = DedupShort(Aligned(pieces', recording.turns))
  /\ Hands("diarization")
  /\ UNCHANGED <<disk, paths, heard, voices, map, result, unique, bundle,
                 faults, history>>

(* A label has an embedding when some turn of it is long enough and has    *)
(* audio that can be read; short of the audio's end a turn has none.       *)
Embedding ==
  /\ Runs("embedding")
  /\ LET long == {i \in DOMAIN turns : turns[i].end - turns[i].start >= MinEmbed}
     IN  \E read \in SUBSET long :
           voices' = {turns[i].speaker : i \in read}
  /\ Hands("embedding")
  /\ UNCHANGED <<disk, paths, heard, turns, pieces, aligned, map, result,
                 unique, bundle, faults, history>>

(* Identify gives each label a speaker or none; without a database the map *)
(* stays empty.                                                            *)
Entry(l, i) == [id |-> i, name |-> IF i = NoId THEN l ELSE NameOf[i]]

VoiceprintMatch ==
  /\ Runs("voiceprint_match")
  /\ IF request.db
       THEN \E who \in [voices -> Speaker \cup {NoId}] :
              map' = [l \in voices |-> Entry(l, who[l])]
       ELSE map' = <<>>
  /\ Hands("voiceprint_match")
  /\ UNCHANGED <<disk, paths, heard, turns, pieces, aligned, voices, result,
                 unique, bundle, faults, history>>

-----------------------------------------------------------------------------
(* The artifacts stage.  Without a directory to store in the result is the *)
(* aligned segments and the labels; otherwise it is built, by the kernel   *)
(* when that is required, and stored.                                      *)
BuildInMemory ==
  /\ Runs("artifacts") /\ ~request.dir
  /\ result' = aligned
  /\ unique' = SetToSeq(voices)
  /\ Hands("artifacts")
  /\ UNCHANGED <<disk, paths, heard, turns, pieces, aligned, voices, map,
                 bundle, faults, history>>

Build ==
  /\ Runs("artifacts") /\ request.dir
  /\ LET kernel == KernelResult(aligned, map)
     IN  IF request.kernel
           THEN result' = kernel.segments /\ unique' = kernel.unique
           ELSE /\ result' = ResultSegments(aligned, map)
                /\ unique' = UniqueSpeakers(result')
  /\ pc' = "result"
  /\ UNCHANGED <<given, disk, paths, heard, turns, pieces, aligned, voices,
                 map, bundle, outcome, faults, crashes, history>>

WellFormedResponse ==
  [f \in DOMAIN PostprocessSegments \cup DOMAIN ArtifactManifest |->
     CASE f \in {"segments", "unique_speakers", "stable", "optional",
                 "experimental", "words"}   -> "list"
       [] f \in {"start", "end", "similarity", "word_start", "word_end",
                 "score"}                   -> "decimal"
       [] f = "id"                          -> "natural"
       [] f = "required_for_result"         -> "bool"
       [] OTHER                             -> "text"]

(* The extension is missing, raises, or answers what the bridge refuses.   *)
KernelRefused ==
  /\ Runs("artifacts") /\ request.dir /\ request.kernel
  /\ Fault
  /\ \E contract \in {PostprocessSegments, ArtifactManifest} :
       \E flaw \in Flaws(contract) :
         ~Passes(contract, Spoilt(WellFormedResponse, flaw))
  /\ Abort
  /\ UNCHANGED <<disk, bundle, history>>

(* persist_transcription writes result.json, then the embeddings in turn.  *)
WriteResult ==
  /\ pc = "result"
  /\ json' = TRUE
  /\ pc' = "npy"
  /\ UNCHANGED <<given, disk, paths, data, npy, outcome, faults, crashes, history>>

WriteResultFails ==
  /\ pc = "result"
  /\ Fault
  /\ Abort
  /\ UNCHANGED <<disk, bundle, history>>

SaveEmbedding(l) ==
  /\ pc = "npy"
  /\ l \in voices /\ npy[l] = "none"
  /\ npy' = [npy EXCEPT ![l] = "whole"]
  /\ UNCHANGED <<given, pc, disk, paths, data, json, outcome, faults, crashes,
                 history>>

(* A failed save undoes what this call wrote.  A file that cannot be       *)
(* unlinked then stays.                                                    *)
RollbackKeepsResult(l, left) ==
  /\ npy' = [m \in Label |-> IF m \in left THEN npy[m] ELSE "none"]
  /\ json' = json
  /\ stuck' = stuck

Rollback(l, left) ==
  /\ npy' = [m \in Label |-> IF m \notin left THEN "none"
                             ELSE IF m = l THEN "part" ELSE npy[m]]
  /\ json' = ("result" \in left)
  /\ stuck' = stuck \cup left

SaveEmbeddingFails(l) ==
  /\ pc = "npy"
  /\ l \in voices /\ npy[l] = "none"
  /\ faults < MaxFaults
  /\ \E left \in {{}} \cup {{f} : f \in {"result", l}
                                   \cup {m \in Label : npy[m] # "none"}} :
       /\ faults' = faults + 1 + Cardinality(left)
       /\ faults' <= MaxFaults
       /\ Rollback(l, left)
  /\ Abort
  /\ UNCHANGED <<disk, torn>>

Stored ==
  /\ pc = "npy"
  /\ \A l \in voices : npy[l] # "none"
  /\ Hands("artifacts")
  /\ UNCHANGED <<disk, paths, data, bundle, faults, history>>

-----------------------------------------------------------------------------
(* The finally clause unlinks every temporary file, as far as it can.      *)
CleanupGeneratedFiles(left) ==
  disk' = [f \in File |-> IF f \in ToSet(temps) \ left THEN "none" ELSE disk[f]]

Cleanup ==
  /\ pc = "cleanup"
  /\ \E left \in {{}} \cup {{f} : f \in ToSet(temps)} :
       /\ faults' = faults + Cardinality(left)
       /\ faults' <= MaxFaults
       /\ CleanupGeneratedFiles(left)
       /\ stuck' = stuck \cup left
  /\ pc' = "ended"
  /\ outcome' = IF outcome = "failed" THEN "failed" ELSE "done"
  /\ UNCHANGED <<given, paths, data, bundle, crashes, torn>>

Crash ==
  /\ pc \notin {"ended", "dead"}
  /\ crashes < MaxCrashes
  /\ crashes' = crashes + 1
  /\ pc' = "dead"
  /\ UNCHANGED <<given, disk, paths, data, bundle, outcome, faults, history>>

Next ==
  \/ NoProvider \/ StageRaises
  \/ Ingest
  \/ Normalize \/ NormalizeTimesOut \/ NormalizeFails
  \/ EnhanceSkips \/ Enhance \/ EnhanceFails
  \/ \E s \in {"vad", "punc", "postprocess"} : PassThrough(s)
  \/ Asr \/ Diarization \/ Embedding \/ VoiceprintMatch
  \/ BuildInMemory \/ Build \/ KernelRefused
  \/ WriteResult \/ WriteResultFails
  \/ \E l \in Label : SaveEmbedding(l) \/ SaveEmbeddingFails(l)
  \/ Stored \/ Cleanup \/ Crash

Spec == Init /\ [][Next]_vars

-----------------------------------------------------------------------------
(* Properties.                                                             *)

(* However a run ends, the upload and the raw audio are still there and no *)
(* file made on the way is, but for one that could not be unlinked and one *)
(* whose writer failed in the middle of it.                                *)
LeavesNoTrace ==
  pc = "ended" =>
    /\ disk["upload"] = "whole"
    /\ request.raw => disk["raw"] = "whole"
    /\ \A f \in Temporary : disk[f] # "none" => f \in torn \cup stuck

(* The models are given a file that is there and whole: transcription and  *)
(* diarization the denoised audio if there is one, speaker embeddings the  *)
(* raw audio or else the normalized audio, never the denoised.             *)
ReadsTheRightAudio ==
  /\ pc \in {"asr", "diarization"} =>
       /\ disk[working] = "whole"
       /\ disk["denoised"] = "whole" => working = "denoised"
  /\ pc = "embedding" =>
       /\ disk[embedding] = "whole"
       /\ embedding = IF request.raw THEN "raw"
                      ELSE IF request.wav THEN "upload" ELSE "wav"

(* The guard removes a segment exactly when it is a hallucination of its   *)
(* own or belongs to a longest run of one key that is: never part of a     *)
(* run, never across a segment that says nothing.                          *)
GuardRemovesWholeRuns ==
  pc = "diarization" =>
    LET segs      == recording.heard
        doomed(i) == \/ SingleHallucination(segs[i])
                     \/ /\ KeyOf(segs, i) # NoKey
                        /\ RunHallucination(segs, Stretch(segs, i))
    IN  heard = Without(segs, {i \in DOMAIN segs : doomed(i)})

(* The result says what the aligner left of what was heard, which without  *)
(* alignment is all of it, and nothing else: in its order, each label and  *)
(* any labels together what they said.  All that goes missing is a short   *)
(* text that repeats the piece before it, whoever says it.  A piece that   *)
(* is kept lies within a segment of its label.                             *)
SaysWhatWasHeard ==
  pc = "result" =>
    LET repeated(i) == /\ i > 1 /\ pieces[i].text # <<>>
                       /\ pieces[i].text = pieces[i-1].text
                       /\ pieces[i].end - pieces[i].start < EchoTime
                       /\ Len(pieces[i].text) <= EchoLength
        by(i)      == AssignSpeaker(pieces[i], turns)
        heardBy(L) == FlattenSeq([i \in DOMAIN pieces |->
                        IF repeated(i) \/ by(i) \notin L THEN <<>>
                        ELSE pieces[i].text])
        givenTo(L) == FlattenSeq([k \in DOMAIN result |->
                        IF result[k].label \in L THEN result[k].text ELSE <<>>])
    IN  /\ \A L \in SUBSET (Label \cup {Unknown}) : givenTo(L) = heardBy(L)
        /\ \A i \in DOMAIN pieces : repeated(i) \/ \E k \in DOMAIN result :
             /\ result[k].label = by(i)
             /\ result[k].start <= pieces[i].start
             /\ pieces[i].end <= result[k].end

(* Two labels are never shown under one name, unless a speaker is enrolled *)
(* under a name that ends in a number the way numbered names do.           *)
NamesApart ==
  pc = "result" => \A j, k \in DOMAIN result :
    result[j].label # result[k].label /\ result[j].name = result[k].name =>
      \E l, m \in {result[j].label, result[k].label} :
        \E n \in 2..Cardinality(Label \cup {Unknown}) :
          BaseName(l, map) = Numbered[<<BaseName(m, map), n>>]

(* A result the kernel built is the one its oracle, the Python code, would *)
(* have built: the same segments under the same names, and the same names  *)
(* in the same order.                                                      *)
KernelBuildsTheSame ==
  pc = "result" /\ request.kernel =>
    /\ result = ResultSegments(aligned, map)
    /\ unique = UniqueSpeakers(result)

(* A run that ends well has stored its result and one embedding for each   *)
(* label that has one; a run that fails has stored nothing, but for what   *)
(* could not be unlinked.  Only the death of the process leaves a result   *)
(* without its embeddings.                                                 *)
StoredBundleIsWhole ==
  /\ pc = "ended" /\ outcome = "done" /\ request.dir =>
       json /\ \A l \in Label : npy[l] = IF l \in voices THEN "whole" ELSE "none"
  /\ outcome = "failed" =>
       /\ json => "result" \in stuck
       /\ \A l \in Label : npy[l] # "none" => l \in stuck
=============================================================================
