# VoScript: verification project

VoScript is a self-hosted transcription service: a FastAPI process that takes
audio uploads, runs ASR, diarization, alignment and speaker embedding on one
GPU, names speakers with enrolled voiceprints, and keeps everything in files and
one SQLite database. This directory holds TLA+ models of the parts of `src/app`
in which threads, files and crashes meet, the TLC runs that check them on small
instances, and proofs for every instance. `PROJECT.json` lists the runs, the
source lines each definition stands for, the hazards and the findings.

Run a check with `tlc -config MCJobService_faults.cfg MCJobService`, a proof with
`tlapm JobService_proofs.tla`.

## Inventory

One process serves the API. Its *event loop* runs one request handler at a time;
the handlers that matter here have no `await` after the upload has been streamed.
Beside it run a *worker thread* per accepted job, the *cohort-rebuild daemon* and
the *idle-unload daemon*. All are daemon threads: they end with the process.

| Part | State | Operations | Hard because |
|---|---|---|---|
| Job lifecycle (`api/routers/transcriptions.py`, `application/transcription_jobs.py`, `infra/job_runtime.py`, `infra/job_persistence.py`, `infra/audio/hash_index.py`, `infra/transcription_artifacts.py`) | jobs dictionary (an LRU of `JOBS_MAX_CACHE`), in-flight hashes, GPU semaphore; `status.json`, `result.json`, `hash_index.json` | upload, dedup, start of the thread, stage callbacks, completion, failure, recovery after a restart | three stores written one after the other by two kinds of thread; evictions of running jobs; ignored write failures; crashes between any two writes |
| Job polling (same router) | none of its own | `GET /api/jobs/{id}` | reads an entry twice while its worker goes on, and disk when there is none |
| GPU runtime (`infra/job_runtime.py`, `pipeline/orchestrator.py`, `providers/diarization/default.py`) | model attributes of the one pipeline, their devices, the alignment cache, time of the last job | lazy load, hot reuse, idle unload | a daemon that drops what job threads use; loads that fail half way |
| AS-norm cohort (`voiceprints/cohort.py`, `voiceprints/db.py`, `main.py`) | scorer, generation counters, `asnorm_cohort.npy` | load, build, save, install, debounce | two builders, enrollments during a build, non-atomic save, restart |
| Voiceprint store (`voiceprints/repository.py`, `storage.py`, the enroll, rename and delete endpoints) | tables of speakers, samples, averages and vectors; `index.json` of the legacy format | enroll, update, delete, rename, start, legacy migration | four tables that must agree whatever statement fails; an extension that may be missing at one start and there at the next; a migration that ends outside the transaction |
| Identification and scoring (`voiceprints/db.py`, `scoring.py`, `providers/voiceprint_match/default.py`, `voiceprint.rs`) | none | candidates, thresholds, margin | unlocked reads of a scorer that is swapped and of a book that changes; two implementations of one rule |
| Kernel bridge (`providers/kernel_bridge/runtime.py`) | none | checks of the extension's responses | a wrong response must fail the job, not be used |
| Pipeline runner (`pipeline/runner.py`, `registry.py`, contracts, `providers/artifacts`, `enhance`, `normalize`) | context of one job, temporary files, `result.json`, embedding files | stages in order, provider choice, storing, cleanup | every exit must clean up, undo and report |
| Segments, repetition guard (`postprocess/segments.py`, its Rust twin `postprocess.rs`, `stages/diarization/alignment.py`, `providers/asr/default.py`) | none | pure functions | boundaries and ties; two implementations of the building of the result |
| Corrections, exports, middleware, model look-up, configuration, NLTK shim | files, environment | one-step reads and writes | little |

How they interact: a handler hands a job to its worker by starting a thread; the
worker enters the GPU runtime through `run_serialized_gpu_work`; the stages call
back `_record_status`; the artifacts a worker writes are the source of the cohort
and of enrollments; enrollments make the cohort dirty; identification reads the
store and the scorer from the worker's thread.

## Modules

* `JobContract`: what the job service promises about the durable outcome of each
  job: accepted, perhaps taken back while nothing is stored, completed only with
  a stored transcription, terminal at most once.
* `JobService`: the job lifecycle. `req` is the program point of the upload
  handler, `worker[j]` that of the thread of job `j`; each action is what the
  code does between two points at which another thread can see a difference.
  `mem`/`memResult` are the jobs dictionary, `inFlight` is `_in_flight_hashes`,
  `sem` is `_gpu_sem`; `status`, `result`, `index` are the files. A failed write
  takes one unit of `MaxFaults`. `Crash` clears everything but the files and
  `Restart` is `recover_orphan_jobs`. Job ids are numbered in the order of
  insertion, so the LRU evicts the least id. It implements `JobContract` with
  `outcome` read off `status.json` (`KeepsContract`).
* `JobApi`: `JobService` composed with a polling client; `poll` is the GET under
  way and `told` the last answer for each job.
* `GpuRuntime`: job threads going through the stages of the pipeline, each of
  which gets, loads or reuses a model, and the idle-unload daemon. `resident[m]`
  is where the object of a model attribute is, `device[m]` the device selected
  for it, `align` the alignment model and its cache key, `age` the time since
  `_last_gpu_job_finished_at`.
* `CohortRebuild`: the two builders, one program point each (`build[b].pc`), with
  `target` for `target_gen`, `seen` the files listed and `got` the embeddings
  read; `gen`/`built` are the generation counters, `file` is
  `asnorm_cohort.npy`, torn between the two halves of `np.save`. The variables
  `enrolled`, `earlier` and `reflected` are history.
* `SpeakerBook`: what the voiceprint store promises: a book of speakers with a
  name and samples, changed one whole operation at a time.
* `VoiceprintStore`: the SQLite store. `db` is what is committed, `tx` what the
  connection sees; `pc` names the next SQL statement of the request `op`, so a
  statement can fail (`StatementFails`: ROLLBACK and 500) or the process die
  between any two. All operations hold `VoiceprintDB._lock`, so they do not
  interleave. An average and a spread are represented by the samples they were
  computed from, which is what decides whether they are stale. `vecLoaded` is
  chosen anew by every `Start`, `RenameIndex` is the step after the migration's
  COMMIT. `lagging`, `touched`, `deleted`, `renamed`, `halfway` are history. It
  implements `SpeakerBook` with the committed names and samples (`KeepsBook`).
* `Scoring`: thresholds, margin and decision, the Python rule and the Rust rule
  each from its own source, over integer scores in thousandths. A decision is a
  member of a set, since the order of equal scores is left open.
* `KernelBridge`: for every field of a response the kinds of value the bridge lets
  through, written from its checks.
* `Identify` (extends `Scoring` and `KernelBridge`): the loop over the labels of a
  recording and `VoiceprintDB.identify`; each action ends where the database lock
  is dropped or the scorer is read again. `World` is the event loop and the
  rebuild at work meanwhile: whole operations on the book (`VoiceprintStore`
  justifies that) and a new scorer (`CohortRebuild` installs it in one assignment).
  `required` chooses the kernel. `Raw` and `Norm` are tables of scores, `Norm` by
  the number of cohort rows a score goes by: the kernel is sent a cohort
  (`TakeCohort`) and, from another read of the scorer, that number (`TakeTopN`).
* `Segments`, `RepetitionGuard`: the pure functions, with folds and sets. `Segments`
  holds the building of the result twice, as the code does: after
  `postprocess/segments.py` and, in the `Kernel*` operators, after `postprocess.rs`.
* `PipelineRun` (extends `Segments`, `RepetitionGuard`, `KernelBridge`): one
  `PipelineRunner.run_context`. `pc` is the stage to run; `working`, `embedding` and
  `temps` are the paths of the context; `disk` tells of every audio file whether it
  is missing, torn or whole; `json` and `npy` are the stored bundle. What the models
  hear is an input, `recording`: the segments of Whisper, for each that WhisperX can
  align the sentences it becomes (any number of them, with any text and times), and
  the turns of pyannote. `Diarization` replaces what was heard by `pieces`: the
  sentences of the segments that could be aligned, which ones is left open, and the
  others as they were heard. Speakers are assigned, echoes dropped and neighbours
  merged over the pieces, and `SaysWhatWasHeard` compares the result with them.
* `MC*`: instances for TLC. `*_proofs`: theorems.

In the modules some operators come twice, the first time with a plausible bug
(`ClaimUnchecked` before `Claim`). No behaviour uses the faulty one: it is there
to show, by taking the place of its neighbour, that the property listed with it
in `PROJECT.json` notices that bug.

## Runs

| Run | Instance | Shows |
|---|---|---|
| `faults` | 2 contents, 3 jobs, cache of 2, 1 failing write, 1 crash | GPU exclusion, one worker per content, durable redirects, completed means findable, terminal is final, the contract |
| `settle` | 2 contents, 3 jobs, cache of 3, no failing write, 1 crash | every accepted job ends, every content leaves the in-flight table, the owner of a content has a thread, no status is orphaned |
| `answers` | 2 contents, 2 jobs, cache of 1, 1 failing write, 1 crash | answers from memory only advance; a completed answer is fetchable for good |
| `builds` | 2 embeddings, an enrollment in each process, 1 clean-up, 1 I/O error, 1 crash | no enrollment is lost to a build that missed it, saved is live, the daemon never shrinks the cohort, a dirty generation is built |
| `idle` | 2 threads, 2 languages, 2 devices, a timeout of 2 ticks | models are never unloaded under a stage nor on a stale check, and are given back in the end; alignment uses its own language |
| `store` | 2 ids, 3 spellings of 2 names, 2 embeddings (one silent), 4 legacy stores, 2 samples per speaker, 1 failing statement, 1 death | count, average, spread and samples agree; the search compares with current averages; names stay distinct; deleted speakers stay deleted; the cohort is marked stale only by what is committed; the store is a speaker book |
| `identify` | 2 labels (one silent), 3 speakers, 3 books, 3 scorers, 1 change, 1 swap, 1 bad kernel answer | a name has a cause on one scale of scores, in the kernel perhaps by a number of cohort rows read from another scorer; undisturbed, `identify` is the oracle; a name by AS-norm is clear of every rival that stayed; the Rust rule is the Python rule |
| `pipeline` | 6 recordings, 23 requests, 2 faults, 1 death | nothing temporary is left; each model reads the right file; the guard removes whole runs; the result says what was heard, as the aligner cut it up, by label; names are told apart; the kernel builds what its Python oracle builds; the stored bundle is whole or absent |
| `evicted`, `no_result`, `restart`, `device` | the smallest instance of each | the findings below |

Why the bounds are enough. Two contents are the least with which an upload can
evict a job of another content; three jobs the least with a duplicate beside
them; a cache smaller than the number of jobs makes evictions, as large as it
rules them out. One crash reaches every pair of writes it can separate, and the
recovery after it; a second one meets the same files again. One fault reaches
each write. Two builders are all there are. With two embeddings a cohort can be
empty, shrink, grow and reach `MinCohort`. Two threads and the daemon contend
for the semaphore in every order; a timeout of two ticks lets a job finish
between the daemon's two checks. The theorems below need none of these bounds.

In `store` two speakers are the least that can share a name, three spellings the
least with a name that differs from another only in case; two samples are the
least with a spread, and the second sample is the first that recomputes an
average. Its legacy stores are: none, one complete, one without samples, one
without an average. In `identify` three candidates are one more than the limit of
two the code fetches first; the scores lie on both sides of the thresholds, one
scorer reverses the order of the cosines and one puts the best two within the
margin, unless it goes by the fewer rows of another; one change and one swap
suffice to fall between any two reads. The
recordings of `pipeline` each exercise some branches of the pure functions: turns
over one segment, ties, a segment no turn covers, gaps of 50 and 51 ms, an echo
across speakers, runs of a prompt with and without a silent segment in them, a
repeated unit in one segment and in a run, an outro, nothing at all. Three of them
have cuts: a question in sentences of two labels, a segment whose second sentence is
an echo of its first, segments that start later or last shorter once they are timed
by their words; with alignment every subset of the cuts is taken. Two faults
allow a failing save whose rollback fails too. These runs are finite, so they
switch the check for deadlock off.
`answers` uses the symmetry of contents (it checks no liveness).

`settle` excludes evictions of running jobs and failing writes, since with them
its properties are false: `evicted` shows the first, and a lost last write of
`status.json` leaves a job in progress until the next restart.

Fairness. Weak fairness of the handler (the event loop finishes what it began),
of each worker thread, builder and daemon (the operating system schedules them;
the daemons loop for ever), of the restart (`restart: unless-stopped` in
`docker-compose.yml`) and of time. Uploads, polls, enrollments, crashes and faults
need not happen. The GPU semaphore needs no strong fairness in `JobService`: a
thread takes it once and the jobs are finitely many, so those before it end.

## Findings

1. `evicted`: a job evicted from the jobs cache while it runs fails inside its own
   `except` clause (`transcription_jobs.py:88`), so its thread ends with the status
   in progress and the content in flight until the next restart.
2. `no_result`: the status becomes completed before the result is there
   (`transcription_jobs.py:70`): a poll in between raises `KeyError`, answer 500.
3. `restart`: a start with an existing cohort file forgets the enrollments that
   were waiting to be built (`cohort.py:58`).
4. `device`: the diarization pipeline is published before it is on its device
   (`orchestrator.py:393`); when the move fails the next job reuses it on the CPU.

Seen on the way, without a run:

* The hash index is consulted before the in-flight table and not after it
  (`transcriptions.py:184`): a duplicate can be transcribed again, although
  `doc/api.en.md:73-74` says it is not.
* The hash is registered before the last status write (`transcription_jobs.py:68`):
  a crash in between leaves a job that duplicates are told is completed and polls
  say has failed.
* A device selected for a load that failed stays selected until the idle unload.
* A running job that was evicted is reported "Process restarted while job was in
  progress" by polls.
* A transcription that cannot be read for a moment makes the daemon keep the old
  cohort and count it as built.
* A start that is cut off after the migration's COMMIT and before `index.json` is
  renamed migrates deleted speakers again, once all speakers have been deleted
  (`storage.py:216`; the exception in `DeletedStaysDeleted`).
* A speaker imported without its samples file loses its imported average at its
  next enrollment, which recomputes it from the samples (`repository.py:256`).
* Speakers enrolled while sqlite-vec cannot be loaded are not found, or found by an
  old average, once it can be and the table has a row (`repository.py:202`; `lagging`
  in `SearchIsCurrent`).
* Renaming does not look for namesakes (`renamed` in `NamesDistinct`), and a speaker
  enrolled as "Ann (2)" can be shown under the same name as the second Ann
  (`NamesApart`).
* In kernel mode the cohort and `asnorm_top_n` are two reads of the scorer
  (`db.py:252`, `db.py:253`): if another is installed in between, the similarity goes
  by a number of rows of the one cohort that is right for the other, and is one that
  neither scorer gives (the second scorer of `NamedWithCause`).
* With alignment a sentence can be dropped as an echo of the sentence before it in
  the same segment, and the halves of one segment can get different speakers
  (`diarization/default.py:339`): echoes and speakers are decided after the cut.
* If the scorer is installed between two reads of it in kernel mode the job fails
  (`db.py:282`, `CohortAppeared`); the kernel refuses zero vectors that Python takes
  (`KernelRefuses`).
* `int()` of an infinite count raises an `OverflowError` the bridge does not turn into
  its own error (`runtime.py:159`); the job fails all the same.
* `_dominant_repeated_unit` lets a longer unit with a higher share replace one with a
  higher count, and the other way round (`asr/default.py:97`): a text can pass the
  guard although some unit of it meets both bounds.
* A death of the process between `result.json` and the embeddings leaves a result
  without them (`transcription_artifacts.py:39`).

## Proofs

Assumptions: those named in the modules (`NoHash` is not a content, the cache has
room for an entry, the bounds are numbers, `Emb` is finite, `MinCohort` and
`Timeout` are positive, `Nothing` and `Host` are distinct from languages and
devices; the store has an id to give and its legacy stores are typed, `Fold` is a
function on names; the ids of `Identify` are finitely many and scores are
integers, by every number of rows; the registry has a default provider for every
stage; a recording is typed and its segments are heard in the order of their
starts, as Whisper yields them, which the covering part of `SaysWhatWasHeard`
needs, while the pieces of an aligned segment have words and are otherwise
unrestricted; the labels are finitely many, and the numbered names are distinct and
reach as far as there are labels, as the f-string of `build_display_names` does).
The number of contents, jobs, embeddings, threads,
speakers, samples, recordings, crashes and faults is arbitrary, and so are the
length of a recording and of its texts.

* `JobService_proofs`: `IInv` adds to the checked invariants what they rest on:
  which variable of a job is set at which program point of its handler and
  thread, who holds the semaphore, that a claimed content belongs to the job that
  claimed it, and that a worker past `persist_transcription_artifacts` has its
  result stored. `TerminalIsFinal` and the refinement follow from one lemma
  (`StepIsDurable`) on what a step can do to the files.
  `OwnersAreLive` and `NoStatusIsOrphaned` are about a calm service (`Calm`: a
  cache for every job, no failing write), as in `settle`: the finding `evicted`
  shows that they need the first, a lost last write of `status.json` that they need
  the second. Crashes are as many as you like. The cache comes in through
  `NothingEvicted`: the entries are never more than the jobs.
* `CohortRebuild_proofs`: a builder whose target is still the current generation
  has listed every enrolled embedding that is still stored (`DirtInv`), because
  the target is read before the files are and an embedding is stored before it is
  enrolled; the file differs from the scorer only while the lock's holder is about
  to install it (`FileInv`). `KeepsLarger` shows that the second clause of
  `_should_keep_existing_cohort` follows from the first.
* `GpuRuntime_proofs`: who can be inside with whom (`Alone`), and what the one
  inside relies on. That a job never leaves the runtime without models
  (`JobsKeepModels`) makes the unload the only step that does, and the repeated
  check makes it timely.

* `JobApi_proofs`: a client's step leaves the service alone (`ApiStepIsStep`), so
  `IInv` carries over. `EntryInv` says what the entry of a job can be at each
  program point of its handler and thread, `ToldInv` that an answer is not ahead of
  the entry (`Ahead`) for as long as there is one: hence answers do not go back,
  and a completed answer was given when the result was stored and indexed.
* `VoiceprintStore_proofs`: a transaction touches the rows of one speaker
  (`OthersInv`), and `MineInv` says at each statement how far those rows are ahead
  of the committed ones: at `COMMIT` count, average, spread and, if the extension
  is loaded, vector are those of the samples. `ImportInv` does this for the
  migration, which takes whole speakers into an empty table; `NamesInv` and
  `DeletedInv` carry what the lookup by name and the place of `index.json` establish.
  `RequestsAreAtomic` is the refinement: only the commits of requests and of the
  migration change the book, each by one whole operation (`BookStep`).
* `Identify_proofs`, the scoring: the thresholds are equal as numbers
  (`SameThreshold`, `SameAsnormThreshold`), and a finite set of candidates has a best
  one (`Greatest`), so the two rules choose alike; the only difference is the zero
  vector the kernel refuses.
* `Identify_proofs`, the identification: every candidate at hand is in `seen`, what
  was read from the book for the label (`AtHandInv`). A score of the Python rule was
  computed by one scorer in use since the label began (`ScoredInv`); the kernel is
  given the cohort of one such scorer and the number of rows of another
  (`ScorersInv`): whoever is named has such a score (`NamedWithCause`).
  `NamesAreClear` rests on the limit: with AS-norm on, as many candidates are asked
  for as are enrolled, so everybody who stays is fetched (`EnoughInv`, `NearestIsAll`)
  and scored (`RivalInv`). `FewAreEnough` follows from `ReadInv`: without AS-norm the
  two best by cosine hold a best one of the whole book (`RawOracle`), with it the
  entries scored are those of the oracle (`AsnormOracle`), and the kernel is given
  either (`KernelOracle`).
* `PipelineRun_proofs`: the stages in order, what exists at each of them
  (`AudioInv`, `BundleInv`), and that every temporary file on disk is listed for the
  cleanup until the run has ended, unless its writer broke off or it could not be
  unlinked (`ListedInv`). `SaidInv` is the invariant for what a run says: at each
  stage what has been heard is the guarded recording, the pieces are what the aligner
  makes of it for some set of segments, and the aligned segments come from the pieces
  and the turns (`TalkInv`), the names are
  those of enrolled speakers (`NameInv`), and the result is what Python or the kernel
  builds from the aligned segments (`BuiltInv`). The four properties of what is said
  follow from it and from the lemmas of `Segments_proofs`.
* `Segments_proofs`: what the folds over segments compute. The library's induction
  theorems take an operator; here the well-foundedness of the numbers, a fact about
  sets, is applied to the set of the numbers for which something holds (`Least`,
  `Induction`, `Climb`). A fold is then the last value of a *course*, a function
  from the number of segments taken in to the value so far (`FoldingExists`,
  `CourseExists`, and one `...Course` lemma for each fold of the modules), and what
  holds of the last value is carried along the course:
  * `KernelAgrees`: the course of the Rust merge is that of the Python merge
    (`MergesAgree`), the n-th label of a group is the one Python counts as its n-th
    (`GroupsAre`, `NamesAgree`), so segments, names and their order are the same.
  * `SuppressedIs`: the run at hand is always the stretch of equal keys that ends at
    the segment before (`ScanStep`), and it is judged once it is longest; hence what
    is removed are whole stretches, whatever the judgement is (it is not unfolded).
  * `ForcedIs`: the pieces without words are segments as they were heard, so they
    come in order (`WordlessInOrder`), wherever the pieces with words lie.
    `MergeSpoken`, `MergeCovers`: a merge keeps for every set of labels what they
    said, and the last merged segment reaches over all it was made of, because only
    segments without words are merged and their starts do not go down. `KeptIs`, `DedupKeeps`: a segment is dropped exactly when
    its text repeats the one before it, dropped or not, since a dropped text is the
    text of the last one kept. `ToldIs` puts them together.
  * `ResultApart`: two labels shown under one name have different bases, one of
    which is the numbered form of the other (`ShownApart`), with a number between 2 and
    the number of labels.

Every safety invariant and action property that a passing run checks is a theorem.
Only model-checked: the liveness properties (`EveryJobSettles`, `ClaimIsReleased`,
`CatchesUp`, `IdleModelsAreReleased`), which TLAPS cannot reach. Of the
guard's judgement on one text (`DominantUnit`, `PromptScore`) nothing is proved: the
theorems hold whatever it is, and the run evaluates it on its recordings.

## Not modelled

The streaming of the upload; two processes on one data directory (only the hash
index is locked against it); the contents of audio and vectors; free GPU memory
(a choice of device); the alignment device in the alignment cache key;
`last_cohort_skipped` and the texts of answers; middleware, exports, model look-up,
configuration, release gates, the NLTK shim.

In the store: a table of another dimension, the paths of the legacy files. In
scoring: vector arithmetic and rounding. In the pipeline: how the aligner finds the
sentences of a segment and their times (what it returns is an input), the times of
single words, the cap on the chunks and the length of audio an embedding is made from, providers passed as objects instead of names,
artifact files that were there before, labels that `safe_speaker_label` refuses,
negative times and times that are no numbers, the blank between merged texts,
letter case in the guard, the SNR gate (a choice), and the rounding of times, in
which Python (to even) and Rust (away from zero) differ on a half millisecond.
`reassign_speaker` rewrites one file in one step
of the event loop; the exports only format.

## Plan

Modelled and checked: `JobContract`, `JobService`, `JobApi`, `CohortRebuild`,
`GpuRuntime`, `SpeakerBook`, `VoiceprintStore`, `Scoring`, `Identify`, `KernelBridge`,
`Segments`, `RepetitionGuard`, `PipelineRun`.

Left: `reassign_speaker` composed with a job that stores its result.
