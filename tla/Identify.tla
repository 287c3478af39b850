------------------------------- MODULE Identify -------------------------------
(***************************************************************************)
(* Naming the voices of one recording: the matching loop over its speaker  *)
(* labels and, for each, VoiceprintDB.identify, in Python or through the   *)
(* Rust kernel.                                                            *)
(*                                                                         *)
(* identify runs in a job's thread.  It takes the database lock for each   *)
(* query and drops it in between, and it reads the AS-norm scorer without  *)
(* any lock, several times over.  Meanwhile the event loop enrolls,        *)
(* updates, renames and deletes speakers, one whole operation at a time    *)
(* (VoiceprintStore shows that they are), and a cohort rebuild may install *)
(* another scorer.                                                         *)
(*                                                                         *)
(* A definition that carries a suffix and precedes the one it is named     *)
(* after is a seeded fault; no behaviour uses it.                          *)
(***************************************************************************)
EXTENDS Scoring, FiniteSets, KernelBridge

CONSTANTS Label,       \* the speaker labels with an embedding
          Id, Name,    \* enrolled speakers
          Emb,         \* average embeddings, named by how they sound
          Raw,         \* Raw[l][e]: cosine of the embedding of l with e
          SilentLabel, \* labels whose embedding has norm zero
          SilentEmb,   \* averages of norm zero
          Scorer,      \* AS-norm scorers
          NoScorer,
          Cohort,      \* Cohort[s]: the cohort behind s
          Norm,        \* Norm[s][n][l][e]: the AS-norm score by the n rows of
                       \* that cohort that come nearest
          Spread,      \* spreads an update may leave
          Books,       \* books the process may start with
          Base, AsnormBase,  \* the thresholds of the request and the store
          MaxChanges,  \* bound: changes to the book
          MaxSwaps,    \* bound: scorers installed
          MaxFlaws     \* bound: kernel calls that fail or answer wrongly

(* What an enrolled speaker is known by, and an id nobody has.             *)
Row   == [name : Name, avg : Emb, count : Nat, spread : Int \cup {NoSpread}]
NoRow == [name |-> NoName]

MaxTopN == 200   \* the default of top_n, also without a scorer

ASSUME ScorerAssumption == /\ NoScorer \notin Scorer
                           /\ \A s \in Scorer : Cohort[s].size \in Nat
ASSUME IdAssumption     == /\ NoId \notin Id /\ IsFiniteSet(Id)
                           /\ NoName \notin Name \cup Label
ASSUME BaseAssumption   == Base \in Int /\ AsnormBase \in Int
ASSUME ScoreAssumption  == /\ Raw \in [Label -> [Emb -> Int]]
                           /\ Norm \in [Scorer -> [0..MaxTopN ->
                                          [Label -> [Emb -> Int]]]]
ASSUME BookAssumption   == Books \subseteq [Id -> Row \cup {NoRow}] /\ Spread \subseteq Int

VARIABLES
  book,      \* the enrolled speakers: name, average, count and spread
  scorer,    \* db._asnorm
  required,  \* RUST_KERNEL_MODE is "required"; never changes
  pc,        \* the job's program point
  label,     \* the label being identified
  todo,      \* labels still to come
  limit,     \* the candidate limit last computed
  cands,     \* the candidates last fetched
  first,     \* the first of them
  left,      \* candidates not yet scored
  scored,    \* scored candidates
  cohort,    \* the scorer whose cohort is sent to the kernel
  topN,      \* the asnorm_top_n sent with it
  answer,    \* what identify returned for the label
  map,       \* the speaker map
  changes, swaps, flaws,  \* bounds
  seen,      \* history: rows read from the book for this label
  scorers,   \* history: scorers installed while this label was identified
  stayed,    \* history: ids whose row has not changed since
  grew,      \* history: a speaker was enrolled since
  still      \* history: neither book nor scorer changed since

job     == <<pc, label, todo>>
working == <<limit, cands, first, left, scored, cohort, topN, answer>>
world   == <<book, scorer, required, changes, swaps>>
history == <<seen, scorers, stayed, grew, still>>
vars    == <<world, job, working, map, flaws, history>>

Enrolled == {i \in Id : book[i] # NoRow}

ScorerCohort(s) == IF s = NoScorer THEN NoCohort ELSE Cohort[s]
IsActive(s)     == Active(ScorerCohort(s))

(* How many rows a scorer goes by, and the scores it gives by those.       *)
TopN(s)   == IF s = NoScorer THEN MaxTopN ELSE AtMost(MaxTopN, Cohort[s].size)
NormOf(s) == Norm[s][TopN(s)]

(* A row as a candidate for label l, scored with s where that is asked for.*)
Candidate(i, l, s) ==
  [id |-> i, name |-> book[i].name, avg |-> book[i].avg,
   count |-> book[i].count, spread |-> book[i].spread,
   silent |-> book[i].avg \in SilentEmb,
   raw |-> Raw[l][book[i].avg],
   norm |-> IF s = NoScorer THEN 0 ELSE NormOf(s)[l][book[i].avg]]

(* A candidate scored by the n nearest rows of the cohort of s.            *)
Rescored(c, s, n) ==
  [c EXCEPT !.norm = IF s = NoScorer THEN 0 ELSE Norm[s][n][label][c.avg]]

NoCandidate == [id |-> NoId]
Nothing     == NoMatch("none", 0)

-----------------------------------------------------------------------------
Init ==
  /\ book \in Books
  /\ scorer \in Scorer \cup {NoScorer}
  /\ required \in BOOLEAN
  /\ pc = "next"
  /\ label = CHOOSE l \in Label : TRUE
  /\ todo = Label
  /\ limit = 0 /\ cands = {} /\ first = NoCandidate
  /\ left = {} /\ scored = {} /\ cohort = NoScorer /\ topN = 0
  /\ answer = Nothing
  /\ map = <<>>
  /\ changes = 0 /\ swaps = 0 /\ flaws = 0
  /\ seen = {} /\ scorers = {} /\ stayed = {}
  /\ grew = FALSE /\ still = TRUE

-----------------------------------------------------------------------------
(* The world around the job, while it identifies a label.                  *)

Identifying == pc \notin {"next", "answered", "done", "failed"}

Change(i, row) ==
  /\ Identifying
  /\ changes < MaxChanges
  /\ changes' = changes + 1
  /\ book' = [book EXCEPT ![i] = row]
  /\ stayed' = stayed \ {i}
  /\ grew' = (grew \/ i \notin Enrolled)
  /\ still' = FALSE
  /\ UNCHANGED <<scorer, required, swaps, job, working, map, flaws, seen, scorers>>

Enroll(i, n, e) ==
  /\ i \notin Enrolled
  /\ Change(i, [name |-> n, avg |-> e, count |-> 1, spread |-> NoSpread])

Update(i, e, s) ==
  /\ i \in Enrolled
  /\ Change(i, [name |-> book[i].name, avg |-> e,
                count |-> book[i].count + 1, spread |-> s])

Rename(i, n) == i \in Enrolled /\ n # book[i].name
                /\ Change(i, [book[i] EXCEPT !.name = n])

Delete(i) == i \in Enrolled /\ Change(i, NoRow)

InstallScorer(s) ==
  /\ Identifying
  /\ swaps < MaxSwaps
  /\ swaps' = swaps + 1
  /\ s # scorer
  /\ scorer' = s
  /\ scorers' = scorers \cup {s}
  /\ still' = FALSE
  /\ UNCHANGED <<book, required, changes, job, working, map, flaws, seen, stayed,
                 grew>>

-----------------------------------------------------------------------------
(* The loop over the labels.                                               *)

NextLabel(l) ==
  /\ pc = "next"
  /\ l \in todo
  /\ label' = l
  /\ pc' = "limit"
  /\ seen' = {} /\ scorers' = {scorer} /\ stayed' = Enrolled
  /\ grew' = FALSE /\ still' = TRUE
  /\ limit' = 0 /\ cands' = {} /\ first' = NoCandidate
  /\ left' = {} /\ scored' = {} /\ cohort' = NoScorer /\ topN' = 0
  /\ answer' = Nothing
  /\ UNCHANGED <<world, todo, map, flaws>>

Step(here, next) ==
  /\ pc = here
  /\ pc' = next
  /\ UNCHANGED <<world, label, todo, map, flaws, scorers, stayed, grew,
                 still>>

Answer(here, a) ==
  /\ pc = here
  /\ pc' = "answered"
  /\ answer' = a
  /\ UNCHANGED <<world, label, todo, map, flaws, limit, cands, first, left,
                 scored, cohort, topN, history>>

(* The map entry of a label without a match carries the label as its name. *)
PutInMap ==
  /\ pc = "answered"
  /\ map' = [l \in DOMAIN map \cup {label} |->
               IF l = label
                 THEN [id |-> answer.id,
                       name |-> IF answer.name = NoName THEN label ELSE answer.name]
                 ELSE map[l]]
  /\ todo' = todo \ {label}
  /\ pc' = "next"
  /\ UNCHANGED <<world, label, working, flaws, history>>

Done ==
  /\ pc = "next"
  /\ todo = {}
  /\ pc' = "done"
  /\ UNCHANGED <<world, label, todo, working, map, flaws, history>>

-----------------------------------------------------------------------------
(* identify, as far as the first fetch.                                    *)

SilentQuery ==
  label \in SilentLabel /\ Answer("limit", NoMatch("invalid_query", 0))

LimitAlwaysTwo ==
  /\ label \notin SilentLabel
  /\ limit' = 2
  /\ Step("limit", "fetch")
  /\ UNCHANGED <<cands, first, left, scored, cohort, topN, answer, seen>>

CandidateLimit ==
  /\ label \notin SilentLabel
  /\ limit' = IF IsActive(scorer) THEN AtLeast(1, Cardinality(Enrolled)) ELSE 2
  /\ Step("limit", "fetch")
  /\ UNCHANGED <<cands, first, left, scored, cohort, topN, answer, seen>>

(* The ids of the k most similar averages; ties may go either way.         *)
Nearest(k) ==
  LET raw(i) == Raw[label][book[i].avg]
      size   == AtMost(AtLeast(1, k), Cardinality(Enrolled))
  IN  {s \in SUBSET Enrolled :
         /\ Cardinality(s) = size
         /\ \A i \in s, j \in Enrolled \ s : raw(j) <= raw(i)}

Fetched(s) == {Candidate(i, label, NoScorer) : i \in s}

Fetch ==
  /\ pc = "fetch"
  /\ Enrolled # {}
  /\ \E s \in Nearest(limit) :
       /\ cands' = Fetched(s)
       /\ seen' = seen \cup Fetched(s)
  /\ first' \in {c \in cands' : \A d \in cands' : d.raw <= c.raw}
  /\ Step("fetch", IF required THEN "cohort" ELSE "score_first")
  /\ UNCHANGED <<limit, left, scored, cohort, topN, answer>>

FetchNothing ==
  Enrolled = {} /\ Answer("fetch", NoMatch("no_candidates", 0))

-----------------------------------------------------------------------------
(* identify in Python.                                                     *)

Verdict(c, score, needed) ==
  IF score >= needed THEN Match(c, score) ELSE NoMatch("below_threshold", score)

DecideRaw ==
  /\ ~IsActive(scorer)
  /\ Answer("score_first",
            Verdict(first, first.raw,
                    EffectiveThreshold(Base, first.count, first.spread)))

ScoreFirst ==
  /\ IsActive(scorer)
  /\ Step("score_first", "count")
  /\ UNCHANGED <<working, seen>>

CountStale ==
  /\ limit' = limit - 1
  /\ Step("count", "refetch")
  /\ UNCHANGED <<cands, first, left, scored, cohort, topN, answer, seen>>

Count ==
  /\ limit' = Cardinality(Enrolled)
  /\ Step("count", "refetch")
  /\ UNCHANGED <<cands, first, left, scored, cohort, topN, answer, seen>>

(* Candidates are fetched anew, by cosine, as many as were counted.        *)
Refetch ==
  /\ pc = "refetch"
  /\ \E s \in Nearest(limit) :
       /\ cands' = Fetched(s)
       /\ left' = Fetched(s)
       /\ seen' = seen \cup Fetched(s)
  /\ Step("refetch", "score_each")
  /\ UNCHANGED <<limit, first, scored, cohort, topN, answer>>

ScoreEachUnconditional(c) ==
  /\ c \in left
  /\ left' = left \ {c}
  /\ scored' = scored \cup
       {[cand |-> c,
         score |-> IF IsActive(scorer) THEN NormOf(scorer)[label][c.avg] ELSE c.raw,
         needed |-> EffectiveAsnormThreshold(AsnormBase, c.count, c.spread)]}
  /\ Step("score_each", "score_each")
  /\ UNCHANGED <<limit, cands, first, cohort, topN, answer, seen>>

(* The scorer is read again for every candidate; one that is no longer     *)
(* active leaves the candidate out.                                        *)
ScoreEach(c) ==
  /\ c \in left
  /\ left' = left \ {c}
  /\ scored' = scored \cup
       (IF IsActive(scorer)
          THEN {[cand |-> c, score |-> NormOf(scorer)[label][c.avg],
                 needed |-> EffectiveAsnormThreshold(AsnormBase, c.count, c.spread)]}
          ELSE {})
  /\ Step("score_each", "score_each")
  /\ UNCHANGED <<limit, cands, first, cohort, topN, answer, seen>>

DecideAsnorm ==
  /\ pc = "score_each"
  /\ left = {}
  /\ IF scored = {}
       THEN Answer("score_each", Nothing)
       ELSE \E b \in Tops(scored) : Answer("score_each", DecideOn(b, scored, TRUE))

-----------------------------------------------------------------------------
(* identify through the kernel.                                            *)

(* The cohort of the scorer, if there is one at that moment.  If there is  *)
(* none the scorer is looked at again.                                     *)
TakeCohort ==
  /\ cohort' = scorer
  /\ Step("cohort", IF scorer = NoScorer THEN "cohort_missing" ELSE "top_n")
  /\ UNCHANGED <<limit, cands, first, left, scored, topN, answer, seen>>

CohortReallyMissing ==
  /\ ~IsActive(scorer)
  /\ Step("cohort_missing", "top_n")
  /\ UNCHANGED <<working, seen>>

CohortAppeared ==
  /\ pc = "cohort_missing"
  /\ IsActive(scorer)
  /\ pc' = "failed"
  /\ UNCHANGED <<world, label, todo, working, map, flaws, history>>

(* The number of rows is asked of the scorer of that moment, which need    *)
(* not be the one the cohort came from.                                    *)
TakeTopN ==
  /\ topN' = TopN(scorer)
  /\ Step("top_n", "kernel")
  /\ UNCHANGED <<limit, cands, first, left, scored, cohort, answer, seen>>

(* What the kernel makes of the payload.                                   *)
Replies ==
  KernelDecisions(FALSE, {Rescored(c, cohort, topN) : c \in cands},
                  ScorerCohort(cohort), Base, AsnormBase)

(* The kinds of a response as the extension builds it.                     *)
WellFormed(d) ==
  [f \in DOMAIN VoiceprintScore |->
     CASE f \in {"matched_id", "matched_name"} ->
                   IF d.id = NoId THEN "null" ELSE "text"
       [] f = "asnorm_active" -> "bool"
       [] f = "candidates"    -> "list"
       [] f = "sample_count"  -> "natural"
       [] f = "sample_spread" -> "null"
       [] f \in {"reason", "asnorm_reason", "speaker_id", "name", "score_method"}
                              -> "text"
       [] OTHER               -> "decimal"]

Infinite == 1000000   \* beyond any score

(* The similarity the caller is told is that of the response.              *)
Told(d, response) ==
  IF response["similarity"] = "infinite" THEN [d EXCEPT !.similarity = Infinite] ELSE d

KernelReplies(d, response) ==
  IF d = KernelError \/ ~Passes(VoiceprintScore, response)
    THEN /\ pc' = "failed"
         /\ UNCHANGED <<world, label, todo, working, map, history>>
    ELSE /\ pc' = "answered"
         /\ answer' = Told(d, response)
         /\ UNCHANGED <<world, label, todo, map, limit, cands, first, left,
                        scored, cohort, topN, history>>

(* Any field may be spoilt but the two the bridge lets through unread.     *)
ScoreFlaws ==
  {f \in Flaws(VoiceprintScore) : f[1] \notin {"matched_id", "matched_name"}}

CallKernel ==
  /\ pc = "kernel"
  /\ \E d \in Replies :
       \/ KernelReplies(d, WellFormed(d)) /\ flaws' = flaws
       \/ /\ flaws < MaxFlaws
          /\ flaws' = flaws + 1
          /\ \E f \in ScoreFlaws : KernelReplies(d, Spoilt(WellFormed(d), f))

(* The extension is missing, or raises.                                    *)
KernelFails ==
  /\ pc = "kernel"
  /\ flaws < MaxFlaws
  /\ flaws' = flaws + 1
  /\ pc' = "failed"
  /\ UNCHANGED <<world, label, todo, working, map, history>>

-----------------------------------------------------------------------------
World ==
  \/ \E i \in Id, n \in Name, e \in Emb : Enroll(i, n, e)
  \/ \E i \in Id, e \in Emb, s \in Spread : Update(i, e, s)
  \/ \E i \in Id, n \in Name : Rename(i, n)
  \/ \E i \in Id : Delete(i)
  \/ \E s \in Scorer : InstallScorer(s)

Python ==
  \/ DecideRaw \/ ScoreFirst \/ Count \/ Refetch \/ DecideAsnorm
  \/ \E c \in left : ScoreEach(c)

Kernel == TakeCohort \/ CohortReallyMissing \/ CohortAppeared \/ TakeTopN
          \/ CallKernel \/ KernelFails

Match_ ==
  \/ \E l \in Label : NextLabel(l)
  \/ SilentQuery \/ CandidateLimit \/ Fetch \/ FetchNothing
  \/ Python \/ Kernel \/ PutInMap \/ Done

Next == World \/ Match_

Spec == Init /\ [][Next]_vars

-----------------------------------------------------------------------------
(* The score of a row read from the book by the n nearest rows of the      *)
(* cohort of s, on the scale of that scorer.                               *)
ScoredUnder(c, s, n) == Scored(Rescored(c, s, n), IsActive(s), Base, AsnormBase)

(* A label is given the name of a speaker only if some scorer in use while *)
(* it was identified, or none, gives that speaker, as it was enrolled at   *)
(* some moment meanwhile, the similarity that is reported, and that        *)
(* reaches the threshold for its evidence on the same scale: never a       *)
(* cosine held against an AS-norm threshold, never a name from a response  *)
(* the bridge should have refused.  Python goes by one scorer.  The kernel *)
(* may be sent the cohort of one and the number of rows of another, if     *)
(* both were in use; then the similarity may be one that no scorer gives.  *)
NamedWithCause ==
  answer.id # NoId =>
    \E c \in seen, s, t \in scorers :
      /\ required \/ s = t
      /\ c.id = answer.id /\ c.name = answer.name
      /\ ScoredUnder(c, s, TopN(t)).score = answer.similarity
      /\ ScoredUnder(c, s, TopN(t)).score >= ScoredUnder(c, s, TopN(t)).needed

(* While the book and the scorer stay as they are, identify decides as the *)
(* oracle does on the whole book, however few candidates it fetched.       *)
QuietIsOracle ==
  pc = "answered" /\ still =>
    LET whole == {Candidate(i, label, scorer) : i \in Enrolled}
    IN  \E d \in OracleDecisions(label \in SilentLabel, whole, ScorerCohort(scorer),
                                 Base, AsnormBase) :
          answer.id = d.id /\ answer.name = d.name
          /\ answer.similarity = d.similarity

(* A name given by AS-norm is clear of every speaker who was enrolled      *)
(* unchanged throughout, whoever else is renamed, updated or deleted       *)
(* meanwhile: only a new speaker or a new scorer lets a rival be passed    *)
(* over.                                                                   *)
RivalsAreCompared ==
  pc = "answered" /\ answer.id # NoId /\ scorers = {scorer} /\ IsActive(scorer)
    /\ ~grew =>
      \A j \in stayed \ {answer.id} :
        answer.similarity - Candidate(j, label, scorer).norm >= MinMargin

(* On every book and cohort a label starts with, the kernel and the oracle *)
(* reach the same decisions, unless the kernel refuses a zero vector.      *)
KernelMatchesOracle ==
  pc = "limit" => \A l \in Label :
    LET whole == {Candidate(i, l, scorer) : i \in Enrolled}
        c     == ScorerCohort(scorer)
    IN  KernelRefuses(whole, c) \/
        KernelDecisions(l \in SilentLabel, whole, c, Base, AsnormBase)
          = OracleDecisions(l \in SilentLabel, whole, c, Base, AsnormBase)
=============================================================================
