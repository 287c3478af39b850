---------------------------- MODULE Identify_proofs ----------------------------
(***************************************************************************)
(* identify, for any number of speakers, labels, changes to the book and   *)
(* scorers installed meanwhile, and any scores.                            *)
(***************************************************************************)
EXTENDS Identify, FiniteSetTheorems, WellFoundedInduction, TLAPS

(* The Rust rule is the Python rule, for every threshold, count, spread,   *)
(* score and cohort, and for any finite set of candidates.                 *)

(* What the rules read of a candidate.                                     *)
CandidateOK(c) ==
  /\ c.raw \in Int /\ c.norm \in Int
  /\ c.count \in Int
  /\ c.spread \in Int \cup {NoSpread}

(* The raw threshold never goes below the floor.                           *)
THEOREM FloorHolds ==
  ASSUME NEW base \in Int, NEW count \in Int, NEW spread \in Int \cup {NoSpread}
  PROVE  /\ EffectiveThreshold(base, count, spread) \in Int
         /\ EffectiveThreshold(base, count, spread) >= Floor
BY DEF EffectiveThreshold, AtLeast, AtMost, Floor

(* The kernel takes the spread for at least zero before it relaxes the     *)
(* threshold, Python caps the relaxed threshold at the base: it is one.    *)
LEMMA SameThreshold ==
  ASSUME NEW base \in Int, NEW count \in Int, NEW spread \in Int \cup {NoSpread}
  PROVE  KernelThreshold(base, count, spread)
           = EffectiveThreshold(base, count, spread)
BY DEF EffectiveThreshold, KernelThreshold, AtLeast, AtMost, Floor

LEMMA SameAsnormThreshold ==
  ASSUME NEW base \in Int, NEW count \in Int, NEW spread \in Int \cup {NoSpread}
  PROVE  KernelAsnormThreshold(base, count, spread)
           = EffectiveAsnormThreshold(base, count, spread)
<1>1. CASE count <= 1 \/ spread = NoSpread
  BY <1>1 DEF KernelAsnormThreshold, EffectiveAsnormThreshold
<1>2. CASE ~(count <= 1 \/ spread = NoSpread)
  BY <1>2 DEF KernelAsnormThreshold, EffectiveAsnormThreshold, AtLeast, AtMost
<1> QED BY <1>1, <1>2

(* Among finitely many candidates there is one of the greatest score: one   *)
(* whose betters include no other's betters.                               *)
LEMMA Greatest ==
  ASSUME NEW C, IsFiniteSet(C), C # {}, NEW score, \A c \in C : score[c] \in Int
  PROVE  \E b \in C : \A c \in C : score[c] <= score[b]
<1> DEFINE betters(c) == {d \in C : score[d] > score[c]}
           T == {betters(c) : c \in C}
           R == StrictSubsetOrdering(C)
<1>1. IsWellFoundedOn(R, SUBSET C)
  BY FS_StrictSubsetOrderingWellFounded, FS_FiniteSubsetsOfFinite, Zenon
<1>2. T \subseteq SUBSET C /\ T # {}
  BY Zenon
<1>3. PICK t \in T : \A s \in T : <<s, t>> \notin R
  <2> HIDE DEF T, R
  <2> QED BY <1>1, <1>2, WFMin, Zenon
<1>4. PICK b \in C : t = betters(b)
  BY <1>3
<1>5. ASSUME NEW c \in C, score[c] > score[b] PROVE FALSE
  <2>1. betters(c) \subseteq betters(b)
    BY <1>5
  <2>2. c \in betters(b) /\ c \notin betters(c)
    BY <1>5
  <2>3. <<betters(c), betters(b)>> \in R
    BY <2>1, <2>2 DEF StrictSubsetOrdering
  <2> QED BY <2>3, <1>3, <1>4
<1> QED BY <1>5

-----------------------------------------------------------------------------
(* Whatever the cohort, the counts and the spreads, the kernel reaches the *)
(* decisions of the oracle, unless it refuses a zero vector: the margin to *)
(* the second of a sorted list is the margin to every rival.               *)
THEOREM KernelIsOracle ==
  ASSUME NEW C, IsFiniteSet(C), \A c \in C : CandidateOK(c),
         NEW K, NEW base \in Int, NEW normBase \in Int,
         NEW silentQuery \in BOOLEAN, ~KernelRefuses(C, K)
  PROVE  KernelDecisions(silentQuery, C, K, base, normBase)
           = OracleDecisions(silentQuery, C, K, base, normBase)
<1> DEFINE active    == Active(K)
           score(c)  == IF active THEN c.norm ELSE c.raw
           needed(c) == IF active
                          THEN EffectiveAsnormThreshold(normBase, c.count, c.spread)
                          ELSE EffectiveThreshold(base, c.count, c.spread)
           S(c)      == Scored(c, active, base, normBase)
           marked    == {S(c) : c \in C}
           heads     == {h \in C : \A c \in C : score(c) <= score(h)}
<1>1. \A c \in C : S(c).cand = c /\ S(c).score = score(c) /\ S(c).needed = needed(c)
  BY DEF Scored
<1>2. \A c \in C : score(c) \in Int
  BY DEF CandidateOK
<1>3. Tops(marked) = {S(h) : h \in heads}
  BY <1>1 DEF Tops
<1>4. ASSUME NEW h \in heads
      PROVE  DecideOn(S(h), marked, active)
               = KernelVerdict(C, h, active, base, normBase)
  <2> DEFINE others == C \ {h}
             second == {c \in others : \A d \in others : score(d) <= score(c)}
  <2>1. Rivals(S(h), marked) = {score(c) : c \in others}
    BY <1>1 DEF Rivals
  <2>2. AsnormMarginPasses(score(h), Rivals(S(h), marked))
          <=> \A c \in others : score(h) - score(c) >= MinMargin
    BY <2>1 DEF AsnormMarginPasses
  <2>3. (\A c \in others : score(h) - score(c) >= MinMargin)
          <=> ~\E c \in second : score(h) - score(c) < MinMargin
    <3>1. ASSUME NEW c \in others, ~(score(h) - score(c) >= MinMargin)
          PROVE  \E b \in second : score(h) - score(b) < MinMargin
      <4> DEFINE f == [d \in others |-> score(d)]
      <4>1. IsFiniteSet(others) /\ others # {}
        BY FS_Subset
      <4>2. \A d \in others : f[d] \in Int /\ f[d] = score(d)
        BY <1>2
      <4>3. PICK b \in others : \A d \in others : f[d] <= f[b]
        <5> HIDE DEF f, others
        <5> QED BY <4>1, <4>2, Greatest
      <4>4. b \in second
        BY <4>2, <4>3
      <4>5. score(h) \in Int /\ score(c) \in Int /\ score(b) \in Int
        BY <1>2
      <4>6. score(c) <= score(b)
        BY <4>4
      <4>7. score(h) - score(b) < MinMargin
        <5> HIDE DEF score
        <5> QED BY <3>1, <4>5, <4>6 DEF MinMargin
      <4> QED BY <4>4, <4>7
    <3>2. ASSUME NEW c \in second PROVE score(h) - score(c) \in Int
      BY <1>2
    <3> HIDE DEF score
    <3> QED BY <3>1, <3>2 DEF MinMargin
  <2>4. /\ active => KernelAsnormThreshold(normBase, h.count, h.spread) = needed(h)
        /\ ~active => KernelThreshold(base, h.count, h.spread) = needed(h)
    BY SameThreshold, SameAsnormThreshold DEF CandidateOK
  <2>5. KernelVerdict(C, h, active, base, normBase)
          = IF active /\ \E c \in second : score(h) - score(c) < MinMargin
              THEN NoMatch("ambiguous_margin", score(h))
            ELSE IF score(h) >= needed(h)
              THEN Match(h, score(h))
              ELSE NoMatch("below_threshold", score(h))
    BY <2>4 DEF KernelVerdict
  <2>6. DecideOn(S(h), marked, active)
          = IF active /\ ~AsnormMarginPasses(score(h), Rivals(S(h), marked))
              THEN NoMatch("ambiguous_margin", score(h))
            ELSE IF score(h) >= needed(h)
              THEN Match(h, score(h))
              ELSE NoMatch("below_threshold", score(h))
    <3> HIDE DEF S, score, needed, active, marked
    <3> QED BY <1>1 DEF DecideOn, heads
  <2> HIDE DEF S, score, needed, active, marked, second, others
  <2> QED BY <2>2, <2>3, <2>5, <2>6
<1>5. {DecideOn(b, marked, active) : b \in Tops(marked)}
        = {KernelVerdict(C, h, active, base, normBase) : h \in heads}
  <2> HIDE DEF S, marked, heads, active
  <2> QED BY <1>3, <1>4
<1> HIDE DEF KernelVerdict
<1> QED BY <1>5 DEF KernelDecisions, OracleDecisions

-----------------------------------------------------------------------------
(* The candidates a book can give, with the cosine for the current label.  *)
Cand == [id : Id, name : Name, avg : Emb, count : Nat,
         spread : Int \cup {NoSpread}, silent : BOOLEAN, raw : Int, norm : Int]

PC == {"next", "limit", "fetch", "score_first", "count", "refetch", "score_each",
       "cohort", "cohort_missing", "top_n", "kernel", "answered", "done", "failed"}

(* The way to the kernel.                                                  *)
Asked == {"cohort", "cohort_missing", "top_n", "kernel"}

TypeInv ==
  /\ pc \in PC
  /\ book \in [Id -> Row \cup {NoRow}]
  /\ scorer \in Scorer \cup {NoScorer}
  /\ scorers \subseteq Scorer \cup {NoScorer}
  /\ todo \subseteq Label
  /\ pc \notin {"next", "done"} => label \in Label

(* What the job has at hand was read from the book for this label, and     *)
(* what it scored it scored under a scorer that was active then.           *)
SeenInv ==
  \A c \in seen : c \in Cand /\ label \in Label /\ c.raw = Raw[label][c.avg]

AtHandInv ==
  /\ cands \subseteq seen /\ left \subseteq seen
  /\ pc = "score_first" => first \in seen

ScoredInv ==
  \A x \in scored :
    /\ x.cand \in seen
    /\ \E s \in scorers :
         /\ x.score = ScoredUnder(x.cand, s, TopN(s)).score
         /\ x.needed = ScoredUnder(x.cand, s, TopN(s)).needed

ScorersInv ==
  /\ pc \notin {"next", "done"} => scorer \in scorers
  /\ pc \in Asked => required
  /\ pc \in Asked \ {"cohort"} => cohort \in scorers
  /\ pc = "kernel" => \E t \in scorers : topN = TopN(t)

CauseInv == SeenInv /\ AtHandInv /\ ScoredInv /\ ScorersInv /\ NamedWithCause

USE DEF world, job, working, history, PC, Asked

-----------------------------------------------------------------------------
(* Rows and candidates.                                                    *)

LEMMA Distinct == NoRow \notin Row
BY IdAssumption DEF NoRow, Row

(* A scorer goes by no more rows than the most, and scores by those.       *)
LEMMA TopNIs ==
  ASSUME NEW s \in Scorer \cup {NoScorer}
  PROVE  /\ TopN(s) \in 0..MaxTopN
         /\ s # NoScorer => NormOf(s) \in [Label -> [Emb -> Int]]
<1>1. TopN(s) \in 0..MaxTopN
  BY ScorerAssumption DEF TopN, AtMost, MaxTopN
<1> QED BY <1>1, ScoreAssumption DEF NormOf

LEMMA CandidateType ==
  ASSUME TypeInv, NEW i \in Enrolled, NEW l \in Label,
         NEW s \in Scorer \cup {NoScorer}
  PROVE  /\ Candidate(i, l, s) \in Cand
         /\ Candidate(i, l, s).raw = Raw[l][book[i].avg]
         /\ i \in Id
         /\ book[i] \in Row
<1>1. i \in Id /\ book[i] \in Row
  BY DEF Enrolled, TypeInv
<1>2. Raw[l][book[i].avg] \in Int /\ (s # NoScorer => NormOf(s)[l][book[i].avg] \in Int)
  BY <1>1, ScoreAssumption, TopNIs DEF Row
<1>3. (book[i].avg \in SilentEmb) \in BOOLEAN
  OBVIOUS
<1> QED BY <1>1, <1>2, <1>3 DEF Candidate, Cand, Row

LEMMA RescoredIs ==
  ASSUME NEW c \in Cand, label \in Label, NEW s \in Scorer \cup {NoScorer},
         NEW n \in 0..MaxTopN
  PROVE  /\ Rescored(c, s, n) \in Cand
         /\ Rescored(c, s, n).id = c.id /\ Rescored(c, s, n).name = c.name
         /\ Rescored(c, s, n).raw = c.raw
         /\ Rescored(c, s, n).count = c.count /\ Rescored(c, s, n).spread = c.spread
         /\ Rescored(c, s, n).silent = c.silent
         /\ s # NoScorer => Rescored(c, s, n).norm = Norm[s][n][label][c.avg]
<1>1. ASSUME s # NoScorer PROVE Norm[s][n][label][c.avg] \in Int
  <2>1. Norm[s] \in [0..MaxTopN -> [Label -> [Emb -> Int]]]
    BY <1>1, ScoreAssumption
  <2>2. Norm[s][n] \in [Label -> [Emb -> Int]]
    BY <2>1
  <2> QED BY <2>2 DEF Cand
<1> QED BY <1>1 DEF Rescored, Cand

LEMMA ScoredUnderIs ==
  ASSUME NEW c \in Cand, label \in Label, NEW s \in Scorer \cup {NoScorer},
         NEW n \in 0..MaxTopN
  PROVE  /\ ScoredUnder(c, s, n).score =
              IF IsActive(s) THEN Rescored(c, s, n).norm ELSE c.raw
         /\ ScoredUnder(c, s, n).needed =
              IF IsActive(s)
                THEN EffectiveAsnormThreshold(AsnormBase, c.count, c.spread)
                ELSE EffectiveThreshold(Base, c.count, c.spread)
BY RescoredIs DEF ScoredUnder, Scored

LEMMA InactiveWithoutScorer == ~IsActive(NoScorer)
BY DEF IsActive, ScorerCohort, Active, NoCohort, MinCohortSize

-----------------------------------------------------------------------------
(* Types.                                                                  *)

LEMMA InitTypes == Init => TypeInv
BY BookAssumption DEF Init, TypeInv

LEMMA StepTypes == TypeInv /\ [Next]_vars => TypeInv'
<1> SUFFICES ASSUME TypeInv, [Next]_vars PROVE TypeInv'
  OBVIOUS
<1> USE DEF TypeInv
<1>1. ASSUME NEW i \in Id, NEW n \in Name, NEW e \in Emb, Enroll(i, n, e)
      PROVE  TypeInv'
  <2>1. [name |-> n, avg |-> e, count |-> 1, spread |-> NoSpread] \in Row
    BY DEF Row
  <2> QED BY <1>1, <2>1 DEF Enroll, Change
<1>2. ASSUME NEW i \in Id, NEW e \in Emb, NEW s \in Spread, Update(i, e, s)
      PROVE  TypeInv'
  <2>1. book[i] \in Row
    BY <1>2 DEF Update, Enrolled
  <2>2. [name |-> book[i].name, avg |-> e, count |-> book[i].count + 1,
         spread |-> s] \in Row
    BY <2>1, BookAssumption DEF Row
  <2> QED BY <1>2, <2>2 DEF Update, Change
<1>3. ASSUME NEW i \in Id, NEW n \in Name, Rename(i, n) PROVE TypeInv'
  <2>1. book[i] \in Row
    BY <1>3 DEF Rename, Enrolled
  <2>2. [book[i] EXCEPT !.name = n] \in Row
    BY <2>1 DEF Row
  <2> QED BY <1>3, <2>2 DEF Rename, Change
<1>4. ASSUME NEW i \in Id, Delete(i) PROVE TypeInv'
  BY <1>4 DEF Delete, Change
<1>5. ASSUME NEW s \in Scorer, InstallScorer(s) PROVE TypeInv'
  BY <1>5 DEF InstallScorer
<1>6. ASSUME NEW l \in Label, NextLabel(l) PROVE TypeInv'
  BY <1>6 DEF NextLabel
<1>7. CASE SilentQuery \/ FetchNothing \/ DecideRaw \/ DecideAsnorm
  BY <1>7 DEF SilentQuery, FetchNothing, DecideRaw, DecideAsnorm, Answer
<1>8. CASE CandidateLimit \/ Fetch \/ ScoreFirst \/ Count \/ Refetch
           \/ \E c \in left : ScoreEach(c)
  BY <1>8 DEF CandidateLimit, Fetch, ScoreFirst, Count, Refetch, ScoreEach, Step
<1>9. CASE PutInMap \/ Done
  BY <1>9 DEF PutInMap, Done
<1>10. CASE Kernel
  BY <1>10 DEF Kernel, TakeCohort, CohortReallyMissing, CohortAppeared, TakeTopN, CallKernel,
               KernelReplies, KernelFails, Step
<1>11. CASE UNCHANGED vars
  BY <1>11 DEF vars
<1> QED BY <1>1, <1>2, <1>3, <1>4, <1>5, <1>6, <1>7, <1>8, <1>9, <1>10, <1>11
        DEF Next, World, Match_, Python

-----------------------------------------------------------------------------
(* The kernel's rule on the book.                                          *)

LEMMA WholeIsOK ==
  ASSUME TypeInv, NEW l \in Label, NEW s \in Scorer \cup {NoScorer}
  PROVE  LET whole == {Candidate(i, l, s) : i \in Enrolled}
         IN  IsFiniteSet(whole) /\ \A c \in whole : CandidateOK(c)
<1>1. IsFiniteSet(Enrolled)
  BY IdAssumption, FS_Subset DEF Enrolled
<1>2. IsFiniteSet({Candidate(i, l, s) : i \in Enrolled})
  <2> DEFINE T == {Candidate(i, l, s) : i \in Enrolled}
             f == [i \in Enrolled |-> Candidate(i, l, s)]
  <2>1. f \in Surjection(Enrolled, T)
    BY DEF Surjection
  <2> HIDE DEF f, T
  <2> QED BY <1>1, <2>1, FS_Surjection DEF T
<1>3. \A i \in Enrolled : CandidateOK(Candidate(i, l, s))
  BY CandidateType DEF CandidateOK, Cand
<1> QED BY <1>2, <1>3

LEMMA TypesGiveTwin == TypeInv => KernelMatchesOracle
<1> SUFFICES ASSUME TypeInv, NEW l \in Label,
                    ~KernelRefuses({Candidate(i, l, scorer) : i \in Enrolled},
                                   ScorerCohort(scorer))
             PROVE  LET whole == {Candidate(i, l, scorer) : i \in Enrolled}
                        c     == ScorerCohort(scorer)
                    IN  KernelDecisions(l \in SilentLabel, whole, c, Base, AsnormBase)
                          = OracleDecisions(l \in SilentLabel, whole, c, Base, AsnormBase)
  BY Zenon DEF KernelMatchesOracle
<1> DEFINE whole == {Candidate(i, l, scorer) : i \in Enrolled}
<1>1. IsFiniteSet(whole) /\ \A c \in whole : CandidateOK(c)
  BY WholeIsOK DEF TypeInv
<1>2. (l \in SilentLabel) \in BOOLEAN
  OBVIOUS
<1> HIDE DEF whole
<1>3. ~KernelRefuses(whole, ScorerCohort(scorer)) =>
        KernelDecisions(l \in SilentLabel, whole, ScorerCohort(scorer), Base, AsnormBase)
          = OracleDecisions(l \in SilentLabel, whole, ScorerCohort(scorer), Base,
                            AsnormBase)
  BY <1>1, <1>2, KernelIsOracle, BaseAssumption
<1> QED BY <1>3 DEF whole

THEOREM TypesHold == Spec => []TypeInv
BY InitTypes, StepTypes, PTL DEF Spec

(* On every book that enrollments, updates, renamings and deletions lead   *)
(* to, and under every scorer, the kernel decides as the oracle does.      *)
THEOREM TwinsAgree == Spec => []KernelMatchesOracle
BY TypesHold, TypesGiveTwin, PTL

-----------------------------------------------------------------------------
(* A name has a cause.                                                     *)

LEMMA ContractOfSimilarity ==
  ASSUME NEW response, Passes(VoiceprintScore, response)
  PROVE  response["similarity"] # "infinite"
<1>1. /\ "similarity" \in DOMAIN VoiceprintScore
      /\ VoiceprintScore["similarity"] = FiniteNum
  BY DEF VoiceprintScore, With
<1>2. response["similarity"] \in FiniteNum
  BY <1>1 DEF Passes
<1> QED BY <1>2 DEF FiniteNum

(* What the kernel says of a candidate holds of the row it was read from.  *)
LEMMA KernelHasCause ==
  ASSUME TypeInv, CauseInv, pc = "kernel", NEW d \in Replies, d.id # NoId
  PROVE  \E c \in seen :
           /\ c.id = d.id /\ c.name = d.name
           /\ ScoredUnder(c, cohort, topN).score = d.similarity
           /\ ScoredUnder(c, cohort, topN).score >= ScoredUnder(c, cohort, topN).needed
<1> DEFINE K        == {Rescored(c, cohort, topN) : c \in cands}
           C        == ScorerCohort(cohort)
           active   == Active(C)
           score(c) == IF active THEN c.norm ELSE c.raw
           heads    == {h \in K : \A c \in K : score(c) <= score(h)}
<1>1. cohort \in Scorer \cup {NoScorer} /\ label \in Label /\ topN \in 0..MaxTopN
  BY TopNIs DEF CauseInv, ScorersInv, TypeInv
<1>2. PICK h \in heads : d = KernelVerdict(K, h, active, Base, AsnormBase)
  <2>1. d \in KernelDecisions(FALSE, K, C, Base, AsnormBase)
    BY DEF Replies
  <2> HIDE DEF K, C
  <2> QED BY <2>1 DEF KernelDecisions, NoMatch, KernelError
<1>3. PICK c \in cands : h = Rescored(c, cohort, topN)
  OBVIOUS
<1>4. c \in seen /\ c \in Cand
  BY DEF CauseInv, AtHandInv, SeenInv
<1>5. /\ h.id = c.id /\ h.name = c.name /\ h.raw = c.raw
      /\ h.count = c.count /\ h.spread = c.spread
  BY <1>1, <1>3, <1>4, RescoredIs
<1>6. /\ d.id = h.id /\ d.name = h.name /\ d.similarity = score(h)
      /\ score(h) >= IF active
                       THEN KernelAsnormThreshold(AsnormBase, h.count, h.spread)
                       ELSE KernelThreshold(Base, h.count, h.spread)
  <2> HIDE DEF K, active, heads
  <2> QED BY <1>2 DEF KernelVerdict, Match, NoMatch
<1>7. /\ KernelAsnormThreshold(AsnormBase, h.count, h.spread)
           = EffectiveAsnormThreshold(AsnormBase, c.count, c.spread)
      /\ KernelThreshold(Base, h.count, h.spread)
           = EffectiveThreshold(Base, c.count, c.spread)
  <2>1. c.count \in Int /\ c.spread \in Int \cup {NoSpread}
    BY <1>4 DEF Cand
  <2>2. /\ KernelAsnormThreshold(AsnormBase, c.count, c.spread)
             = EffectiveAsnormThreshold(AsnormBase, c.count, c.spread)
        /\ KernelThreshold(Base, c.count, c.spread)
             = EffectiveThreshold(Base, c.count, c.spread)
    BY <2>1, SameThreshold, SameAsnormThreshold, BaseAssumption
  <2> HIDE DEF heads
  <2> QED BY <1>5, <2>2
<1>8. /\ ScoredUnder(c, cohort, topN).score = score(h)
      /\ ScoredUnder(c, cohort, topN).needed =
            IF active THEN EffectiveAsnormThreshold(AsnormBase, c.count, c.spread)
                      ELSE EffectiveThreshold(Base, c.count, c.spread)
  <2> HIDE DEF K
  <2> QED BY <1>1, <1>3, <1>4, <1>5, ScoredUnderIs DEF IsActive
<1> QED
  <2> HIDE DEF K, active, score, heads
  <2> QED BY <1>4, <1>5, <1>6, <1>7, <1>8

(* The parts of CauseInv stand when what has been read stays and scorers   *)
(* are only added.                                                         *)
LEMMA CauseStays ==
  ASSUME CauseInv, seen' = seen, label' = label, cands' = cands, left' = left,
         first' = first, scored' = scored, cohort' = cohort, topN' = topN,
         answer' = answer, required' = required, scorers \subseteq scorers',
         pc' \notin {"next", "done"} => scorer' \in scorers',
         pc' = "score_first" => pc = "score_first",
         pc' \in Asked => pc \in Asked /\ (pc' = "cohort" <=> pc = "cohort"),
         pc' = "kernel" => pc = "kernel"
  PROVE  CauseInv'
<1>1. SeenInv' /\ AtHandInv'
  BY DEF CauseInv, SeenInv, AtHandInv
<1>2. \A c, s, n : ScoredUnder(c, s, n)' = ScoredUnder(c, s, n)
  BY DEF ScoredUnder, Rescored
<1>3. ScoredInv'
  BY <1>2 DEF CauseInv, ScoredInv
<1>4. ScorersInv'
  BY DEF CauseInv, ScorersInv
<1>5. NamedWithCause'
  BY <1>2 DEF CauseInv, NamedWithCause
<1> QED BY <1>1, <1>3, <1>4, <1>5 DEF CauseInv

LEMMA StepHasCause == TypeInv /\ TypeInv' /\ CauseInv /\ [Next]_vars => CauseInv'
<1> SUFFICES ASSUME TypeInv, TypeInv', CauseInv, [Next]_vars PROVE CauseInv'
  OBVIOUS
<1> USE DEF CauseInv
<1>1. ASSUME NEW i \in Id, NEW row, Change(i, row) PROVE CauseInv'
  BY <1>1, CauseStays DEF Change, Identifying, ScorersInv
<1>2. ASSUME NEW s \in Scorer, InstallScorer(s) PROVE CauseInv'
  BY <1>2, CauseStays DEF InstallScorer, Identifying
<1>3. ASSUME NEW l \in Label, NextLabel(l) PROVE CauseInv'
  BY <1>3 DEF NextLabel, SeenInv, AtHandInv, ScoredInv, ScorersInv, NamedWithCause,
              Nothing, NoMatch
<1>4. ASSUME NEW a, pc \notin {"next", "done"}, pc' = "answered", answer' = a,
             UNCHANGED <<scorer, required, label, cands, left, first, scored,
                         seen, scorers>>,
             a.id # NoId =>
               \E c \in seen, s, t \in scorers :
                 /\ required \/ s = t
                 /\ c.id = a.id /\ c.name = a.name
                 /\ ScoredUnder(c, s, TopN(t)).score = a.similarity
                 /\ ScoredUnder(c, s, TopN(t)).score >= ScoredUnder(c, s, TopN(t)).needed
      PROVE  CauseInv'
  <2>1. \A c, s, n : ScoredUnder(c, s, n)' = ScoredUnder(c, s, n)
    BY <1>4 DEF ScoredUnder, Rescored
  <2>2. SeenInv' /\ AtHandInv' /\ ScorersInv'
    BY <1>4 DEF SeenInv, AtHandInv, ScorersInv
  <2>3. ScoredInv'
    BY <1>4, <2>1 DEF ScoredInv
  <2>4. NamedWithCause'
    BY <1>4, <2>1 DEF NamedWithCause
  <2> QED BY <2>2, <2>3, <2>4
<1>5. CASE SilentQuery \/ FetchNothing
  BY <1>4, <1>5 DEF SilentQuery, FetchNothing, Answer, NoMatch
<1>6. CASE DecideRaw
  <2>1. /\ first \in seen /\ first \in Cand /\ label \in Label /\ scorer \in scorers
        /\ scorer \in Scorer \cup {NoScorer} /\ ~IsActive(scorer)
        /\ Answer("score_first",
                  Verdict(first, first.raw,
                          EffectiveThreshold(Base, first.count, first.spread)))
    BY <1>6 DEF DecideRaw, AtHandInv, SeenInv, ScorersInv, TypeInv, Answer
  <2>2. /\ ScoredUnder(first, scorer, TopN(scorer)).score = first.raw
        /\ ScoredUnder(first, scorer, TopN(scorer)).needed
              = EffectiveThreshold(Base, first.count, first.spread)
    BY <2>1, ScoredUnderIs, TopNIs
  <2> QED BY <1>4, <1>6, <2>1, <2>2 DEF Verdict, Match, NoMatch, Answer
<1>7. CASE DecideAsnorm
  <2>1. CASE scored = {}
    BY <1>4, <1>7, <2>1 DEF DecideAsnorm, Answer, Nothing, NoMatch
  <2>2. CASE scored # {}
    <3>1. PICK b \in Tops(scored) : Answer("score_each", DecideOn(b, scored, TRUE))
      BY <1>7, <2>2 DEF DecideAsnorm
    <3>2. b \in scored
      BY DEF Tops
    <3>3. DecideOn(b, scored, TRUE).id # NoId =>
            /\ DecideOn(b, scored, TRUE).id = b.cand.id
            /\ DecideOn(b, scored, TRUE).name = b.cand.name
            /\ DecideOn(b, scored, TRUE).similarity = b.score
            /\ b.score >= b.needed
      BY DEF DecideOn, Match, NoMatch
    <3>4. PICK s \in scorers : /\ b.score = ScoredUnder(b.cand, s, TopN(s)).score
                              /\ b.needed = ScoredUnder(b.cand, s, TopN(s)).needed
      BY <3>2 DEF ScoredInv
    <3>5. b.cand \in seen
      BY <3>2 DEF ScoredInv
    <3> DEFINE d == DecideOn(b, scored, TRUE)
    <3> HIDE DEF d
    <3>6. d.id # NoId =>
            /\ b.cand.id = d.id /\ b.cand.name = d.name
            /\ ScoredUnder(b.cand, s, TopN(s)).score = d.similarity
            /\ ScoredUnder(b.cand, s, TopN(s)).score >= ScoredUnder(b.cand, s, TopN(s)).needed
      BY <3>3, <3>4 DEF d
    <3>7. Answer("score_each", d)
      BY <3>1 DEF d
    <3> QED BY <1>4, <3>5, <3>6, <3>7 DEF Answer
  <2> QED BY <2>1, <2>2
<1>8. CASE CandidateLimit \/ ScoreFirst \/ Count
  BY <1>8, CauseStays DEF CandidateLimit, ScoreFirst, Count, Step, ScorersInv
<1>9. CASE CohortReallyMissing
  BY <1>9, CauseStays DEF CohortReallyMissing, Step, ScorersInv
<1>10. ASSUME NEW s \in SUBSET Enrolled, NEW here, NEW next,
              seen' = seen \cup Fetched(s), cands' = Fetched(s), scored' = scored,
              left' \subseteq seen', next = "score_first" => first' \in seen',
              answer' = answer, Step(here, next), here \in {"fetch", "refetch"},
              next \notin Asked \ {"cohort"}, next = "cohort" => required
       PROVE  CauseInv'
  <2>1. label \in Label
    BY <1>10 DEF TypeInv, Step
  <2>2. \A c \in Fetched(s) : c \in Cand /\ c.raw = Raw[label][c.avg]
    <3>1. \A i \in s : Candidate(i, label, NoScorer).avg = book[i].avg
      BY DEF Candidate
    <3> QED BY <2>1, <3>1, CandidateType DEF Fetched
  <2>3. SeenInv' /\ AtHandInv' /\ ScorersInv'
    BY <1>10, <2>1, <2>2 DEF Step, SeenInv, AtHandInv, ScorersInv
  <2>4. \A c, t, n : ScoredUnder(c, t, n)' = ScoredUnder(c, t, n)
    BY <1>10 DEF Step, ScoredUnder, Rescored
  <2>5. ScoredInv'
    BY <1>10, <2>4 DEF Step, ScoredInv
  <2>6. NamedWithCause'
    BY <1>10, <2>4 DEF Step, NamedWithCause
  <2> QED BY <2>3, <2>5, <2>6
<1>11. CASE Fetch
  <2>1. PICK s \in SUBSET Enrolled :
          cands' = Fetched(s) /\ seen' = seen \cup Fetched(s)
    BY <1>11 DEF Fetch, Nearest
  <2>2. /\ scored' = scored /\ left' = left /\ answer' = answer /\ first' \in cands'
        /\ \E next \in {"cohort", "score_first"} :
             Step("fetch", next) /\ (next = "cohort" => required)
    BY <1>11 DEF Fetch
  <2>3. left' \subseteq seen' /\ first' \in seen'
    BY <2>1, <2>2 DEF AtHandInv
  <2> QED BY <1>10, <2>1, <2>2, <2>3
<1>12. CASE Refetch
  <2>1. PICK s \in SUBSET Enrolled :
          /\ cands' = Fetched(s) /\ left' = Fetched(s)
          /\ seen' = seen \cup Fetched(s)
    BY <1>12 DEF Refetch, Nearest
  <2>2. scored' = scored /\ answer' = answer /\ Step("refetch", "score_each")
    BY <1>12 DEF Refetch
  <2> QED BY <1>10, <2>1, <2>2
<1>13. ASSUME NEW c \in left, ScoreEach(c) PROVE CauseInv'
  <2>1. /\ c \in seen /\ c \in Cand /\ label \in Label /\ scorer \in scorers
        /\ scorer \in Scorer \cup {NoScorer}
    BY <1>13 DEF ScoreEach, Step, AtHandInv, SeenInv, ScorersInv, TypeInv
  <2>2. \A d, s, n : ScoredUnder(d, s, n)' = ScoredUnder(d, s, n)
    BY <1>13 DEF ScoreEach, Step, ScoredUnder, Rescored
  <2>3. SeenInv' /\ AtHandInv' /\ ScorersInv'
    BY <1>13 DEF ScoreEach, Step, SeenInv, AtHandInv, ScorersInv
  <2>4. NamedWithCause'
    BY <1>13, <2>2 DEF ScoreEach, Step, NamedWithCause
  <2>5. ASSUME NEW x \in scored' \ scored
        PROVE  /\ x.cand = c
               /\ x.score = ScoredUnder(c, scorer, TopN(scorer)).score
               /\ x.needed = ScoredUnder(c, scorer, TopN(scorer)).needed
    <3>1. /\ IsActive(scorer)
          /\ x = [cand |-> c, score |-> NormOf(scorer)[label][c.avg],
                  needed |-> EffectiveAsnormThreshold(AsnormBase, c.count, c.spread)]
      BY <1>13 DEF ScoreEach
    <3>2. scorer # NoScorer
      BY <3>1, InactiveWithoutScorer
    <3> QED BY <2>1, <3>1, <3>2, ScoredUnderIs, RescoredIs, TopNIs DEF NormOf
  <2>6. seen' = seen /\ scorers' = scorers
    BY <1>13 DEF ScoreEach, Step
  <2>7. ScoredInv'
    BY <2>1, <2>2, <2>5, <2>6 DEF ScoredInv
  <2> QED BY <2>3, <2>4, <2>7
<1>14. CASE PutInMap \/ Done \/ CohortAppeared \/ KernelFails
  BY <1>14, CauseStays DEF PutInMap, Done, CohortAppeared, KernelFails, ScorersInv
<1>15. CASE TakeCohort \/ TakeTopN
  <2>1. \A c, s, n : ScoredUnder(c, s, n)' = ScoredUnder(c, s, n)
    BY <1>15 DEF TakeCohort, TakeTopN, Step, ScoredUnder, Rescored
  <2>2. SeenInv' /\ AtHandInv' /\ ScorersInv'
    BY <1>15 DEF TakeCohort, TakeTopN, Step, SeenInv, AtHandInv, ScorersInv
  <2>3. ScoredInv' /\ NamedWithCause'
    BY <1>15, <2>1 DEF TakeCohort, TakeTopN, Step, ScoredInv, NamedWithCause
  <2> QED BY <2>2, <2>3
<1>16. ASSUME NEW d \in Replies, NEW response, pc = "kernel",
              KernelReplies(d, response), UNCHANGED <<world, label, todo, map>>
       PROVE  CauseInv'
  <2>1. CASE d = KernelError \/ ~Passes(VoiceprintScore, response)
    BY <1>16, <2>1, CauseStays DEF KernelReplies, ScorersInv
  <2>2. CASE ~(d = KernelError \/ ~Passes(VoiceprintScore, response))
    <3>1. Told(d, response) = d
      BY <2>2, ContractOfSimilarity DEF Told
    <3>2. cohort \in scorers /\ required /\ \E t \in scorers : topN = TopN(t)
      BY <1>16 DEF ScorersInv
    <3> QED BY <1>4, <1>16, <2>2, <3>1, <3>2, KernelHasCause DEF KernelReplies
  <2> QED BY <2>1, <2>2
<1>17. CASE CallKernel
  <2>1. PICK d \in Replies : \E response : KernelReplies(d, response)
    BY <1>17 DEF CallKernel
  <2> QED BY <1>16, <1>17, <2>1 DEF CallKernel, KernelReplies
<1>18. CASE UNCHANGED vars
  BY <1>18, CauseStays DEF vars, ScorersInv
<1> QED
  BY <1>1, <1>2, <1>3, <1>5, <1>6, <1>7, <1>8, <1>9, <1>11, <1>12, <1>13, <1>14,
     <1>15, <1>17, <1>18
  DEF Next, World, Enroll, Update, Rename, Delete, Match_, Python, Kernel

LEMMA InitHasCause == Init => CauseInv
BY DEF Init, CauseInv, SeenInv, AtHandInv, ScoredInv, ScorersInv, NamedWithCause,
       Nothing, NoMatch

THEOREM CauseHolds == Spec => []CauseInv
BY TypesHold, InitHasCause, StepHasCause, PTL DEF Spec

(* A label is named only with cause, however the book and the scorer       *)
(* change while it is identified and whatever the kernel answers.          *)
THEOREM NamesHaveCause == Spec => []NamedWithCause
<1>1. CauseInv => NamedWithCause
  BY DEF CauseInv
<1> QED BY CauseHolds, <1>1, PTL

-----------------------------------------------------------------------------
(* Rivals are compared.                                                    *)

(* No scorer was installed and no speaker enrolled since the label began,  *)
(* and AS-norm is on.                                                      *)
Steady == scorers = {scorer} /\ IsActive(scorer) /\ ~grew

Of(c, j) == c.id = j /\ c.avg = book[j].avg

(* All who are enrolled are asked for when the scorer is active, so every  *)
(* speaker who stays is a candidate, and then scored.                      *)
EnoughInv ==
  /\ limit \in Nat
  /\ Steady /\ pc \in {"fetch", "refetch"} => Cardinality(Enrolled) <= limit

RivalInv ==
  /\ stayed \subseteq Enrolled
  /\ Steady /\ pc \in Asked =>
       \A j \in stayed : \E c \in cands : Of(c, j)
  /\ Steady /\ pc = "score_each" =>
       \A j \in stayed :
         \/ \E c \in left : Of(c, j)
         \/ \E x \in scored : /\ x.cand.id = j
                              /\ x.score = NormOf(scorer)[label][book[j].avg]

ComparedInv == IsFiniteSet(cands) /\ EnoughInv /\ RivalInv /\ RivalsAreCompared

LEMMA EnrolledIsFinite ==
  /\ IsFiniteSet(Enrolled) /\ Cardinality(Enrolled) \in Nat
  /\ \A s \in SUBSET Enrolled : IsFiniteSet(s)
BY IdAssumption, FS_Subset, FS_CardinalityType DEF Enrolled

LEMMA NearestIsAll ==
  ASSUME limit \in Nat, Cardinality(Enrolled) <= limit, NEW s \in Nearest(limit)
  PROVE  s = Enrolled
<1>1. s \in SUBSET Enrolled
      /\ Cardinality(s) = AtMost(AtLeast(1, limit), Cardinality(Enrolled))
  BY DEF Nearest
<1>2. Cardinality(s) = Cardinality(Enrolled)
  BY <1>1, EnrolledIsFinite DEF AtMost, AtLeast
<1> QED BY <1>1, <1>2, EnrolledIsFinite, FS_Subset

LEMMA FetchedIsFinite ==
  ASSUME NEW s \in SUBSET Enrolled
  PROVE  IsFiniteSet(Fetched(s))
<1> DEFINE f == [i \in s |-> Candidate(i, label, NoScorer)]
<1>1. f \in Surjection(s, Fetched(s))
  BY DEF Surjection, Fetched
<1> HIDE DEF f
<1> QED BY <1>1, EnrolledIsFinite, FS_Surjection

(* Who is named by AS-norm is clear of all others that were scored.        *)
LEMMA Clear ==
  ASSUME NEW S, NEW b \in S, DecideOn(b, S, TRUE).id # NoId
  PROVE  /\ DecideOn(b, S, TRUE).id = b.cand.id
         /\ DecideOn(b, S, TRUE).similarity = b.score
         /\ \A x \in S \ {b} : b.score - x.score >= MinMargin
<1>1. \A reason, sim : NoMatch(reason, sim).id = NoId
  BY DEF NoMatch
<1>2. Match(b.cand, b.score).id = b.cand.id /\ Match(b.cand, b.score).similarity = b.score
  BY DEF Match
<1>3. /\ AsnormMarginPasses(b.score, Rivals(b, S))
      /\ DecideOn(b, S, TRUE) = Match(b.cand, b.score)
  BY <1>1 DEF DecideOn
<1>4. \A x \in S \ {b} : x.score \in Rivals(b, S)
  BY DEF Rivals
<1> QED BY <1>2, <1>3, <1>4 DEF AsnormMarginPasses

LEMMA ChangeCompared ==
  ASSUME TypeInv, ComparedInv, NEW i \in Id, NEW row, Change(i, row)
  PROVE  ComparedInv'
<1>1. /\ pc' = pc /\ limit' = limit /\ cands' = cands /\ left' = left
      /\ scored' = scored /\ label' = label /\ scorer' = scorer
      /\ scorers' = scorers /\ stayed' = stayed \ {i}
      /\ grew' = (grew \/ i \notin Enrolled)
      /\ book' = [book EXCEPT ![i] = row] /\ Identifying
  BY DEF Change
<1>2. \A j \in Id \ {i} : book'[j] = book[j]
  BY <1>1 DEF TypeInv
<1>3. Steady' => Steady /\ i \in Enrolled
  BY <1>1 DEF Steady
<1>4. stayed' \subseteq Id \ {i} /\ stayed' \subseteq stayed
  BY <1>1 DEF ComparedInv, RivalInv, Enrolled
<1>5. stayed' \subseteq Enrolled'
  BY <1>2, <1>4 DEF ComparedInv, RivalInv, Enrolled
<1>6. ASSUME Steady' PROVE Cardinality(Enrolled') <= Cardinality(Enrolled)
                           /\ Cardinality(Enrolled') \in Nat
  <2>1. Enrolled' \subseteq Enrolled
    BY <1>2, <1>3, <1>6 DEF Enrolled
  <2> QED BY <2>1, EnrolledIsFinite, FS_Subset, FS_CardinalityType
<1>7. EnoughInv'
  BY <1>1, <1>3, <1>6, EnrolledIsFinite DEF ComparedInv, EnoughInv
<1>8. \A c : \A j \in stayed' : Of(c, j)' <=> Of(c, j)
  BY <1>2, <1>4 DEF Of
<1>9. \A j \in stayed' : book'[j] = book[j] /\ j \in stayed
  BY <1>2, <1>4
<1>10. RivalInv'
  BY <1>1, <1>3, <1>5, <1>8, <1>9 DEF ComparedInv, RivalInv
<1>11. RivalsAreCompared'
  BY <1>1 DEF RivalsAreCompared, Identifying
<1> QED BY <1>1, <1>7, <1>10, <1>11 DEF ComparedInv

(* A step of the job that leaves the world and its history alone.          *)
LEMMA JobSteady ==
  ASSUME UNCHANGED <<book, scorer, scorers, stayed, grew>>
  PROVE  /\ Steady' <=> Steady
         /\ Enrolled' = Enrolled
         /\ \A c, j : Of(c, j)' <=> Of(c, j)
BY DEF Steady, Enrolled, Of, IsActive, ScorerCohort

LEMMA JobCompared ==
  ASSUME TypeInv, ComparedInv, CauseInv,
         SilentQuery \/ CandidateLimit \/ Fetch \/ FetchNothing
           \/ Python \/ Kernel \/ PutInMap \/ Done
  PROVE  ComparedInv'
<1> USE DEF ComparedInv
<1>1. UNCHANGED <<book, scorer, scorers, stayed, grew, label>>
  BY DEF SilentQuery, CandidateLimit, Fetch, FetchNothing, Python, DecideRaw, ScoreFirst,
         Count, Refetch, DecideAsnorm, ScoreEach, Kernel, TakeCohort, CohortReallyMissing,
         CohortAppeared, TakeTopN, CallKernel, KernelReplies, KernelFails, PutInMap, Done,
         Step, Answer
<1>2. /\ Steady' <=> Steady
      /\ Enrolled' = Enrolled
      /\ \A c, j : Of(c, j)' <=> Of(c, j)
  BY <1>1, JobSteady
<1>3. Cardinality(Enrolled) \in Nat
  BY EnrolledIsFinite
<1>4. ASSUME NEW here, Answer(here, Nothing) \/ Answer(here, NoMatch("invalid_query", 0))
             \/ Answer(here, NoMatch("no_candidates", 0))
      PROVE  ComparedInv'
  BY <1>1, <1>2, <1>4 DEF Answer, Nothing, NoMatch, EnoughInv, RivalInv, RivalsAreCompared
<1>5. CASE SilentQuery \/ FetchNothing
  BY <1>4, <1>5 DEF SilentQuery, FetchNothing
<1>6. CASE CandidateLimit
  <2>1. Steady => limit' = AtLeast(1, Cardinality(Enrolled))
    BY <1>6 DEF CandidateLimit, Steady
  <2>2. limit' \in Nat /\ (Steady => Cardinality(Enrolled) <= limit')
    BY <1>3, <1>6, <2>1 DEF CandidateLimit, AtLeast
  <2>3. pc' = "fetch" /\ UNCHANGED <<cands, answer>>
    BY <1>6 DEF CandidateLimit, Step
  <2> QED BY <1>1, <1>2, <2>2, <2>3 DEF EnoughInv, RivalInv, RivalsAreCompared
<1>7. ASSUME NEW s \in Nearest(limit), cands' = Fetched(s), pc \in {"fetch", "refetch"},
             pc' \in {"cohort", "score_first", "score_each"},
             pc' = "score_each" => left' = Fetched(s), UNCHANGED <<limit, answer>>
      PROVE  ComparedInv'
  <2>1. IsFiniteSet(cands')
    BY <1>7, FetchedIsFinite DEF Nearest
  <2>2. ASSUME Steady, NEW j \in stayed PROVE \E c \in Fetched(s) : Of(c, j)
    <3>1. s = Enrolled
      BY <1>7, <2>2, NearestIsAll DEF EnoughInv
    <3>2. Candidate(j, label, NoScorer) \in Fetched(s)
      BY <2>2, <3>1 DEF RivalInv, Fetched
    <3> QED BY <3>2 DEF Of, Candidate
  <2>3. EnoughInv' /\ RivalsAreCompared'
    BY <1>2, <1>7 DEF EnoughInv, RivalsAreCompared
  <2>4. RivalInv'
    BY <1>1, <1>2, <1>7, <2>2 DEF RivalInv
  <2> QED BY <2>1, <2>3, <2>4
<1>8. CASE Fetch
  <2>1. PICK s \in Nearest(limit) : cands' = Fetched(s)
    BY <1>8 DEF Fetch
  <2> QED BY <1>7, <1>8, <2>1 DEF Fetch, Step
<1>9. CASE Refetch
  <2>1. PICK s \in Nearest(limit) : cands' = Fetched(s) /\ left' = Fetched(s)
    BY <1>9 DEF Refetch
  <2> QED BY <1>7, <1>9, <2>1 DEF Refetch, Step
<1>10. CASE ScoreFirst
  BY <1>1, <1>2, <1>10 DEF ScoreFirst, Step, EnoughInv, RivalInv, RivalsAreCompared
<1>11. CASE Count
  BY <1>1, <1>2, <1>3, <1>11 DEF Count, Step, EnoughInv, RivalInv, RivalsAreCompared
<1>12. CASE TakeCohort \/ CohortReallyMissing \/ CohortAppeared \/ TakeTopN \/ KernelFails
  BY <1>1, <1>2, <1>12 DEF TakeCohort, CohortReallyMissing, CohortAppeared, TakeTopN,
     KernelFails, Step, EnoughInv, RivalInv, RivalsAreCompared
<1>13. CASE PutInMap \/ Done
  BY <1>1, <1>2, <1>13 DEF PutInMap, Done, EnoughInv, RivalInv, RivalsAreCompared
<1>14. CASE DecideRaw
  <2>1. ~Steady /\ pc' = "answered" /\ UNCHANGED <<cands, limit>>
    BY <1>14 DEF DecideRaw, Steady, Answer
  <2>2. RivalsAreCompared'
    BY <1>2, <2>1 DEF RivalsAreCompared, Steady
  <2> QED BY <1>1, <1>2, <2>1, <2>2 DEF EnoughInv, RivalInv
<1>15. ASSUME NEW c \in left, ScoreEach(c) PROVE ComparedInv'
  <2>1. /\ pc = "score_each" /\ pc' = "score_each" /\ left' = left \ {c}
        /\ UNCHANGED <<limit, cands>> /\ scored \subseteq scored'
    BY <1>15 DEF ScoreEach, Step
  <2>2. ASSUME Steady, NEW j \in stayed, Of(c, j)
        PROVE  \E x \in scored' : /\ x.cand.id = j
                                  /\ x.score = NormOf(scorer)[label][book[j].avg]
    <3> DEFINE x == [cand |-> c, score |-> NormOf(scorer)[label][c.avg],
                     needed |-> EffectiveAsnormThreshold(AsnormBase, c.count, c.spread)]
    <3>1. x \in scored'
      BY <1>15, <2>2 DEF ScoreEach, Steady
    <3>2. x.cand.id = j /\ x.score = NormOf(scorer)[label][book[j].avg]
      BY <2>2 DEF Of
    <3> HIDE DEF x
    <3> QED BY <3>1, <3>2
  <2>3. Steady => \A j \in stayed :
          \/ \E d \in left' : Of(d, j)
          \/ \E x \in scored' : /\ x.cand.id = j
                                /\ x.score = NormOf(scorer)[label][book[j].avg]
    BY <2>1, <2>2 DEF RivalInv
  <2> QED BY <1>1, <1>2, <2>1, <2>3 DEF EnoughInv, RivalInv, RivalsAreCompared
<1>16. ASSUME NEW S, NEW b \in S, pc' = "answered",
              answer' = DecideOn(b, S, TRUE), UNCHANGED <<cands, limit>>,
              Steady => \A j \in stayed :
                \E x \in S : /\ x.cand.id = j
                             /\ x.score = NormOf(scorer)[label][book[j].avg]
       PROVE  ComparedInv'
  <2>1. ASSUME Steady, answer'.id # NoId, NEW j \in stayed \ {answer'.id}
        PROVE  answer'.similarity - Candidate(j, label, scorer).norm >= MinMargin
    <3> DEFINE a == DecideOn(b, S, TRUE)
    <3>0. a.id # NoId /\ answer' = a
      BY <1>16, <2>1
    <3>1. /\ answer'.id = b.cand.id /\ answer'.similarity = b.score
          /\ \A x \in S \ {b} : b.score - x.score >= MinMargin
      <4>1. /\ a.id = b.cand.id /\ a.similarity = b.score
            /\ \A x \in S \ {b} : b.score - x.score >= MinMargin
        BY <1>16, <3>0, Clear
      <4> HIDE DEF a
      <4> QED BY <3>0, <4>1
    <3>2. PICK x \in S : /\ x.cand.id = j
                         /\ x.score = NormOf(scorer)[label][book[j].avg]
      BY <1>16, <2>1
    <3>3. Candidate(j, label, scorer).norm = NormOf(scorer)[label][book[j].avg]
      BY <2>1, InactiveWithoutScorer DEF Candidate, Steady
    <3> QED BY <2>1, <3>1, <3>2, <3>3
  <2>2. \A j : Candidate(j, label, scorer)' = Candidate(j, label, scorer)
    BY <1>1 DEF Candidate
  <2>3. RivalsAreCompared'
    BY <1>1, <1>2, <2>1, <2>2 DEF RivalsAreCompared, Steady
  <2> QED BY <1>1, <1>2, <1>16, <2>3 DEF EnoughInv, RivalInv
<1>17. CASE DecideAsnorm
  <2>1. CASE scored = {}
    BY <1>4, <1>17, <2>1 DEF DecideAsnorm
  <2>2. CASE scored # {}
    <3>1. PICK b \in Tops(scored) : Answer("score_each", DecideOn(b, scored, TRUE))
      BY <1>17, <2>2 DEF DecideAsnorm
    <3>2. b \in scored
      BY DEF Tops
    <3>3. pc = "score_each" /\ left = {}
      BY <1>17 DEF DecideAsnorm
    <3>4. /\ pc' = "answered" /\ answer' = DecideOn(b, scored, TRUE)
          /\ UNCHANGED <<cands, limit>>
      BY <3>1 DEF Answer
    <3>5. Steady => \A j \in stayed :
            \E x \in scored : /\ x.cand.id = j
                              /\ x.score = NormOf(scorer)[label][book[j].avg]
      BY <3>3 DEF RivalInv
    <3> QED BY <1>16, <3>2, <3>4, <3>5
  <2> QED BY <2>1, <2>2
<1>18. ASSUME NEW d \in Replies, NEW response, pc = "kernel", KernelReplies(d, response)
       PROVE  ComparedInv'
  <2>1. UNCHANGED <<cands, left, scored, limit>>
        /\ (pc' # "answered" => answer' = answer) /\ pc' \in {"answered", "failed"}
    BY <1>18 DEF KernelReplies
  <2>2. CASE ~(pc' = "answered" /\ answer'.id # NoId /\ Steady)
    <3>1. RivalsAreCompared'
      BY <1>2, <2>2 DEF RivalsAreCompared, Steady
    <3> QED BY <1>1, <1>2, <2>1, <3>1 DEF EnoughInv, RivalInv
  <2>3. CASE pc' = "answered" /\ answer'.id # NoId /\ Steady
    <3> DEFINE K == {Rescored(c, cohort, topN) : c \in cands}
               S == {Scored(c, TRUE, Base, AsnormBase) : c \in K}
    <3>1. answer' = d /\ d # KernelError
      BY <1>18, <2>3, ContractOfSimilarity DEF KernelReplies, Told
    <3>2. cohort = scorer /\ topN = TopN(scorer) /\ IsActive(scorer) /\ label \in Label
      BY <1>18, <2>3 DEF CauseInv, ScorersInv, Steady, TypeInv
    <3>3. IsFiniteSet(K) /\ \A c \in K : CandidateOK(c)
      <4> DEFINE f == [c \in cands |-> Rescored(c, cohort, topN)]
      <4>1. f \in Surjection(cands, K)
        BY DEF Surjection
      <4>2. IsFiniteSet(K)
        <5> HIDE DEF f, K
        <5> QED BY <4>1, FS_Surjection
      <4>3. ASSUME NEW c \in cands PROVE CandidateOK(Rescored(c, cohort, topN))
        <5>1. c \in Cand
          BY DEF CauseInv, AtHandInv, SeenInv
        <5>2. Rescored(c, cohort, topN) \in Cand
          BY <3>2, <5>1, RescoredIs, TopNIs DEF TypeInv
        <5> HIDE DEF K
        <5> QED BY <5>2 DEF CandidateOK, Cand
      <4> QED BY <4>2, <4>3
    <3>4. d \in KernelDecisions(FALSE, K, ScorerCohort(scorer), Base, AsnormBase)
      BY <3>2 DEF Replies
    <3>5. ~KernelRefuses(K, ScorerCohort(scorer))
      <4> HIDE DEF K
      <4> QED BY <2>3, <3>1, <3>4 DEF KernelDecisions, NoMatch, KernelError
    <3>6. d \in OracleDecisions(FALSE, K, ScorerCohort(scorer), Base, AsnormBase)
      <4> HIDE DEF K
      <4> QED BY <3>3, <3>4, <3>5, KernelIsOracle, BaseAssumption
    <3>7. PICK b \in Tops(S) : d = DecideOn(b, S, TRUE)
      <4>1. Active(ScorerCohort(scorer)) = TRUE
        BY <3>2 DEF IsActive, Active
      <4>2. d.id # NoId
        BY <2>3, <3>1
      <4>3. \A reason, sim : NoMatch(reason, sim).id = NoId
        BY DEF NoMatch
      <4> HIDE DEF K
      <4>4. d \in {DecideOn(b, S, TRUE) : b \in Tops(S)}
        BY <3>6, <4>1, <4>2, <4>3 DEF OracleDecisions
      <4> QED BY <4>4
    <3>8. \A j \in stayed : \E x \in S : /\ x.cand.id = j
                                         /\ x.score = NormOf(scorer)[label][book[j].avg]
      <4> SUFFICES ASSUME NEW j \in stayed
                   PROVE  \E x \in S : /\ x.cand.id = j
                                       /\ x.score = NormOf(scorer)[label][book[j].avg]
        OBVIOUS
      <4>1. PICK c \in cands : Of(c, j)
        BY <1>18, <2>3 DEF RivalInv
      <4>2. c \in Cand
        BY DEF CauseInv, AtHandInv, SeenInv
      <4>3. /\ Rescored(c, scorer, topN).id = j
            /\ Rescored(c, scorer, topN).norm = NormOf(scorer)[label][book[j].avg]
        BY <3>2, <4>1, <4>2, RescoredIs, TopNIs, InactiveWithoutScorer DEF Of, TypeInv, NormOf
      <4> DEFINE x == Scored(Rescored(c, scorer, topN), TRUE, Base, AsnormBase)
      <4>4. x \in S
        BY <3>2
      <4>5. x.cand.id = j /\ x.score = NormOf(scorer)[label][book[j].avg]
        BY <4>3 DEF Scored
      <4> HIDE DEF x, S
      <4> QED BY <4>4, <4>5
    <3>9. b \in S
      BY DEF Tops
    <3> HIDE DEF S, K
    <3> QED BY <1>16, <2>1, <2>3, <3>1, <3>7, <3>8, <3>9
  <2> QED BY <2>2, <2>3
<1>19. CASE CallKernel
  <2>1. PICK d \in Replies : \E response : KernelReplies(d, response)
    BY <1>19 DEF CallKernel
  <2> QED BY <1>18, <1>19, <2>1 DEF CallKernel
<1> QED
  BY <1>5, <1>6, <1>8, <1>9, <1>10, <1>11, <1>12, <1>13, <1>14, <1>15, <1>17, <1>19
  DEF Python, Kernel

LEMMA StepCompared ==
  TypeInv /\ CauseInv /\ ComparedInv /\ [Next]_vars => ComparedInv'
<1> SUFFICES ASSUME TypeInv, CauseInv, ComparedInv, [Next]_vars PROVE ComparedInv'
  OBVIOUS
<1>1. ASSUME NEW i \in Id, NEW row, Change(i, row) PROVE ComparedInv'
  BY <1>1, ChangeCompared
<1>2. ASSUME NEW s \in Scorer, InstallScorer(s) PROVE ComparedInv'
  <2>1. scorer \in scorers /\ scorer \in scorers' /\ scorer' # scorer
    BY <1>2 DEF InstallScorer, Identifying, CauseInv, ScorersInv
  <2>2. ~Steady'
    BY <2>1 DEF Steady
  <2>3. Enrolled' = Enrolled
    BY <1>2 DEF InstallScorer, Enrolled
  <2>4. RivalsAreCompared'
    BY <2>2 DEF RivalsAreCompared, Steady
  <2> QED BY <1>2, <2>2, <2>3, <2>4 DEF InstallScorer, ComparedInv, EnoughInv, RivalInv
<1>3. ASSUME NEW l \in Label, NextLabel(l) PROVE ComparedInv'
  <2>1. Enrolled' = Enrolled
    BY <1>3 DEF NextLabel, Enrolled
  <2> QED BY <1>3, <2>1, FS_EmptySet
          DEF NextLabel, ComparedInv, EnoughInv, RivalInv, RivalsAreCompared
<1>4. CASE UNCHANGED vars
  <2>1. /\ Steady' <=> Steady
        /\ Enrolled' = Enrolled
        /\ \A c, j : Of(c, j)' <=> Of(c, j)
    BY <1>4, JobSteady DEF vars
  <2>2. \A j : Candidate(j, label, scorer)' = Candidate(j, label, scorer)
    BY <1>4 DEF vars, Candidate
  <2>3. RivalsAreCompared'
    BY <1>4, <2>1, <2>2 DEF vars, ComparedInv, RivalsAreCompared, Steady
  <2> QED BY <1>4, <2>1, <2>3 DEF vars, ComparedInv, EnoughInv, RivalInv
<1> QED
  BY <1>1, <1>2, <1>3, <1>4, JobCompared
  DEF Next, World, Enroll, Update, Rename, Delete, Match_

LEMMA InitCompared == Init => ComparedInv
BY FS_EmptySet DEF Init, ComparedInv, EnoughInv, RivalInv, RivalsAreCompared

THEOREM ComparedHolds == Spec => []ComparedInv
BY TypesHold, CauseHolds, InitCompared, StepCompared, PTL DEF Spec

(* A name given by AS-norm is clear of every speaker who stayed enrolled,  *)
(* whichever implementation gave it.                                       *)
THEOREM NamesAreClear == Spec => []RivalsAreCompared
<1>1. ComparedInv => RivalsAreCompared
  BY DEF ComparedInv
<1> QED BY ComparedHolds, <1>1, PTL

-----------------------------------------------------------------------------
(* Undisturbed, identify is the oracle.                                    *)

Whole == {Candidate(i, label, scorer) : i \in Enrolled}

Oracle == OracleDecisions(label \in SilentLabel, Whole, ScorerCohort(scorer), Base,
                          AsnormBase)

Same(a, d) == a.id = d.id /\ a.name = d.name /\ a.similarity = d.similarity

Cosine(i) == Raw[label][book[i].avg]

(* The speakers first fetched: the best ones, all if AS-norm is on.        *)
Leading(s) ==
  /\ s # {}
  /\ \A i \in s, j \in Enrolled \ s : Cosine(j) <= Cosine(i)
  /\ IsActive(scorer) => s = Enrolled

Entry(c) == [cand |-> c, score |-> NormOf(scorer)[label][c.avg],
             needed |-> EffectiveAsnormThreshold(AsnormBase, c.count, c.spread)]

ReadInv ==
  /\ scorers = {scorer} /\ ~grew
  /\ pc # "limit" => label \notin SilentLabel
  /\ pc \in {"score_first"} \cup Asked =>
       \E s \in SUBSET Enrolled : Leading(s) /\ cands = Fetched(s)
  /\ pc = "score_first" => first \in cands /\ \A d \in cands : d.raw <= first.raw
  /\ pc \in {"count", "refetch", "score_each"} => IsActive(scorer) /\ Enrolled # {}
  /\ pc = "score_each" =>
       /\ left \subseteq Fetched(Enrolled)
       /\ scored = {Entry(c) : c \in Fetched(Enrolled) \ left}
  /\ pc \in Asked \ {"cohort"} => cohort = scorer
  /\ pc = "kernel" => topN = TopN(scorer)

QuietInv ==
  /\ pc \in {"limit", "fetch", "score_first", "count", "refetch"} => scored = {}
  /\ Identifying /\ still => ReadInv
  /\ QuietIsOracle

(* A candidate of the book, and its score under the scorer.                *)
LEMMA CandidateIs ==
  ASSUME TypeInv, label \in Label, NEW i \in Enrolled
  PROVE  LET c == Candidate(i, label, NoScorer)
             w == Candidate(i, label, scorer)
         IN  /\ c.id = i /\ w.id = i /\ w.name = c.name
             /\ c.raw = Cosine(i) /\ w.raw = Cosine(i) /\ Cosine(i) \in Int
             /\ w.count = c.count /\ w.spread = c.spread /\ c.avg = book[i].avg
             /\ Rescored(c, scorer, TopN(scorer)) = w
             /\ scorer # NoScorer =>
                  w.norm = NormOf(scorer)[label][c.avg] /\ w.norm \in Int
<1>1. book[i] \in Row
  BY DEF Enrolled, TypeInv
<1>2. Cosine(i) \in Int /\ (scorer # NoScorer => NormOf(scorer)[label][book[i].avg] \in Int)
  BY <1>1, ScoreAssumption, TopNIs DEF Cosine, Row, TypeInv
<1>3. Rescored(Candidate(i, label, NoScorer), scorer, TopN(scorer))
        = Candidate(i, label, scorer)
  BY DEF Rescored, Candidate, NormOf
<1> QED BY <1>2, <1>3 DEF Candidate, Cosine

(* Without AS-norm the oracle may choose any speaker of the best cosine.   *)
LEMMA RawOracle ==
  ASSUME TypeInv, label \in Label, label \notin SilentLabel, ~IsActive(scorer),
         NEW i \in Enrolled, \A j \in Enrolled : Cosine(j) <= Cosine(i)
  PROVE  LET c == Candidate(i, label, scorer)
         IN  Verdict(c, c.raw, EffectiveThreshold(Base, c.count, c.spread)) \in Oracle
<1> DEFINE S(c) == Scored(c, FALSE, Base, AsnormBase)
           T    == {S(c) : c \in Whole}
           c    == Candidate(i, label, scorer)
<1>1. Active(ScorerCohort(scorer)) = FALSE /\ (label \in SilentLabel) = FALSE
  BY DEF IsActive, Active
<1>2. c \in Whole /\ Whole # {}
  BY DEF Whole
<1>3. \A d \in Whole : d.raw <= c.raw
  BY CandidateIs DEF Whole
<1>4. \A d : S(d).cand = d /\ S(d).score = d.raw
             /\ S(d).needed = EffectiveThreshold(Base, d.count, d.spread)
  BY DEF Scored
<1> HIDE DEF S, c
<1>5. S(c) \in Tops(T)
  BY <1>2, <1>3, <1>4 DEF Tops
<1> HIDE DEF T
<1>6. DecideOn(S(c), T, FALSE)
        = Verdict(c, c.raw, EffectiveThreshold(Base, c.count, c.spread))
  BY <1>4 DEF DecideOn, Verdict
<1>7. Oracle = {DecideOn(b, T, FALSE) : b \in Tops(T)}
  BY <1>1, <1>2 DEF Oracle, OracleDecisions, T, S
<1> QED BY <1>5, <1>6, <1>7 DEF c

(* With AS-norm the entries scored one by one are the oracle's.            *)
LEMMA AsnormOracle ==
  ASSUME TypeInv, label \in Label, label \notin SilentLabel, IsActive(scorer),
         NEW T, T = {Entry(c) : c \in Fetched(Enrolled)}, NEW b \in Tops(T)
  PROVE  \E d \in Oracle : Same(DecideOn(b, T, TRUE), d)
<1> DEFINE e(i) == Entry(Candidate(i, label, NoScorer))
           o(i) == Scored(Candidate(i, label, scorer), TRUE, Base, AsnormBase)
           O    == {o(i) : i \in Enrolled}
<1>1. Active(ScorerCohort(scorer)) = TRUE /\ (label \in SilentLabel) = FALSE
  BY DEF IsActive, Active
<1>2. T = {e(i) : i \in Enrolled}
  BY DEF Fetched
<1>3. O = {Scored(c, TRUE, Base, AsnormBase) : c \in Whole}
  BY DEF Whole
<1>4. scorer # NoScorer
  BY InactiveWithoutScorer
<1>5. ASSUME NEW i \in Enrolled
      PROVE  /\ e(i).cand.id = i /\ o(i).cand.id = i /\ e(i).cand.name = o(i).cand.name
             /\ e(i).score = o(i).score /\ e(i).needed = o(i).needed
  BY <1>4, CandidateIs DEF Entry, Scored
<1> HIDE DEF e, o
<1>6. PICK i \in Enrolled : b = e(i)
  BY <1>2 DEF Tops
<1>7. o(i) \in Tops(O)
  BY <1>2, <1>5, <1>6 DEF Tops
<1>8. \A j \in Enrolled : (e(j) = e(i) <=> j = i) /\ (o(j) = o(i) <=> j = i)
  BY <1>5
<1>9. /\ Rivals(b, T) = {e(j).score : j \in Enrolled \ {i}}
      /\ Rivals(o(i), O) = {o(j).score : j \in Enrolled \ {i}}
  BY <1>2, <1>6, <1>8 DEF Rivals
<1>10. Rivals(b, T) = Rivals(o(i), O)
  <2>1. \A x : (\E j \in Enrolled \ {i} : x = e(j).score)
                <=> (\E j \in Enrolled \ {i} : x = o(j).score)
    BY <1>5
  <2>2. \A x : x \in Rivals(b, T) <=> x \in Rivals(o(i), O)
    BY <1>9, <2>1
  <2>3. /\ Rivals(b, T) = {x.score : x \in T \ {b}}
        /\ Rivals(o(i), O) = {x.score : x \in O \ {o(i)}}
    BY DEF Rivals
  <2> HIDE DEF O
  <2> QED BY <2>2, <2>3
<1> HIDE DEF O
<1>11. Same(DecideOn(b, T, TRUE), DecideOn(o(i), O, TRUE))
  <2>1. b.score = o(i).score /\ b.needed = o(i).needed
        /\ b.cand.id = o(i).cand.id /\ b.cand.name = o(i).cand.name
    BY <1>5, <1>6
  <2>2. \A c, d, x : c.id = d.id /\ c.name = d.name => Same(Match(c, x), Match(d, x))
    BY DEF Same, Match
  <2>3. \A d : Same(d, d)
    BY DEF Same
  <2> QED BY <1>10, <2>1, <2>2, <2>3 DEF DecideOn
<1>12. DecideOn(o(i), O, TRUE) \in Oracle
  <2>1. Whole # {}
    BY <1>6 DEF Whole
  <2> QED BY <1>1, <1>3, <1>7, <2>1 DEF Oracle, OracleDecisions
<1> QED BY <1>11, <1>12

(* Nobody enrolled, or nothing to ask for: the oracle finds nobody either. *)
LEMMA NobodyOracle ==
  ASSUME Enrolled = {} \/ label \in SilentLabel
  PROVE  \E d \in Oracle :
           /\ Same(NoMatch("invalid_query", 0), d)
           /\ Same(NoMatch("no_candidates", 0), d)
<1>1. \A r, q : Same(NoMatch(r, 0), NoMatch(q, 0))
  BY DEF Same, NoMatch
<1>2. Enrolled = {} => Whole = {}
  BY DEF Whole
<1>3. Oracle = {NoMatch("no_candidates", 0)} \/ Oracle = {NoMatch("invalid_query", 0)}
  BY <1>2 DEF Oracle, OracleDecisions
<1> QED BY <1>1, <1>3

(* What the kernel answers from what was fetched the oracle may answer     *)
(* from the whole book.                                                    *)
LEMMA KernelOracle ==
  ASSUME TypeInv, label \in Label, label \notin SilentLabel,
         NEW s \in SUBSET Enrolled, Leading(s), cands = Fetched(s), cohort = scorer,
         topN = TopN(scorer), NEW d \in Replies, d # KernelError
  PROVE  d \in Oracle
<1> DEFINE K == {Candidate(i, label, scorer) : i \in s}
           C == ScorerCohort(scorer)
<1>1. {Rescored(c, cohort, topN) : c \in cands} = K
  <2>1. \A i \in s : Rescored(Candidate(i, label, NoScorer), scorer, topN)
                       = Candidate(i, label, scorer)
    BY CandidateIs
  <2> QED BY <2>1 DEF Fetched
<1>2. d \in KernelDecisions(FALSE, K, C, Base, AsnormBase)
  BY <1>1 DEF Replies
<1>3. IsFiniteSet(Whole) /\ \A c \in Whole : CandidateOK(c)
  BY WholeIsOK DEF Whole, TypeInv
<1>4. K \subseteq Whole /\ IsFiniteSet(K) /\ K # {}
  <2>1. K \subseteq Whole /\ K # {}
    BY DEF Whole, Leading
  <2> QED BY <1>3, <2>1, FS_Subset
<1> HIDE DEF K
<1>5. ~KernelRefuses(K, C)
  BY <1>2, <1>4 DEF KernelDecisions
<1>6. d \in OracleDecisions(FALSE, K, C, Base, AsnormBase)
  BY <1>2, <1>3, <1>4, <1>5, KernelIsOracle, BaseAssumption
<1>7. CASE IsActive(scorer)
  <2>1. K = Whole
    BY <1>7 DEF Leading, K, Whole
  <2>2. (label \in SilentLabel) = FALSE
    OBVIOUS
  <2> QED BY <1>6, <2>1, <2>2 DEF Oracle
<1>8. CASE ~IsActive(scorer)
  <2> DEFINE S(c) == Scored(c, FALSE, Base, AsnormBase)
             T    == {S(c) : c \in K}
  <2>1. Active(C) = FALSE
    BY <1>8 DEF IsActive, Active
  <2>2. PICK b \in Tops(T) : d = DecideOn(b, T, FALSE)
    BY <1>4, <1>6, <2>1 DEF OracleDecisions
  <2>3. PICK i \in s : b = S(Candidate(i, label, scorer))
    BY DEF Tops, K
  <2>4. \A c : S(c).cand = c /\ S(c).score = c.raw
               /\ S(c).needed = EffectiveThreshold(Base, c.count, c.spread)
    BY DEF Scored
  <2>5. \A j \in s : Candidate(j, label, scorer).raw <= Candidate(i, label, scorer).raw
    <3> HIDE DEF S
    <3> QED BY <2>3, <2>4 DEF Tops, K
  <2>6. \A j \in Enrolled : Cosine(j) <= Cosine(i)
    BY <2>5, CandidateIs DEF Leading
  <2> DEFINE c == Candidate(i, label, scorer)
  <2>7. d = Verdict(c, c.raw, EffectiveThreshold(Base, c.count, c.spread))
    <3> HIDE DEF S, T, c
    <3> QED BY <2>2, <2>3, <2>4 DEF DecideOn, Verdict, c
  <2> QED BY <1>8, <2>6, <2>7, RawOracle
<1> QED BY <1>7, <1>8

LEMMA JobQuiet ==
  ASSUME TypeInv, CauseInv, ComparedInv, QuietInv,
         SilentQuery \/ CandidateLimit \/ Fetch \/ FetchNothing
           \/ Python \/ Kernel \/ PutInMap \/ Done
  PROVE  QuietInv'
<1> USE DEF QuietInv
<1>1. \/ UNCHANGED <<book, scorer, scorers, stayed, grew, still, label>> /\ Identifying
      \/ PutInMap \/ Done
  BY DEF SilentQuery, CandidateLimit, Fetch, FetchNothing, Python, DecideRaw, ScoreFirst,
         Count, Refetch, DecideAsnorm, ScoreEach, Kernel, TakeCohort, CohortReallyMissing,
         CohortAppeared, TakeTopN, CallKernel, KernelReplies, KernelFails, Step, Answer,
         Identifying
<1>2. CASE PutInMap \/ Done
  BY <1>2 DEF PutInMap, Done, QuietIsOracle, Identifying
<1>3. ASSUME ~(PutInMap \/ Done)
      PROVE  /\ UNCHANGED <<book, scorer, scorers, stayed, grew, still, label>>
             /\ Identifying /\ label \in Label
             /\ Enrolled' = Enrolled /\ Oracle' = Oracle
             /\ \A s : Fetched(s)' = Fetched(s) /\ (Leading(s)' <=> Leading(s))
             /\ \A c : Entry(c)' = Entry(c)
             /\ IsActive(scorer)' <=> IsActive(scorer)
  <2>1. UNCHANGED <<book, scorer, scorers, stayed, grew, still, label>>
        /\ Identifying /\ label \in Label
    BY <1>1, <1>3 DEF TypeInv, Identifying
  <2>2. Enrolled' = Enrolled
    BY <2>1 DEF Enrolled
  <2>3. \A i, s : Candidate(i, label, s)' = Candidate(i, label, s)
    BY <2>1 DEF Candidate
  <2>4. Oracle' = Oracle
    BY <2>1, <2>2, <2>3 DEF Oracle, Whole
  <2>5. \A s : Fetched(s)' = Fetched(s) /\ (Leading(s)' <=> Leading(s))
    BY <2>1, <2>2, <2>3 DEF Fetched, Leading, Cosine, IsActive, ScorerCohort
  <2> QED BY <2>1, <2>2, <2>4, <2>5 DEF Entry, IsActive, ScorerCohort
<1>4. ASSUME ~(PutInMap \/ Done), pc' = "answered",
             still => \E d \in Oracle : Same(answer', d)
      PROVE  QuietInv'
  <2>1. QuietIsOracle'
    BY <1>3, <1>4 DEF QuietIsOracle, Oracle, Whole, Same
  <2> QED BY <1>4, <2>1 DEF Identifying
<1>5. ASSUME ~(PutInMap \/ Done), pc' \in PC \ {"answered"},
             pc' \in {"limit", "fetch", "score_first", "count", "refetch"} => scored' = {},
             still /\ pc' \notin {"next", "done", "failed"} => ReadInv'
      PROVE  QuietInv'
  BY <1>3, <1>5 DEF Identifying, QuietIsOracle
<1>6. CASE SilentQuery \/ FetchNothing
  <2>1. /\ pc \in {"limit", "fetch"} /\ pc' = "answered"
        /\ answer' \in {NoMatch("invalid_query", 0), NoMatch("no_candidates", 0)}
        /\ Enrolled = {} \/ label \in SilentLabel
    BY <1>6 DEF SilentQuery, FetchNothing, Answer
  <2> QED BY <1>4, <2>1, NobodyOracle DEF PutInMap, Done
<1>7. CASE CandidateLimit
  <2>1. pc = "limit" /\ pc' = "fetch" /\ scored' = scored /\ label \notin SilentLabel
    BY <1>7 DEF CandidateLimit, Step
  <2> QED BY <1>3, <1>5, <2>1 DEF PutInMap, Done, ReadInv
<1>8. ASSUME NEW s \in Nearest(limit), pc \in {"fetch", "refetch"}, still, IsActive(scorer)
      PROVE  s = Enrolled
  <2>1. Steady
    BY <1>8 DEF Identifying, ReadInv, Steady
  <2> QED BY <1>8, <2>1, NearestIsAll DEF ComparedInv, EnoughInv
<1>9. CASE Fetch
  <2>1. PICK s \in Nearest(limit) : cands' = Fetched(s)
    BY <1>9 DEF Fetch
  <2>2. /\ pc = "fetch" /\ pc' \in {"cohort", "score_first"} /\ scored' = scored
        /\ first' \in cands' /\ \A d \in cands' : d.raw <= first'.raw
    BY <1>9 DEF Fetch, Step
  <2>3. s \in SUBSET Enrolled /\ (still => Leading(s))
    <3>1. s \in SUBSET Enrolled /\ s # {}
          /\ \A i \in s, j \in Enrolled \ s : Cosine(j) <= Cosine(i)
      BY <2>1, <2>2 DEF Nearest, Fetched, Cosine
    <3> QED BY <1>8, <2>2, <3>1 DEF Leading
  <2> QED BY <1>3, <1>5, <2>1, <2>2, <2>3 DEF PutInMap, Done, ReadInv
<1>10. CASE DecideRaw
  <2> DEFINE v(c) == Verdict(c, c.raw, EffectiveThreshold(Base, c.count, c.spread))
  <2>1. pc = "score_first" /\ pc' = "answered" /\ answer' = v(first) /\ ~IsActive(scorer)
    BY <1>10 DEF DecideRaw, Answer
  <2>2. label \in Label /\ ~(PutInMap \/ Done)
    BY <2>1 DEF TypeInv, PutInMap, Done
  <2>3. ASSUME still PROVE \E d \in Oracle : Same(answer', d)
    <3>1. ReadInv
      BY <2>1, <2>3 DEF Identifying
    <3>2. PICK s \in SUBSET Enrolled : Leading(s) /\ cands = Fetched(s)
      BY <2>1, <3>1 DEF ReadInv
    <3>3. PICK i \in s : first = Candidate(i, label, NoScorer)
      BY <2>1, <3>1, <3>2 DEF ReadInv, Fetched
    <3>4. \A j \in s : Candidate(j, label, NoScorer).raw <= first.raw
      BY <2>1, <3>1, <3>2 DEF ReadInv, Fetched
    <3>5. \A j \in Enrolled : Cosine(j) <= Cosine(i)
      BY <2>2, <3>2, <3>3, <3>4, CandidateIs DEF Leading
    <3> DEFINE w == Candidate(i, label, scorer)
    <3>6. v(w) \in Oracle
      BY <2>1, <2>2, <3>1, <3>5, RawOracle DEF ReadInv
    <3>7. /\ first.id = w.id /\ first.name = w.name /\ first.raw = w.raw
          /\ first.count = w.count /\ first.spread = w.spread
      BY <2>2, <3>3, CandidateIs
    <3> HIDE DEF w
    <3>8. Same(v(first), v(w))
      BY <3>7 DEF Same, Verdict, Match, NoMatch
    <3> QED BY <2>1, <3>6, <3>8
  <2> QED BY <1>4, <2>1, <2>2, <2>3
<1>11. CASE ScoreFirst
  <2>1. pc = "score_first" /\ pc' = "count" /\ UNCHANGED working /\ IsActive(scorer)
    BY <1>11 DEF ScoreFirst, Step
  <2>2. still => ReadInv /\ Enrolled # {}
    BY <2>1 DEF Identifying, ReadInv, Leading
  <2> QED BY <1>3, <1>5, <2>1, <2>2 DEF PutInMap, Done, ReadInv
<1>12. CASE Count
  <2>1. pc = "count" /\ pc' = "refetch" /\ scored' = scored
    BY <1>12 DEF Count, Step
  <2> QED BY <1>3, <1>5, <2>1 DEF PutInMap, Done, ReadInv
<1>13. CASE Refetch
  <2>1. PICK s \in Nearest(limit) : left' = Fetched(s)
    BY <1>13 DEF Refetch
  <2>2. pc = "refetch" /\ pc' = "score_each" /\ scored' = {}
    BY <1>13 DEF Refetch, Step
  <2>3. still => IsActive(scorer) /\ s = Enrolled
    BY <1>8, <2>2 DEF Identifying, ReadInv
  <2>4. ASSUME still PROVE left' = Fetched(Enrolled)
                           /\ {Entry(c) : c \in Fetched(Enrolled) \ left'} = {}
    BY <2>1, <2>3, <2>4
  <2> QED BY <1>3, <1>5, <2>2, <2>4 DEF PutInMap, Done, Identifying, ReadInv
<1>14. ASSUME NEW c \in left, ScoreEach(c) PROVE QuietInv'
  <2>1. /\ pc = "score_each" /\ pc' = "score_each" /\ left' = left \ {c}
        /\ IsActive(scorer) => scored' = scored \cup {Entry(c)}
    BY <1>14 DEF ScoreEach, Step, Entry
  <2>2. ASSUME still PROVE /\ left' \subseteq Fetched(Enrolled)
                           /\ scored' = {Entry(d) : d \in Fetched(Enrolled) \ left'}
    <3>1. ReadInv
      BY <2>1, <2>2 DEF Identifying
    <3>2. /\ left \subseteq Fetched(Enrolled)
          /\ scored = {Entry(d) : d \in Fetched(Enrolled) \ left}
          /\ scored' = scored \cup {Entry(c)}
      BY <2>1, <3>1 DEF ReadInv
    <3>3. Fetched(Enrolled) \ left' = (Fetched(Enrolled) \ left) \cup {c}
      BY <2>1, <3>2
    <3> QED BY <2>1, <3>2, <3>3
  <2> QED BY <1>3, <1>5, <2>1, <2>2 DEF PutInMap, Done, Identifying, ReadInv
<1>15. CASE DecideAsnorm
  <2>1. pc = "score_each" /\ left = {} /\ label \in Label /\ ~(PutInMap \/ Done)
    BY <1>15 DEF DecideAsnorm, TypeInv, PutInMap, Done
  <2>2. pc' = "answered"
    BY <1>15 DEF DecideAsnorm, Answer
  <2>3. ASSUME still PROVE \E d \in Oracle : Same(answer', d)
    <3>1. /\ IsActive(scorer) /\ label \notin SilentLabel /\ Enrolled # {}
          /\ scored = {Entry(c) : c \in Fetched(Enrolled)}
      BY <2>1, <2>3 DEF Identifying, ReadInv
    <3>2. scored # {}
      BY <3>1 DEF Fetched
    <3>3. PICK b \in Tops(scored) : answer' = DecideOn(b, scored, TRUE)
      BY <1>15, <3>2 DEF DecideAsnorm, Answer
    <3> QED BY <2>1, <3>1, <3>3, AsnormOracle
  <2> QED BY <1>4, <2>1, <2>2, <2>3
<1>16. CASE TakeCohort
  <2>1. /\ pc = "cohort" /\ pc' \in {"cohort_missing", "top_n"} /\ cohort' = scorer
        /\ cands' = cands
    BY <1>16 DEF TakeCohort, Step
  <2> QED BY <1>3, <1>5, <2>1 DEF PutInMap, Done, ReadInv
<1>17. CASE CohortReallyMissing
  <2>1. pc = "cohort_missing" /\ pc' = "top_n" /\ UNCHANGED working
    BY <1>17 DEF CohortReallyMissing, Step
  <2> QED BY <1>3, <1>5, <2>1 DEF PutInMap, Done, ReadInv
<1>18. CASE CohortAppeared \/ KernelFails
  <2>1. pc \in {"cohort_missing", "kernel"} /\ pc' = "failed"
    BY <1>18 DEF CohortAppeared, KernelFails
  <2> QED BY <1>5, <2>1 DEF PutInMap, Done
<1>19. ASSUME NEW d \in Replies, NEW response, pc = "kernel", KernelReplies(d, response)
       PROVE  QuietInv'
  <2>1. ~(PutInMap \/ Done) /\ label \in Label
    BY <1>19 DEF PutInMap, Done, TypeInv
  <2>2. CASE d = KernelError \/ ~Passes(VoiceprintScore, response)
    BY <1>5, <1>19, <2>1, <2>2 DEF KernelReplies
  <2>3. CASE ~(d = KernelError \/ ~Passes(VoiceprintScore, response))
    <3>1. Told(d, response) = d
      BY <2>3, ContractOfSimilarity DEF Told
    <3>2. pc' = "answered" /\ answer' = d
      BY <1>19, <2>3, <3>1 DEF KernelReplies
    <3>3. ASSUME still PROVE d \in Oracle
      <4>1. /\ label \notin SilentLabel /\ cohort = scorer /\ topN = TopN(scorer)
            /\ \E s \in SUBSET Enrolled : Leading(s) /\ cands = Fetched(s)
        BY <1>19, <3>3 DEF Identifying, ReadInv
      <4> QED BY <2>1, <2>3, <4>1, KernelOracle
    <3>4. Same(d, d)
      BY DEF Same
    <3> QED BY <1>4, <2>1, <3>2, <3>3, <3>4
  <2> QED BY <2>2, <2>3
<1>20. CASE CallKernel
  <2>1. PICK d \in Replies : \E response : KernelReplies(d, response)
    BY <1>20 DEF CallKernel
  <2> QED BY <1>19, <1>20, <2>1 DEF CallKernel
<1>21. CASE TakeTopN
  <2>1. pc = "top_n" /\ pc' = "kernel" /\ topN' = TopN(scorer)
        /\ UNCHANGED <<cohort, cands>>
    BY <1>21 DEF TakeTopN, Step
  <2> QED BY <1>3, <1>5, <2>1 DEF PutInMap, Done, ReadInv
<1> QED
  BY <1>2, <1>6, <1>7, <1>9, <1>10, <1>11, <1>12, <1>13, <1>14, <1>15, <1>16, <1>17,
     <1>18, <1>20, <1>21
  DEF Python, Kernel

LEMMA StepQuiet ==
  TypeInv /\ CauseInv /\ ComparedInv /\ QuietInv /\ [Next]_vars => QuietInv'
<1> SUFFICES ASSUME TypeInv, CauseInv, ComparedInv, QuietInv, [Next]_vars
             PROVE  QuietInv'
  OBVIOUS
<1>1. ASSUME NEW i \in Id, NEW row, Change(i, row) PROVE QuietInv'
  BY <1>1 DEF Change, QuietInv, QuietIsOracle
<1>2. ASSUME NEW s \in Scorer, InstallScorer(s) PROVE QuietInv'
  BY <1>2 DEF InstallScorer, QuietInv, QuietIsOracle
<1>3. ASSUME NEW l \in Label, NextLabel(l) PROVE QuietInv'
  BY <1>3 DEF NextLabel, QuietInv, QuietIsOracle, ReadInv
<1>4. CASE UNCHANGED vars
  <2>1. Enrolled' = Enrolled /\ \A i, l, s : Candidate(i, l, s)' = Candidate(i, l, s)
    BY <1>4 DEF vars, Enrolled, Candidate
  <2>2. \A s : Fetched(s)' = Fetched(s) /\ (Leading(s)' <=> Leading(s))
    BY <1>4, <2>1 DEF vars, Fetched, Leading, Cosine, IsActive, ScorerCohort
  <2>3. QuietIsOracle'
    BY <1>4, <2>1 DEF vars, QuietInv, QuietIsOracle, ScorerCohort
  <2>4. ReadInv => ReadInv'
    BY <1>4, <2>1, <2>2 DEF vars, ReadInv, Entry, IsActive, ScorerCohort
  <2> QED BY <1>4, <2>3, <2>4 DEF vars, QuietInv, Identifying
<1> QED
  BY <1>1, <1>2, <1>3, <1>4, JobQuiet
  DEF Next, World, Enroll, Update, Rename, Delete, Match_

LEMMA InitQuiet == Init => QuietInv
BY DEF Init, QuietInv, Identifying, QuietIsOracle

THEOREM QuietHolds == Spec => []QuietInv
BY TypesHold, CauseHolds, ComparedHolds, InitQuiet, StepQuiet, PTL DEF Spec

(* While book and scorer stay as they are the answer is the oracle's for   *)
(* the whole book, in Python and through the kernel.                       *)
THEOREM FewAreEnough == Spec => []QuietIsOracle
<1>1. QuietInv => QuietIsOracle
  BY DEF QuietInv
<1> QED BY QuietHolds, <1>1, PTL
=============================================================================
