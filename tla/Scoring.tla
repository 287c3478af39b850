------------------------------- MODULE Scoring -------------------------------
(***************************************************************************)
(* How a query is decided against the enrolled speakers: the Python oracle *)
(* and the Rust kernel, each translated from its own source.               *)
(*                                                                         *)
(* Scores, thresholds and spreads are integers, in thousandths.  A         *)
(* candidate carries the scores its average gets, since vector arithmetic  *)
(* is not modelled: raw is its cosine with the query, norm its AS-norm     *)
(* score.  The order of candidates with equal scores is left open, so a    *)
(* decision is a member of a set of decisions.                             *)
(*                                                                         *)
(* A definition that carries a suffix and precedes the one it is named     *)
(* after is a seeded fault.                                                *)
(***************************************************************************)
EXTENDS Integers

CONSTANTS NoId, NoName, NoSpread

ASSUME SpreadAssumption == NoSpread \notin Nat

Floor         == 600
MinCohortSize == 10
MinMargin     == 50

AtLeast(bound, x) == IF x < bound THEN bound ELSE x
AtMost(bound, x)  == IF x > bound THEN bound ELSE x

(* Cohorts: none, or a size and whether some row is a zero vector.         *)
NoCohort       == [size |-> 0, zero |-> FALSE]
Active(cohort) == cohort.size >= MinCohortSize

-----------------------------------------------------------------------------
(* The Python rule.                                                        *)

EffectiveThreshold(base, count, spread) ==
  LET relaxed == IF count <= 1            THEN base - 50
                 ELSE IF spread = NoSpread THEN base
                 ELSE base - AtMost(100, 3 * spread)
  IN  AtLeast(Floor, AtMost(base, relaxed))

EffectiveAsnormThreshold(base, count, spread) ==
  IF count <= 1 THEN base + 100
  ELSE IF spread = NoSpread THEN base + 50
  ELSE LET few    == AtLeast(0, 3 - count) * 25
           noisy  == AtMost(100, AtLeast(0, spread) \div 2)
           stable == IF count >= 3 /\ spread <= 30 THEN 20 ELSE 0
       IN  AtLeast(0, base + few + noisy - stable)

AsnormMarginPasses(best, rivals) == \A s \in rivals : best - s >= MinMargin

NoMatch(reason, similarity) ==
  [id |-> NoId, name |-> NoName, reason |-> reason, similarity |-> similarity]

Match(c, similarity) ==
  [id |-> c.id, name |-> c.name, reason |-> "matched", similarity |-> similarity]

(* A candidate with its score and the threshold of the same scale.         *)
Scored(c, active, base, normBase) ==
  [cand   |-> c,
   score  |-> IF active THEN c.norm ELSE c.raw,
   needed |-> IF active
                THEN EffectiveAsnormThreshold(normBase, c.count, c.spread)
                ELSE EffectiveThreshold(base, c.count, c.spread)]

Tops(scored) == {b \in scored : \A s \in scored : s.score <= b.score}

Rivals(b, scored) == {s.score : s \in scored \ {b}}

DecideOn(b, scored, active) ==
  IF active /\ ~AsnormMarginPasses(b.score, Rivals(b, scored))
    THEN NoMatch("ambiguous_margin", b.score)
  ELSE IF b.score >= b.needed
    THEN Match(b.cand, b.score)
    ELSE NoMatch("below_threshold", b.score)

OracleDecisions(silentQuery, cands, cohort, base, normBase) ==
  IF cands = {}       THEN {NoMatch("no_candidates", 0)}
  ELSE IF silentQuery THEN {NoMatch("invalid_query", 0)}
  ELSE LET scored == {Scored(c, Active(cohort), base, normBase) : c \in cands}
       IN  {DecideOn(b, scored, Active(cohort)) : b \in Tops(scored)}

-----------------------------------------------------------------------------
(* The kernel's rule.                                                      *)

KernelThreshold(base, count, spread) ==
  LET dynamic == IF count <= 1 \/ spread = NoSpread
                   THEN IF count <= 1 THEN base - 50 ELSE base
                   ELSE base - AtMost(100, 3 * AtLeast(0, spread))
  IN  AtLeast(AtMost(base, dynamic), Floor)

KernelAsnormThresholdStableAtTwo(base, count, spread) ==
  IF count <= 1 THEN base + 100
  ELSE IF spread = NoSpread THEN base + 50
  ELSE LET sum == base + 25 * AtLeast(0, 3 - count)
                       + AtMost(100, AtLeast(0, spread) \div 2)
       IN  AtLeast(0, IF count >= 2 /\ spread <= 30 THEN sum - 20 ELSE sum)

KernelAsnormThreshold(base, count, spread) ==
  IF count <= 1 THEN base + 100
  ELSE IF spread = NoSpread THEN base + 50
  ELSE LET sum == base + 25 * AtLeast(0, 3 - count)
                       + AtMost(100, AtLeast(0, spread) \div 2)
       IN  AtLeast(0, IF count >= 3 /\ spread <= 30 THEN sum - 20 ELSE sum)

KernelError == [id |-> NoId, name |-> NoName, reason |-> "error", similarity |-> 0]

(* Unlike the oracle the kernel refuses zero vectors once AS-norm is on,   *)
(* in the cohort and among the candidates.                                 *)
KernelRefuses(cands, cohort) ==
  Active(cohort) /\ (cohort.zero \/ \E c \in cands : c.silent)

(* The sorted list, by its head and the score next to it.                  *)
KernelVerdict(cands, head, active, base, normBase) ==
  LET score(c) == IF active THEN c.norm ELSE c.raw
      needed   == IF active
                    THEN KernelAsnormThreshold(normBase, head.count, head.spread)
                    ELSE KernelThreshold(base, head.count, head.spread)
      second   == {c \in cands \ {head} :
                     \A d \in cands \ {head} : score(d) <= score(c)}
  IN  IF active /\ \E c \in second : score(head) - score(c) < MinMargin
        THEN NoMatch("ambiguous_margin", score(head))
      ELSE IF score(head) >= needed
        THEN Match(head, score(head))
        ELSE NoMatch("below_threshold", score(head))

KernelDecisions(silentQuery, cands, cohort, base, normBase) ==
  LET active   == Active(cohort)
      score(c) == IF active THEN c.norm ELSE c.raw
      heads    == {h \in cands : \A c \in cands : score(c) <= score(h)}
  IN  IF cands = {}                        THEN {NoMatch("no_candidates", 0)}
      ELSE IF silentQuery                  THEN {NoMatch("invalid_query", 0)}
      ELSE IF KernelRefuses(cands, cohort) THEN {KernelError}
      ELSE {KernelVerdict(cands, h, active, base, normBase) : h \in heads}
=============================================================================
