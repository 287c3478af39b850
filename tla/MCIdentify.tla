------------------------------ MODULE MCIdentify ------------------------------
(***************************************************************************)
(* Scores at both sides of the thresholds and of the margin, a cohort that *)
(* is one short of being used and a cohort of more rows than the others.   *)
(***************************************************************************)
EXTENDS Identify

CONSTANTS i1, i2, i3, ann, bob, cat, voice, hum,
          near, close, far, hush, first_cohort, other_cohort, small_cohort

MCRaw == [l \in Label |->
  [e \in Emb |-> CASE e = near  -> 720
                   [] e = close -> 640
                   [] e = far   -> 100
                   [] e = hush  -> 0]]

(* The first cohort reverses the order of the cosines, the other one puts  *)
(* the two best too close to each other.                                   *)
WholeNorm(s, e) ==
  CASE s = first_cohort ->
         (CASE e = near -> 520 [] e = close -> 560 [] e = far -> 640 [] e = hush -> 0)
    [] s = other_cohort ->
         (CASE e = near -> 620 [] e = close -> 600 [] e = far -> 300 [] e = hush -> 0)
    [] s = small_cohort -> 0

MCCohort == [s \in Scorer |->
  [size |-> CASE s = first_cohort -> 10 [] s = other_cohort -> 12
              [] s = small_cohort -> 9,
   zero |-> FALSE]]

(* Fewer rows than the cohort has give other scores, and set the two best  *)
(* of the other cohort apart.                                              *)
MCNorm == [s \in Scorer |-> [n \in 0..MaxTopN |-> [l \in Label |-> [e \in Emb |->
  WholeNorm(s, e) + (IF n >= MCCohort[s].size THEN 0
                     ELSE IF e = near THEN 45 ELSE 10)]]]]

Speaker(n, e, k, d) == [name |-> n, avg |-> e, count |-> k, spread |-> d]

(* A book of three, one with an imported and a silent speaker, one of one. *)
MCBooks ==
  { [i \in Id |-> CASE i = i1 -> Speaker(ann, near, 3, 20)
                    [] i = i2 -> Speaker(bob, close, 2, 40)
                    [] i = i3 -> Speaker(cat, far, 1, NoSpread)],
    [i \in Id |-> CASE i = i1 -> Speaker(ann, far, 3, NoSpread)
                    [] i = i2 -> Speaker(bob, hush, 1, NoSpread)
                    [] i = i3 -> NoRow],
    [i \in Id |-> IF i = i1 THEN Speaker(ann, near, 1, NoSpread) ELSE NoRow] }
=============================================================================
