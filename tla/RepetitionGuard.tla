---------------------------- MODULE RepetitionGuard ----------------------------
(***************************************************************************)
(* The guard on what Whisper heard: suppress_repetition_hallucinations     *)
(* removes segments, and runs of segments, that repeat a prompt or say     *)
(* little else than one short unit over and over.                          *)
(*                                                                         *)
(* A text is the sequence of its characters, in lower case.  Times are in  *)
(* milliseconds, ratios are compared in percent.                           *)
(*                                                                         *)
(* A definition that carries a suffix and precedes the one it is named     *)
(* after is a seeded fault; no behaviour uses it.                          *)
(***************************************************************************)
EXTENDS Integers, FiniteSets, SequencesExt

CONSTANTS Mark,           \* characters that are not alphanumeric
          PromptMarkers,  \* the sequence of prompt markers
          OutroMarkers    \* the set of outro markers

LongestUnit == 16

Duration(seg) == Max({0, seg.end - seg.start})
Plain(text)   == SelectSeq(text, LAMBDA c : c \notin Mark)

(* part makes up at least pc percent of whole.                             *)
AtLeast(part, whole, pc) == 100 * part >= pc * whole

OccursAt(marker, text, i) ==
  /\ i + Len(marker) - 1 <= Len(text)
  /\ SubSeq(text, i, i + Len(marker) - 1) = marker

Within(marker, text) == \E i \in DOMAIN text : OccursAt(marker, text, i)

(* str.count: occurrences from the left that do not overlap.               *)
CountOf(marker, text) ==
  FoldLeftDomain(LAMBDA acc, i :
                   IF i >= acc.free /\ OccursAt(marker, text, i)
                     THEN [n |-> acc.n + 1, free |-> i + Len(marker)]
                   ELSE acc,
                 [n |-> 0, free |-> 1], text).n

(* The largest count and the largest share of the text, of any marker; a   *)
(* share is given by the characters it is of.                              *)
PromptScore(text) ==
  LET count(k) == CountOf(PromptMarkers[k], text)
      chars(k) == count(k) * Len(PromptMarkers[k])
  IN  FoldLeftDomain(LAMBDA best, k : [count |-> Max({best.count, count(k)}),
                                       chars |-> Max({best.chars, chars(k)})],
                     [count |-> 0, chars |-> 0], PromptMarkers)

(* The marker a text is a repetition of, the first in their order, or the  *)
(* text itself.                                                            *)
Key(text) ==
  LET in == {k \in DOMAIN PromptMarkers : Within(PromptMarkers[k], text)}
  IN  IF in = {} THEN [prompt |-> 0, text |-> text]
      ELSE [prompt |-> CHOOSE k \in in : \A j \in in : k <= j, text |-> <<>>]

NoKey == [prompt |-> 0, text |-> <<>>]

OutroScore(text) ==
  LET said == {m \in OutroMarkers : Within(m, text)}
  IN  [count |-> Cardinality(said),
       chars |-> FoldSet(LAMBDA m, n : n + Len(m), 0, said)]

-----------------------------------------------------------------------------
(* The units of a text for one unit length, cut from its start; a rest     *)
(* shorter than the length counts for the whole only.                      *)
Repeats(text, len) ==
  LET chunk(i) == SubSeq(text, (i - 1) * len + 1, i * len)
      n        == Len(text) \div len
      times(i) == Cardinality({j \in 1..n : chunk(j) = chunk(i)})
  IN  Max({times(i) : i \in 1..n})

(* _dominant_repeated_unit: a length is taken when it beats the one taken  *)
(* last by count or by coverage, and brings both of its figures with it.   *)
DominantUnit(text) ==
  LET longest == Min({LongestUnit, Len(text) \div 2})
      found(len) == [count |-> Repeats(text, len),
                     chars |-> len * Repeats(text, len)]
  IN  IF Len(text) < 6 THEN [count |-> 0, chars |-> 0]
      ELSE FoldLeft(LAMBDA best, len :
                      IF \/ found(len).count > best.count
                         \/ found(len).chars > best.chars THEN found(len)
                      ELSE best,
                    [count |-> 0, chars |-> 0], [i \in 1..longest - 1 |-> i + 1])

(* _is_single_segment_hallucination.                                       *)
SingleHallucination(seg) ==
  LET text  == Plain(seg.text)
      time  == Duration(seg)
      share(score, pc) == AtLeast(score.chars, Len(text), pc)
  IN  /\ text # <<>>
      /\ \/ /\ time >= 3000 /\ PromptScore(text).count >= 2
            /\ share(PromptScore(text), 55)
         \/ /\ time \in 3000..60000 /\ OutroScore(text).count >= 3
            /\ share(OutroScore(text), 40)
         \/ /\ time >= 12000 /\ DominantUnit(text).count >= 4
            /\ share(DominantUnit(text), 82)

(* _is_repeated_run_hallucination, of a run given by its indices.          *)
RunHallucination(segs, run) ==
  LET time == FoldLeft(LAMBDA n, i : n + Duration(segs[i]), 0, run)
      text == FoldLeft(LAMBDA t, i : t \o Plain(segs[i].text), <<>>, run)
      share(score, pc) == AtLeast(score.chars, Len(text), pc)
  IN  /\ Len(run) >= 3
      /\ \/ /\ time >= 10000 /\ PromptScore(text).count >= 3
            /\ share(PromptScore(text), 55)
         \/ /\ time >= 20000 /\ DominantUnit(text).count >= 6
            /\ share(DominantUnit(text), 88)

-----------------------------------------------------------------------------
KeyOf(segs, i) == Key(Plain(segs[i].text))

(* The loop of suppress_repetition_hallucinations: a segment joins the run *)
(* when its key is that of the last one, else it closes the run and starts *)
(* the next; a segment of no key starts none.                              *)
Judged(segs, acc) ==
  acc.removed \cup
    (IF RunHallucination(segs, acc.run) THEN ToSet(acc.run) ELSE {})

RunStepSkipsSilence(segs, acc, i) ==
  IF KeyOf(segs, i) = NoKey THEN acc
  ELSE IF KeyOf(segs, i) = acc.key THEN [acc EXCEPT !.run = Append(acc.run, i)]
  ELSE [run |-> <<i>>, key |-> KeyOf(segs, i), removed |-> Judged(segs, acc)]

RunStep(segs, acc, i) ==
  IF KeyOf(segs, i) # NoKey /\ KeyOf(segs, i) = acc.key
    THEN [acc EXCEPT !.run = Append(acc.run, i)]
    ELSE [run |-> IF KeyOf(segs, i) = NoKey THEN <<>> ELSE <<i>>,
          key |-> KeyOf(segs, i), removed |-> Judged(segs, acc)]

Scanned(segs) ==
  LET alone == {i \in DOMAIN segs : SingleHallucination(segs[i])}
  IN  FoldLeftDomain(LAMBDA acc, i : RunStep(segs, acc, i),
                     [run |-> <<>>, key |-> NoKey, removed |-> alone], segs)

Suppressed(segs) == Judged(segs, Scanned(segs))

Spared(kept, segs, removed, i) ==
  IF i \in removed THEN kept ELSE Append(kept, segs[i])

Without(segs, removed) ==
  FoldLeftDomain(LAMBDA kept, i : Spared(kept, segs, removed, i), <<>>, segs)

Guarded(segs) == Without(segs, Suppressed(segs))

-----------------------------------------------------------------------------
(* The longest stretch of segments around i that have its key.             *)
Stretch(segs, i) ==
  LET alike(a, b) == \A j \in a..b : KeyOf(segs, j) = KeyOf(segs, i)
      from == Min({a \in 1..i : alike(a, i)})
      to   == Max({b \in i..Len(segs) : alike(i, b)})
  IN  [k \in 1..(to - from + 1) |-> from + k - 1]
=============================================================================
