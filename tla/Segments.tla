------------------------------- MODULE Segments -------------------------------
(***************************************************************************)
(* From what was heard and who spoke to the segments of the result: the    *)
(* aligner cuts what was heard into pieces, each gets a speaker label,     *)
(* repeated backchannels are dropped, text-only neighbours of one label    *)
(* are merged, and labels get the names they are shown under.              *)
(*                                                                         *)
(* Times are whole milliseconds, as they are after rounding; raw times are *)
(* taken to be numbers, not negative.  A text is the sequence of its       *)
(* characters; the blank put between merged texts is left out, as strip()  *)
(* leaves none at their ends.                                              *)
(*                                                                         *)
(* A definition that carries a suffix and precedes the one it is named     *)
(* after is a seeded fault; no behaviour uses it.                          *)
(***************************************************************************)
EXTENDS Integers, FiniteSets, SequencesExt

CONSTANTS Unknown,   \* the label "UNKNOWN"
          NoId,      \* no speaker matched
          Numbered   \* Numbered[<<n, k>>] is the name "n (k)"

MergeGap    == 50    \* MERGE_GAP_SECONDS
EchoLength  == 4     \* longest text dedup_short_segments drops
EchoTime    == 2000  \* and the duration it stays below

ASSUME NumberedAssumption ==
  \A p, q \in DOMAIN Numbered : Numbered[p] = Numbered[q] => p = q

-----------------------------------------------------------------------------
(* The segments whisperx.align returns.  One that it is able to align      *)
(* becomes the pieces of its cut: sentences that carry their words and are *)
(* timed by them.  Any other comes back as it was heard, without words.    *)
ForcedAlignment(heard, cut, able) ==
  FlattenSeq([i \in DOMAIN heard |->
    IF heard[i] \in able THEN cut[heard[i]]
    ELSE << [start |-> heard[i].start, end |-> heard[i].end,
             text |-> heard[i].text, words |-> FALSE] >>])

(* The turn a segment overlaps longest, the first of equals; failing that  *)
(* the first turn that its middle lies in.                                 *)
Overlap(seg, turn) ==
  Max({0, Min({seg.end, turn.end}) - Max({seg.start, turn.start})})

AssignSpeaker(seg, turns) ==
  LET longest == {i \in DOMAIN turns :
                    /\ Overlap(seg, turns[i]) > 0
                    /\ \A j \in DOMAIN turns :
                         Overlap(seg, turns[j]) <= Overlap(seg, turns[i])}
      middle  == {i \in DOMAIN turns :
                    /\ 2 * turns[i].start <= seg.start + seg.end
                    /\ seg.start + seg.end <= 2 * turns[i].end}
      first(I) == turns[CHOOSE i \in I : \A j \in I : i <= j].speaker
  IN  IF longest # {} THEN first(longest)
      ELSE IF middle # {} THEN first(middle)
      ELSE Unknown

(* build_aligned_segments.  A segment carries words only when it was       *)
(* aligned.                                                                *)
Aligned(segs, turns) ==
  [i \in DOMAIN segs |->
     [start |-> segs[i].start, end |-> segs[i].end, text |-> segs[i].text,
      words |-> segs[i].words, speaker |-> AssignSpeaker(segs[i], turns)]]

(* dedup_short_segments: a short text that repeats the last one kept.      *)
Echoes(last, seg) ==
  /\ seg.text # <<>> /\ seg.text = last.text
  /\ seg.end - seg.start < EchoTime
  /\ Len(seg.text) <= EchoLength

Kept(kept, seg) ==
  IF kept # <<>> /\ Echoes(Last(kept), seg) THEN kept ELSE Append(kept, seg)

DedupShort(segs) == FoldLeft(Kept, <<>>, segs)

-----------------------------------------------------------------------------
CanMergeAnySpeaker(last, seg) ==
  /\ ~last.words /\ ~seg.words
  /\ seg.start <= last.end + MergeGap

CanMerge(last, seg) ==
  /\ last.speaker = seg.speaker
  /\ ~last.words /\ ~seg.words
  /\ seg.start <= last.end + MergeGap

Merged(last, seg) ==
  [last EXCEPT !.end  = Max({last.end, seg.end}),
               !.text = last.text \o seg.text]

Joined(out, seg) ==
  IF out # <<>> /\ CanMerge(Last(out), seg)
    THEN Append(Front(out), Merged(Last(out), seg))
  ELSE Append(out, seg)

MergeAligned(segs) == FoldLeft(Joined, <<>>, segs)

(* The labels of the segments, each once, in the order they first occur.   *)
Noted(seen, x) == IF Contains(seen, x) THEN seen ELSE Append(seen, x)

Firsts(seq) == FoldLeft(Noted, <<>>, seq)

-----------------------------------------------------------------------------
(* The name a label goes by before names are told apart.  The speaker map  *)
(* is empty when there was nothing to match against, and gives a label     *)
(* that matched nobody its own name.                                       *)
BaseName(l, map) ==
  IF l \in DOMAIN map THEN map[l].name ELSE l

DisplayNamesPlain(labels, map) ==
  [l \in ToSet(labels) |-> BaseName(l, map)]

(* build_display_names: of the labels that go by one name the first keeps  *)
(* it and the k-th is shown as the name with its number.                   *)
DisplayNames(labels, map) ==
  LET turn(i) == Cardinality({j \in 1..i :
                   BaseName(labels[j], map) = BaseName(labels[i], map)})
      at(l)   == CHOOSE i \in DOMAIN labels : labels[i] = l
  IN  [l \in ToSet(labels) |->
         IF turn(at(l)) = 1 THEN BaseName(l, map)
         ELSE Numbered[<<BaseName(l, map), turn(at(l))>>]]

(* build_result_segments.                                                  *)
ResultSegments(segs, map) ==
  LET merged == MergeAligned(segs)
      labels == Firsts([i \in DOMAIN merged |-> merged[i].speaker])
      shown  == DisplayNames(labels, map)
  IN  [i \in DOMAIN merged |->
         [start |-> merged[i].start, end |-> merged[i].end,
          text |-> merged[i].text, words |-> merged[i].words,
          label |-> merged[i].speaker,
          id    |-> IF merged[i].speaker \in DOMAIN map
                      THEN map[merged[i].speaker].id ELSE NoId,
          name  |-> shown[merged[i].speaker]]]

UniqueSpeakers(result) == Firsts([i \in DOMAIN result |-> result[i].name])

-----------------------------------------------------------------------------
(* The kernel's port of the merging and the naming.  It keeps the merged   *)
(* segments and the groups of labels that go by one name in vectors, and   *)
(* collects the segments and the names shown in one pass.                  *)
KernelCanMergeTouching(previous, current) ==
  /\ previous.speaker = current.speaker
  /\ ~previous.words /\ ~current.words
  /\ current.start <= previous.end

KernelCanMerge(previous, current) ==
  /\ previous.speaker = current.speaker
  /\ ~previous.words /\ ~current.words
  /\ current.start <= previous.end + MergeGap

KernelJoined(merged, seg) ==
  IF merged # <<>> /\ KernelCanMerge(Last(merged), seg)
    THEN [merged EXCEPT ![Len(merged)].end  = Max({@, seg.end}),
                        ![Len(merged)].text = @ \o seg.text]
  ELSE Append(merged, seg)

KernelMergeAligned(segs) == FoldLeft(KernelJoined, <<>>, segs)

KernelGroups(labels, map) ==
  FoldLeft(LAMBDA known, l : [known EXCEPT ![BaseName(l, map)] = Append(@, l)],
           [n \in {BaseName(l, map) : l \in ToSet(labels)} |-> <<>>], labels)

KernelDisplayNames(labels, map) ==
  LET groups == KernelGroups(labels, map)
      shown(n, k) == IF k = 1 THEN n ELSE Numbered[<<n, k>>]
  IN  [l \in ToSet(labels) |->
         LET n == BaseName(l, map)
         IN  shown(n, CHOOSE k \in DOMAIN groups[n] : groups[n][k] = l)]

ResultSegment(seg, shown, map) ==
  [start |-> seg.start, end |-> seg.end, text |-> seg.text, words |-> seg.words,
   label |-> seg.speaker,
   id    |-> IF seg.speaker \in DOMAIN map THEN map[seg.speaker].id ELSE NoId,
   name  |-> shown[seg.speaker]]

KernelAdded(out, seg, shown, map) ==
  [segments |-> Append(out.segments, ResultSegment(seg, shown, map)),
   unique   |-> Noted(out.unique, shown[seg.speaker])]

KernelBuilt(merged, shown, map) ==
  FoldLeft(LAMBDA out, seg : KernelAdded(out, seg, shown, map),
           [segments |-> <<>>, unique |-> <<>>], merged)

KernelResult(segs, map) ==
  LET merged == KernelMergeAligned(segs)
      labels == Firsts([i \in DOMAIN merged |-> merged[i].speaker])
  IN  KernelBuilt(merged, KernelDisplayNames(labels, map), map)
=============================================================================
