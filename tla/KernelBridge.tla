----------------------------- MODULE KernelBridge -----------------------------
(***************************************************************************)
(* The bridge to the Rust extension: what it accepts as an answer.         *)
(*                                                                         *)
(* A response is the kind of value each of its fields has.  The bridge     *)
(* checks every field it names against the kinds the Python test lets      *)
(* through and raises on the first that is not; the job fails with it,     *)
(* there is no way back to the Python path.  A response with list items    *)
(* is the response and one record per kind of item; their checks are       *)
(* alike, so a list is represented by one of its items.                    *)
(***************************************************************************)
Kind == {"missing", "null", "bool", "empty", "text", "path", "numeral",
         "natural", "negative", "decimal", "infinite", "list", "map"}

(* What the tests of the bridge let through.  float() takes a truth value  *)
(* and the text of a number; int() cuts a decimal short and raises an      *)
(* OverflowError of its own on an infinite one.                            *)
Present    == Kind \ {"missing"}
NonEmpty   == {"text", "path", "numeral"}
AnyText    == NonEmpty \cup {"empty"}
FileName   == NonEmpty \ {"path"}
FiniteNum  == {"bool", "numeral", "natural", "negative", "decimal"}
Index      == {"bool", "numeral", "natural", "decimal"}
OrNull(ks) == ks \cup {"null"}
OrNone(ks) == ks \cup {"missing"}

(* The checks of a response and those of the items of its lists; no field  *)
(* is named in both.                                                       *)
With(top, item) ==
  [f \in DOMAIN top \cup DOMAIN item |-> IF f \in DOMAIN top THEN top[f] ELSE item[f]]

CandidateFields ==
  [speaker_id      |-> NonEmpty,  name                |-> NonEmpty,
   score_method    |-> NonEmpty,  raw_similarity      |-> FiniteNum,
   cand_similarity |-> FiniteNum, effective_threshold |-> FiniteNum,
   sample_count    |-> Index,     sample_spread       |-> OrNull(FiniteNum)]

(* The id and the name the kernel matched need only be there.              *)
VoiceprintScore ==
  With([matched_id |-> Present,   matched_name  |-> Present,
        reason     |-> NonEmpty,  asnorm_active |-> {"bool"},
        similarity |-> FiniteNum, asnorm_reason |-> NonEmpty,
        candidates |-> {"list"}],
       CandidateFields)

WordFields ==
  [word     |-> AnyText,   word_start |-> FiniteNum,
   word_end |-> FiniteNum, score      |-> FiniteNum]

SegmentFields ==
  With([id            |-> Index,     start         |-> FiniteNum,
        end           |-> FiniteNum, similarity    |-> FiniteNum,
        text          |-> AnyText,   speaker_label |-> NonEmpty,
        speaker_name  |-> NonEmpty,  speaker_id    |-> OrNull(AnyText),
        words         |-> OrNone({"list"})],
       WordFields)

PostprocessSegments ==
  With([segments |-> {"list"}, unique_speakers |-> {"list"},
        unique_speaker |-> NonEmpty],
       SegmentFields)

ManifestEntryFields ==
  [name |-> NonEmpty, filename   |-> FileName,
   role |-> NonEmpty, media_type |-> NonEmpty,
   required_for_result |-> {"bool"}, entry_label |-> OrNone(AnyText)]

ArtifactManifest ==
  With([manifest_version |-> NonEmpty, stable |-> {"list"},
        optional |-> {"list"}, experimental |-> {"list"}],
       ManifestEntryFields)

Passes(contract, response) ==
  \A f \in DOMAIN contract : response[f] \in contract[f]

(* Every response of the right shape but for one field.                    *)
Flaws(contract) == {<<f, k>> : f \in DOMAIN contract, k \in Kind}

Spoilt(response, flaw) == [response EXCEPT ![flaw[1]] = flaw[2]]
=============================================================================
