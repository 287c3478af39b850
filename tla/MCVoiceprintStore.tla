-------------------------- MODULE MCVoiceprintStore --------------------------
(***************************************************************************)
(* Two ids and three spellings of two names; one embedding has no direction.*)
(***************************************************************************)
EXTENDS VoiceprintStore

CONSTANTS i1, i2, ann, Ann, bob, voice, hush

MCFold == [n \in Name |-> IF n = Ann THEN ann ELSE n]

Unknown == [name |-> NoName, count |-> 0, avg |-> <<>>, samples |-> <<>>]

(* No legacy speaker, one with its samples, one whose samples are lost,    *)
(* and one whose average is lost.                                          *)
MCLegacyStores ==
  { [i \in Id |-> IF i = i1 THEN e ELSE Unknown] :
      e \in { Unknown,
              [name |-> ann, count |-> 1, avg |-> <<voice>>, samples |-> <<voice>>],
              [name |-> ann, count |-> 3, avg |-> <<voice, voice>>, samples |-> <<>>],
              [name |-> bob, count |-> 1, avg |-> <<>>, samples |-> <<voice>>] } }
=============================================================================
