----------------------------- MODULE SpeakerBook -----------------------------
(***************************************************************************)
(* What the voiceprint store promises: a book of speakers, each with a     *)
(* name and the samples it was enrolled with, that changes one whole       *)
(* operation at a time.  A speaker comes in with one sample, gains one     *)
(* sample at a time, changes its name, or goes with all its samples; a     *)
(* store of the legacy format is taken over in one step, into an empty     *)
(* book only.                                                              *)
(***************************************************************************)
EXTENDS Sequences

CONSTANTS Id, Name, NoName, Emb

VARIABLE book   \* the name and the samples of each speaker

Nobody   == [name |-> NoName, samples |-> <<>>]
Enrolled == {i \in Id : book[i].name # NoName}

Init == book = [i \in Id |-> Nobody]

Enroll(i, n, e) ==
  /\ i \notin Enrolled
  /\ book' = [book EXCEPT ![i] = [name |-> n, samples |-> <<e>>]]

(* One more sample; the name given may be the one the speaker has.         *)
Update(i, n, e) ==
  /\ i \in Enrolled
  /\ book' = [book EXCEPT ![i] =
                [name |-> n, samples |-> Append(book[i].samples, e)]]

Rename(i, n) ==
  /\ i \in Enrolled
  /\ book' = [book EXCEPT ![i].name = n]

Delete(i) ==
  /\ i \in Enrolled
  /\ book' = [book EXCEPT ![i] = Nobody]

Import ==
  /\ Enrolled = {}
  /\ \A i \in Id : book'[i] # Nobody => book'[i].name \in Name

Next ==
  \/ \E i \in Id : Delete(i)
  \/ \E i \in Id, n \in Name : Rename(i, n)
  \/ \E i \in Id, n \in Name, e \in Emb : Enroll(i, n, e) \/ Update(i, n, e)
  \/ Import

Spec == Init /\ [][Next]_book
=============================================================================
