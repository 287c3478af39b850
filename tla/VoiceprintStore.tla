--------------------------- MODULE VoiceprintStore ---------------------------
(***************************************************************************)
(* The SQLite store of enrolled speakers: the enroll, delete and rename    *)
(* endpoints, the statements of their transactions, and the start of the   *)
(* process, which may import a store of the legacy format.                 *)
(*                                                                         *)
(* Every operation holds the database lock from its first look-up to its   *)
(* last statement, so operations do not interleave; what can come between  *)
(* two statements is a failing statement or the death of the process.      *)
(*                                                                         *)
(* The rows of the four tables are kept per speaker.  An average and a     *)
(* spread are represented by the samples they were computed from, the      *)
(* empty sequence standing for a missing row or a NULL.                    *)
(*                                                                         *)
(* A definition that carries a suffix and precedes the one it is named     *)
(* after is a seeded fault; no behaviour uses it.                          *)
(***************************************************************************)
EXTENDS Naturals, Sequences, FiniteSets

CONSTANTS Id,           \* speaker ids
          Name, NoName, \* display names; NoName: None
          Emb, NoEmb,   \* embeddings; NoEmb: no embedding at hand
          Silent,       \* the embeddings of norm zero
          Fold,         \* SQLite's LOWER
          LegacyStores, \* what index.json and the .npy files may hold
          MaxSamples,   \* bound: samples of one speaker
          MaxCrashes,   \* bound: times the process may die
          MaxFaults     \* bound: statements and file operations that fail

NoRows == [name |-> NoName, count |-> 0, spread |-> <<>>,
           samples |-> <<>>, avg |-> <<>>, vec |-> <<>>]

Row == [name : Name \cup {NoName}, count : Nat, spread : Seq(Emb),
        samples : Seq(Emb), avg : Seq(Emb), vec : Seq(Emb)]

(* A speaker of the legacy store, NoName for an id it does not have.  The  *)
(* average file may be missing, and so may the samples file.               *)
LegacyEntry == [name : Name \cup {NoName}, count : Nat,
                avg : Seq(Emb), samples : Seq(Emb)]

ASSUME IdAssumption     == Id # {}
ASSUME NameAssumption   == NoName \notin Name /\ Fold \in [Name -> Name]
ASSUME EmbAssumption    == NoEmb \notin Emb /\ Silent \subseteq Emb
ASSUME LegacyAssumption == LegacyStores \subseteq [Id -> LegacyEntry]
ASSUME BoundAssumption  ==
  MaxSamples \in Nat /\ MaxCrashes \in Nat /\ MaxFaults \in Nat

VARIABLES
  pc,         \* the next step of the process
  op,         \* the speaker, name and embedding of the current request
  db,         \* the committed rows of each speaker
  tx,         \* the rows as the connection sees them
  vecLoaded,  \* the sqlite-vec extension is loaded
  index,      \* index.json exists
  legacy,     \* the legacy store
  todo,       \* ids the import has not come to
  generation, \* _cohort_generation
  crashes, faults,
  lagging,    \* history: ids last written while the extension was missing
  touched,    \* history: ids added or updated by this code
  deleted,    \* history: ids deleted
  renamed,    \* history: some speaker was given a name of the user's choice
  halfway     \* history: a start ended between an import and its clean-up

boot    == <<index, legacy, todo>>
budget  == <<crashes, faults>>
history == <<lagging, touched, deleted, renamed, halfway>>
vars    == <<pc, op, db, tx, vecLoaded, boot, generation, budget, history>>

Serving == {"add_speaker", "add_sample", "add_avg", "upd_sample", "upd_avg",
            "upd_row", "upsert_vec", "commit_enroll", "del_vec", "del_row",
            "ren_row", "commit"}
PC      == {"down", "import", "imported", "idle", "notify"} \cup Serving

NoOp == [id |-> CHOOSE i \in Id : TRUE, name |-> NoName, emb |-> NoEmb]

SpeakersIn(t) == {i \in Id : t[i].name # NoName}

-----------------------------------------------------------------------------
(* What is computed from a speaker's rows.                                 *)

(* No spread without two samples that have a direction.                    *)
SpreadOf(s) ==
  IF Cardinality({k \in DOMAIN s : s[k] \notin Silent}) < 2 THEN <<>> ELSE s

(* What the nearest-neighbour search compares the query with: the vector   *)
(* table as soon as it has a row, the averages otherwise.                  *)
VecAnswers == vecLoaded /\ \E i \in Id : db[i].vec # <<>>

SearchedAs(i) ==
  IF VecAnswers
    THEN IF i \in SpeakersIn(db) THEN db[i].vec ELSE <<>>
    ELSE db[i].avg

-----------------------------------------------------------------------------
Init ==
  /\ pc = "down"
  /\ op = NoOp
  /\ db = [i \in Id |-> NoRows]
  /\ tx = db
  /\ vecLoaded = FALSE
  /\ legacy \in LegacyStores
  /\ index = (\E i \in Id : legacy[i].name # NoName)
  /\ todo = {}
  /\ generation = 0
  /\ crashes = 0 /\ faults = 0
  /\ lagging = {} /\ touched = {} /\ deleted = {}
  /\ renamed = FALSE /\ halfway = FALSE

-----------------------------------------------------------------------------
(* Start.                                                                  *)

MustImport == index /\ SpeakersIn(db) = {}

(* Whether the extension can be loaded is decided anew at every start.     *)
Start ==
  /\ pc = "down"
  /\ vecLoaded' \in BOOLEAN
  /\ \/ /\ MustImport
        /\ pc' = "import"
        /\ todo' = {i \in Id : legacy[i].name # NoName}
        /\ faults' = faults
     \/ /\ ~MustImport
        /\ pc' = "idle"
        /\ UNCHANGED <<todo, faults>>
     \/ /\ MustImport                     \* index.json cannot be read
        /\ faults < MaxFaults
        /\ faults' = faults + 1
        /\ pc' = "idle"
        /\ todo' = todo
  /\ UNCHANGED <<op, db, tx, index, legacy, generation, crashes, history>>

(* One speaker of the legacy index; it is skipped without an average.      *)
ImportOne(i) ==
  /\ pc = "import"
  /\ i \in todo
  /\ todo' = todo \ {i}
  /\ tx' = IF legacy[i].avg = <<>>
             THEN tx
             ELSE [tx EXCEPT ![i] =
                     [name |-> legacy[i].name, count |-> legacy[i].count,
                      spread |-> <<>>, samples |-> legacy[i].samples,
                      avg |-> legacy[i].avg,
                      vec |-> IF vecLoaded THEN legacy[i].avg ELSE tx[i].vec]]
  /\ UNCHANGED <<pc, op, db, vecLoaded, index, legacy, generation, budget,
                 history>>

ImportCommit ==
  /\ pc = "import"
  /\ todo = {}
  /\ pc' = "imported"
  /\ db' = tx
  /\ lagging' = IF vecLoaded THEN lagging \ SpeakersIn(tx)
                             ELSE lagging \cup SpeakersIn(tx)
  /\ touched' = touched \ SpeakersIn(tx)
  /\ UNCHANGED <<op, tx, vecLoaded, boot, generation, budget, deleted, renamed,
                 halfway>>

RenameIndexForgotten ==
  /\ pc = "imported"
  /\ pc' = "idle"
  /\ UNCHANGED <<op, db, tx, vecLoaded, boot, generation, budget, history>>

RenameIndex ==
  /\ pc = "imported"
  /\ pc' = "idle"
  /\ index' = FALSE
  /\ UNCHANGED <<op, db, tx, vecLoaded, legacy, todo, generation, budget,
                 history>>

(* A .npy file that cannot be loaded, a failing statement or the rename    *)
(* ends the start with an exception.                                       *)
StartFails ==
  /\ pc \in {"import", "imported"}
  /\ faults < MaxFaults
  /\ faults' = faults + 1
  /\ pc' = "down"
  /\ tx' = db
  /\ todo' = {}
  /\ halfway' = (halfway \/ pc = "imported")
  /\ UNCHANGED <<op, db, vecLoaded, index, legacy, generation, crashes,
                 lagging, touched, deleted, renamed>>

-----------------------------------------------------------------------------
(* The enroll endpoint, with or without the id of an enrolled speaker.     *)

HasRoom(i) == Len(db[i].samples) < MaxSamples

Begin(first, i, n, e) ==
  /\ pc' = first
  /\ op' = [id |-> i, name |-> n, emb |-> e]
  /\ UNCHANGED <<db, tx, vecLoaded, boot, generation, budget, history>>

EnrollById(i, n, e) ==
  /\ pc = "idle"
  /\ i \in SpeakersIn(db)
  /\ HasRoom(i)
  /\ Begin("upd_sample", i, n, e)

NamesakesCaseSensitive(n) == {i \in SpeakersIn(db) : db[i].name = n}

Namesakes(n) == {i \in SpeakersIn(db) : Fold[db[i].name] = Fold[n]}

(* The speaker of that name, in any case, gains the sample and keeps the   *)
(* spelling of its name.                                                   *)
EnrollNamesake(i, n, e) ==
  /\ pc = "idle"
  /\ i \in Namesakes(n)
  /\ HasRoom(i)
  /\ Begin("upd_sample", i, NoName, e)

(* Ids are random: none is used twice.                                     *)
EnrollNew(i, n, e) ==
  /\ pc = "idle"
  /\ Namesakes(n) = {}
  /\ i \notin SpeakersIn(db) \cup deleted
  /\ legacy[i].name = NoName
  /\ Begin("add_speaker", i, n, e)

DeleteSpeaker(i) ==
  /\ pc = "idle"
  /\ i \in SpeakersIn(db)
  /\ Begin(IF vecLoaded THEN "del_vec" ELSE "del_row", i, NoName, NoEmb)

RenameSpeaker(i, n) ==
  /\ pc = "idle"
  /\ i \in SpeakersIn(db)
  /\ Begin("ren_row", i, n, NoEmb)

-----------------------------------------------------------------------------
(* The statements of a transaction.                                        *)

Statement(here, next, row) ==
  /\ pc = here
  /\ pc' = next
  /\ tx' = [tx EXCEPT ![op.id] = row]
  /\ UNCHANGED <<op, db, vecLoaded, boot, generation, budget, history>>

mine == tx[op.id]

ThenVec == IF vecLoaded THEN "upsert_vec" ELSE "commit_enroll"

InsertSpeaker ==
  Statement("add_speaker", "add_sample",
            [mine EXCEPT !.name = op.name, !.count = 1, !.spread = <<>>])

InsertFirstSample ==
  Statement("add_sample", "add_avg",
            [mine EXCEPT !.samples = Append(mine.samples, op.emb)])

InsertAvg ==
  Statement("add_avg", ThenVec, [mine EXCEPT !.avg = <<op.emb>>])

InsertSampleTwice ==
  Statement("upd_sample", "upd_avg",
            [mine EXCEPT !.samples = Append(Append(mine.samples, op.emb), op.emb)])

InsertSample ==
  Statement("upd_sample", "upd_avg",
            [mine EXCEPT !.samples = Append(mine.samples, op.emb)])

ReplaceAvg ==
  Statement("upd_avg", "upd_row", [mine EXCEPT !.avg = mine.samples])

UpdateRowOldCount ==
  Statement("upd_row", ThenVec,
            [mine EXCEPT !.count = Len(db[op.id].samples),
                         !.spread = SpreadOf(mine.samples),
                         !.name = IF op.name = NoName THEN mine.name ELSE op.name])

UpdateRow ==
  Statement("upd_row", ThenVec,
            [mine EXCEPT !.count = Len(mine.samples),
                         !.spread = SpreadOf(mine.samples),
                         !.name = IF op.name = NoName THEN mine.name ELSE op.name])

UpsertVecInsertOnly ==
  Statement("upsert_vec", "commit_enroll",
            [mine EXCEPT !.vec = IF mine.vec = <<>> THEN mine.avg ELSE mine.vec])

UpsertVec ==
  Statement("upsert_vec", "commit_enroll", [mine EXCEPT !.vec = mine.avg])

DeleteVec ==
  Statement("del_vec", "del_row", [mine EXCEPT !.vec = <<>>])

(* The foreign keys take the samples and the average with it; the vector   *)
(* table has none.                                                         *)
DeleteRow ==
  Statement("del_row", "commit", [NoRows EXCEPT !.vec = mine.vec])

RenameRow ==
  Statement("ren_row", "commit", [mine EXCEPT !.name = op.name])

Lagging(i) == IF vecLoaded THEN lagging \ {i} ELSE lagging \cup {i}

CommitEnroll ==
  /\ pc = "commit_enroll"
  /\ pc' = "notify"
  /\ db' = tx
  /\ lagging' = Lagging(op.id)
  /\ touched' = touched \cup {op.id}
  /\ renamed' = (renamed \/ (op.id \in SpeakersIn(db) /\ op.name # NoName))
  /\ UNCHANGED <<op, tx, vecLoaded, boot, generation, budget, deleted, halfway>>

(* on_enroll runs after the COMMIT.                                        *)
Notify ==
  /\ pc = "notify"
  /\ pc' = "idle"
  /\ op' = NoOp
  /\ generation' = generation + 1
  /\ UNCHANGED <<db, tx, vecLoaded, boot, budget, history>>

Commit ==
  /\ pc = "commit"
  /\ pc' = "idle"
  /\ op' = NoOp
  /\ db' = tx
  /\ IF op.id \in SpeakersIn(tx)
       THEN renamed' = TRUE /\ UNCHANGED <<lagging, touched, deleted>>
       ELSE /\ lagging' = Lagging(op.id)
            /\ touched' = touched \ {op.id}
            /\ deleted' = deleted \cup {op.id}
            /\ renamed' = renamed
  /\ UNCHANGED <<tx, vecLoaded, boot, generation, budget, halfway>>

StatementFailsNoRollback ==
  /\ pc \in Serving
  /\ faults < MaxFaults
  /\ faults' = faults + 1
  /\ pc' = "idle"
  /\ op' = NoOp
  /\ UNCHANGED <<db, tx, vecLoaded, boot, generation, crashes, history>>

StatementFailsCounted ==
  /\ pc \in Serving
  /\ faults < MaxFaults
  /\ faults' = faults + 1
  /\ pc' = IF op.emb = NoEmb THEN "idle" ELSE "notify"
  /\ tx' = db
  /\ UNCHANGED <<op, db, vecLoaded, boot, generation, crashes, history>>

(* Any statement of a request, the COMMIT too, may fail: ROLLBACK, 500.    *)
StatementFails ==
  /\ pc \in Serving
  /\ faults < MaxFaults
  /\ faults' = faults + 1
  /\ pc' = "idle"
  /\ op' = NoOp
  /\ tx' = db
  /\ UNCHANGED <<db, vecLoaded, boot, generation, crashes, history>>

(* The process dies: what was not committed is gone.                       *)
Crash ==
  /\ pc # "down"
  /\ crashes < MaxCrashes
  /\ crashes' = crashes + 1
  /\ pc' = "down"
  /\ op' = NoOp
  /\ tx' = db
  /\ todo' = {}
  /\ generation' = 0
  /\ halfway' = (halfway \/ pc = "imported")
  /\ UNCHANGED <<db, vecLoaded, index, legacy, faults, lagging, touched,
                 deleted, renamed>>

Request ==
  \/ \E i \in Id, n \in Name, e \in Emb :
       EnrollById(i, n, e) \/ EnrollNamesake(i, n, e) \/ EnrollNew(i, n, e)
  \/ \E i \in Id : DeleteSpeaker(i)
  \/ \E i \in Id, n \in Name : RenameSpeaker(i, n)

Next ==
  \/ Start \/ ImportCommit \/ RenameIndex \/ StartFails
  \/ \E i \in Id : ImportOne(i)
  \/ Request
  \/ InsertSpeaker \/ InsertFirstSample \/ InsertAvg
  \/ InsertSample \/ ReplaceAvg \/ UpdateRow \/ UpsertVec
  \/ DeleteVec \/ DeleteRow \/ RenameRow
  \/ CommitEnroll \/ Notify \/ Commit \/ StatementFails \/ Crash

Spec == Init /\ [][Next]_vars

-----------------------------------------------------------------------------
(* Types, and the rows of a speaker between transactions.                  *)
TypeOK ==
  /\ pc \in PC
  /\ op \in [id : Id, name : Name \cup {NoName}, emb : Emb \cup {NoEmb}]
  /\ db \in [Id -> Row] /\ tx \in [Id -> Row]
  /\ vecLoaded \in BOOLEAN /\ index \in BOOLEAN
  /\ legacy \in LegacyStores /\ todo \subseteq Id
  /\ generation \in Nat /\ crashes \in Nat /\ faults \in Nat
  /\ lagging \subseteq Id /\ touched \subseteq Id /\ deleted \subseteq Id
  /\ renamed \in BOOLEAN /\ halfway \in BOOLEAN
  /\ pc \in {"down", "imported", "idle", "notify"} => tx = db

(* The count, the average and the spread of a speaker this code has        *)
(* written are those of the samples stored for it, every speaker has an    *)
(* average to be matched with, and nothing of a deleted speaker is left,   *)
(* whichever statements failed and wherever the process died.              *)
EvidenceAgrees ==
  \A i \in Id :
    IF i \in SpeakersIn(db)
      THEN /\ db[i].avg # <<>>
           /\ i \in touched => /\ db[i].count = Len(db[i].samples)
                               /\ db[i].avg = db[i].samples
                               /\ db[i].spread = SpreadOf(db[i].samples)
      ELSE db[i].samples = <<>> /\ db[i].avg = <<>>

(* The search compares a query with the current average of every speaker,  *)
(* through the vector table or without it, except for speakers last        *)
(* written while the extension was missing: once the table has a row it is *)
(* believed, although nothing refills it.                                  *)
SearchIsCurrent ==
  pc \in {"idle", "notify"} =>
    \A i \in Id \ lagging : SearchedAs(i) = db[i].avg

(* Two speakers share a name, in any case, only if the user gave one of    *)
(* them that name explicitly, or the legacy store held both.               *)
NamesDistinct ==
  ~renamed =>
    \A i, j \in SpeakersIn(db) :
      i # j /\ i \in touched /\ legacy[i].name = NoName =>
        Fold[db[i].name] # Fold[db[j].name]

(* A deleted speaker comes back only if a start was cut off after the      *)
(* import of the legacy store and before index.json was put out of the way.*)
DeletedStaysDeleted == ~halfway => deleted \cap SpeakersIn(db) = {}

(* The cohort is marked stale only by a sample that has been committed.    *)
CountedOnceStored ==
  [][generation' > generation =>
       /\ op.id \in SpeakersIn(db)
       /\ db[op.id].samples # <<>>
       /\ db[op.id].samples[Len(db[op.id].samples)] = op.emb]_vars

(* Every request is all or nothing: what is committed moves from one       *)
(* speaker book to the next as the abstract store does.                    *)
Book == INSTANCE SpeakerBook
          WITH book <- [i \in Id |-> [name |-> db[i].name,
                                      samples |-> db[i].samples]]

KeepsBook == Book!Spec
=============================================================================
