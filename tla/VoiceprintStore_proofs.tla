-------------------------- MODULE VoiceprintStore_proofs --------------------------
(***************************************************************************)
(* The voiceprint store, for any number of speakers, names, samples,       *)
(* crashes and failing statements, and any legacy store.                   *)
(***************************************************************************)
EXTENDS VoiceprintStore, FiniteSetTheorems, TLAPS

Adding   == {"add_speaker", "add_sample", "add_avg"}
Updating == {"upd_sample", "upd_avg", "upd_row"}
Ending   == {"upsert_vec", "commit_enroll"}

(* The request at hand: an enrollment has an embedding, and a new speaker  *)
(* or a new name has a name.                                               *)
OpInv ==
  /\ pc \in Adding \cup Updating \cup Ending \cup {"notify"} => op.emb \in Emb
  /\ pc \in Adding \cup {"ren_row"} => op.name \in Name
  /\ pc \in Updating \cup {"del_vec", "del_row", "ren_row"} => op.id \in SpeakersIn(db)
  /\ pc \in Adding => op.id \notin SpeakersIn(db)

(* A transaction touches the rows of one speaker only, and how far it has  *)
(* come with them.                                                         *)
OthersInv == pc \in Serving => \A i \in Id \ {op.id} : tx[i] = db[i]

Extended == tx[op.id].samples = Append(db[op.id].samples, op.emb)

MineInv ==
  /\ pc \in {"add_speaker", "upd_sample", "ren_row"} => tx[op.id] = db[op.id]
  /\ pc \in {"add_sample", "add_avg"} =>
       /\ tx[op.id].name = op.name
       /\ tx[op.id].count = 1 /\ tx[op.id].spread = <<>>
  /\ pc = "add_sample" => tx[op.id].samples = db[op.id].samples
  /\ pc \in {"add_avg", "upd_avg", "upd_row"} \cup Ending => Extended
  /\ pc \in {"upd_avg", "upd_row"} => tx[op.id].name = db[op.id].name
  /\ pc = "upd_row" => tx[op.id].avg = tx[op.id].samples
  /\ pc \in Ending =>
       /\ tx[op.id].count = Len(tx[op.id].samples)
       /\ tx[op.id].avg = tx[op.id].samples
       /\ tx[op.id].spread = SpreadOf(tx[op.id].samples)
       /\ IF op.id \in SpeakersIn(db)
            THEN tx[op.id].name = IF op.name = NoName THEN db[op.id].name
                                                      ELSE op.name
            ELSE op.name \in Name /\ tx[op.id].name = op.name
  /\ pc = "upsert_vec" => vecLoaded
  /\ pc = "commit_enroll" /\ vecLoaded => tx[op.id].vec = tx[op.id].avg
  /\ pc = "commit" =>
       /\ op.id \in SpeakersIn(db)
       /\ \/ /\ tx[op.id].name = NoName
             /\ tx[op.id].samples = <<>> /\ tx[op.id].avg = <<>>
          \/ /\ op.name \in Name
             /\ tx[op.id] = [db[op.id] EXCEPT !.name = op.name]

(* The import starts from an empty table and takes whole speakers.         *)
ImportInv ==
  pc = "import" =>
    /\ index
    /\ SpeakersIn(db) = {}
    /\ \A i \in todo : legacy[i].name # NoName
    /\ \A i \in Id :
         IF tx[i].name # NoName
           THEN /\ legacy[i].name # NoName
                /\ tx[i].avg # <<>>
                /\ vecLoaded => tx[i].vec = tx[i].avg
           ELSE tx[i].samples = <<>> /\ tx[i].avg = <<>>

(* What EvidenceAgrees, SearchIsCurrent, NamesDistinct and                 *)
(* DeletedStaysDeleted rest on.                                            *)
VecInv == \A i \in SpeakersIn(db) \ lagging : db[i].vec = db[i].avg

NewName(n, i) == \A j \in SpeakersIn(db) \ {i} : Fold[db[j].name] # Fold[n]

NamesInv ==
  /\ ~renamed =>
       \A i \in SpeakersIn(db) : legacy[i].name = NoName => NewName(db[i].name, i)
  /\ pc \in Adding \cup Ending /\ op.id \notin SpeakersIn(db) =>
       /\ NewName(op.name, op.id)
       /\ legacy[op.id].name = NoName
       /\ op.id \notin deleted

DeletedInv ==
  /\ ~halfway => deleted \cap SpeakersIn(db) = {}
  /\ index /\ ~halfway =>
       /\ \A i \in deleted : legacy[i].name = NoName
       /\ pc # "imported" => \A i \in SpeakersIn(db) : legacy[i].name = NoName
  /\ pc = "imported" => index

NotifyInv ==
  pc = "notify" =>
    /\ op.id \in SpeakersIn(db)
    /\ db[op.id].samples # <<>>
    /\ db[op.id].samples[Len(db[op.id].samples)] = op.emb

IInv == /\ TypeOK /\ OpInv /\ OthersInv /\ MineInv /\ ImportInv
        /\ EvidenceAgrees /\ VecInv /\ NamesInv /\ DeletedInv /\ NotifyInv

-----------------------------------------------------------------------------
(* Types.                                                                  *)

LEMMA LegacyType ==
  ASSUME TypeOK, NEW i \in Id
  PROVE  /\ legacy[i].name \in Name \cup {NoName} /\ legacy[i].count \in Nat
         /\ legacy[i].avg \in Seq(Emb) /\ legacy[i].samples \in Seq(Emb)
<1>1. legacy \in [Id -> LegacyEntry]
  BY LegacyAssumption DEF TypeOK
<1> QED BY <1>1 DEF LegacyEntry

LEMMA SpreadType ==
  ASSUME NEW s \in Seq(Emb)
  PROVE  SpreadOf(s) \in Seq(Emb)
BY DEF SpreadOf

LEMMA MineType ==
  ASSUME TypeOK
  PROVE  /\ mine \in Row /\ op.id \in Id
         /\ \A r \in Row : [tx EXCEPT ![op.id] = r] \in [Id -> Row]
BY DEF TypeOK, mine

LEMMA NoRowsType == NoRows \in Row
BY DEF NoRows, Row

LEMMA NoOpType == NoOp \in [id : Id, name : Name \cup {NoName}, emb : Emb \cup {NoEmb}]
<1>1. (CHOOSE i \in Id : TRUE) \in Id
  BY IdAssumption
<1> QED BY <1>1 DEF NoOp

(* A statement writes a row into the transaction and nothing else.         *)
LEMMA StatementTypes ==
  ASSUME TypeOK, NEW here \in Serving, NEW next \in Serving, NEW row \in Row,
         Statement(here, next, row)
  PROVE  TypeOK'
<1>1. tx' \in [Id -> Row]
  BY MineType DEF Statement
<1> QED BY <1>1 DEF Statement, TypeOK, PC, Serving, boot, budget, history

LEMMA RowOfStatement ==
  ASSUME TypeOK
  PROVE  /\ [mine EXCEPT !.name = op.name, !.count = 1, !.spread = <<>>] \in Row
         /\ [mine EXCEPT !.avg = mine.samples] \in Row
         /\ [mine EXCEPT !.vec = mine.avg] \in Row
         /\ [mine EXCEPT !.vec = <<>>] \in Row
         /\ [NoRows EXCEPT !.vec = mine.vec] \in Row
         /\ [mine EXCEPT !.name = op.name] \in Row
         /\ [mine EXCEPT !.count = Len(mine.samples),
                         !.spread = SpreadOf(mine.samples),
                         !.name = IF op.name = NoName THEN mine.name ELSE op.name]
              \in Row
         /\ op.emb \in Emb =>
              /\ [mine EXCEPT !.samples = Append(mine.samples, op.emb)] \in Row
              /\ [mine EXCEPT !.avg = <<op.emb>>] \in Row
<1>1. /\ mine \in Row /\ op.name \in Name \cup {NoName}
      /\ mine.samples \in Seq(Emb) /\ mine.vec \in Seq(Emb) /\ mine.avg \in Seq(Emb)
      /\ mine.name \in Name \cup {NoName}
  BY MineType DEF TypeOK, Row
<1>2. SpreadOf(mine.samples) \in Seq(Emb) /\ Len(mine.samples) \in Nat
  BY <1>1, SpreadType
<1>3. op.emb \in Emb => <<op.emb>> \in Seq(Emb) /\ Append(mine.samples, op.emb) \in Seq(Emb)
  BY <1>1
<1>4. ASSUME NEW k \in Nat, NEW d \in Seq(Emb), NEW n \in Name \cup {NoName}
      PROVE  /\ [mine EXCEPT !.name = n, !.count = k, !.spread = d] \in Row
             /\ [mine EXCEPT !.count = k, !.spread = d, !.name = n] \in Row
             /\ [mine EXCEPT !.name = n] \in Row
             /\ [mine EXCEPT !.avg = d] \in Row
             /\ [mine EXCEPT !.vec = d] \in Row
  BY <1>1 DEF Row
<1>5. <<>> \in Seq(Emb)
  OBVIOUS
<1>6. ASSUME NEW d \in Seq(Emb)
      PROVE  [NoRows EXCEPT !.vec = d] \in Row
  <2>1. [NoRows EXCEPT !.vec = d] =
          [name |-> NoName, count |-> 0, spread |-> <<>>,
           samples |-> <<>>, avg |-> <<>>, vec |-> d]
    BY DEF NoRows
  <2>2. ASSUME NEW x \in Seq(Emb)
        PROVE  [name |-> NoName, count |-> 0, spread |-> x,
                samples |-> x, avg |-> x, vec |-> d] \in Row
    BY DEF Row
  <2> QED BY <2>1, <2>2, <1>5
<1>8. (IF op.name = NoName THEN mine.name ELSE op.name) \in Name \cup {NoName}
  BY <1>1
<1>9. ASSUME op.emb \in Emb
      PROVE  /\ [mine EXCEPT !.samples = Append(mine.samples, op.emb)] \in Row
             /\ [mine EXCEPT !.avg = <<op.emb>>] \in Row
  BY <1>1, <1>3, <1>9 DEF Row
<1> QED BY <1>1, <1>2, <1>4, <1>5, <1>6, <1>8, <1>9

LEMMA InitTypes == Init => TypeOK
<1> SUFFICES ASSUME Init PROVE TypeOK
  OBVIOUS
<1>1. db \in [Id -> Row] /\ tx \in [Id -> Row]
  BY NoRowsType DEF Init
<1>2. op \in [id : Id, name : Name \cup {NoName}, emb : Emb \cup {NoEmb}]
  BY NoOpType DEF Init
<1> QED BY <1>1, <1>2 DEF Init, TypeOK, PC, Serving

LEMMA StepTypes == TypeOK /\ OpInv /\ [Next]_vars => TypeOK'
<1> SUFFICES ASSUME TypeOK, OpInv, [Next]_vars PROVE TypeOK'
  OBVIOUS
<1> USE NoOpType, NoRowsType
<1>1. CASE Start
  BY <1>1 DEF Start, TypeOK, PC, Serving, history
<1>2. CASE ImportCommit
  BY <1>2 DEF ImportCommit, TypeOK, PC, Serving, boot, budget, SpeakersIn
<1>3. CASE RenameIndex
  BY <1>3 DEF RenameIndex, TypeOK, PC, Serving, budget, history
<1>4. CASE StartFails
  BY <1>4 DEF StartFails, TypeOK, PC, Serving
<1>5. ASSUME NEW i \in Id, ImportOne(i) PROVE TypeOK'
  <2>1. ASSUME NEW v \in Seq(Emb)
        PROVE  [name |-> legacy[i].name, count |-> legacy[i].count,
                spread |-> <<>>, samples |-> legacy[i].samples,
                avg |-> legacy[i].avg, vec |-> v] \in Row
    BY LegacyType DEF Row
  <2>2. legacy[i].avg \in Seq(Emb) /\ tx[i].vec \in Seq(Emb)
    BY LegacyType DEF TypeOK, Row
  <2>3. tx' \in [Id -> Row]
    BY <1>5, <2>1, <2>2 DEF ImportOne, TypeOK
  <2> QED BY <1>5, <2>3 DEF ImportOne, TypeOK, PC, Serving, budget, history
<1>6. ASSUME NEW i \in Id, NEW n \in Name, NEW e \in Emb,
             EnrollById(i, n, e) \/ EnrollNamesake(i, n, e) \/ EnrollNew(i, n, e)
      PROVE  TypeOK'
  BY <1>6 DEF EnrollById, EnrollNamesake, EnrollNew, Begin, TypeOK, PC, Serving,
     boot, budget, history
<1>7. ASSUME NEW i \in Id, DeleteSpeaker(i) PROVE TypeOK'
  BY <1>7 DEF DeleteSpeaker, Begin, TypeOK, PC, Serving, boot, budget, history
<1>8. ASSUME NEW i \in Id, NEW n \in Name, RenameSpeaker(i, n) PROVE TypeOK'
  BY <1>8 DEF RenameSpeaker, Begin, TypeOK, PC, Serving, boot, budget, history
<1>9. CASE CommitEnroll
  BY <1>9 DEF CommitEnroll, TypeOK, PC, Serving, boot, budget, Lagging, SpeakersIn
<1>10. CASE Notify
  BY <1>10 DEF Notify, TypeOK, PC, Serving, boot, budget, history
<1>11. CASE Commit
  BY <1>11 DEF Commit, TypeOK, PC, Serving, boot, budget, Lagging, SpeakersIn
<1>12. CASE StatementFails
  BY <1>12 DEF StatementFails, TypeOK, PC, Serving, boot, history
<1>13. CASE Crash
  BY <1>13 DEF Crash, TypeOK, PC, Serving
<1>14. CASE UNCHANGED vars
  BY <1>14 DEF vars, TypeOK, boot, budget, history
<1>15. CASE InsertSpeaker
  BY <1>15, StatementTypes, RowOfStatement DEF InsertSpeaker, Serving
<1>16. CASE InsertFirstSample
  BY <1>16, StatementTypes, RowOfStatement DEF OpInv, Adding, Updating, Statement, InsertFirstSample, Serving
<1>17. CASE InsertAvg
  BY <1>17, StatementTypes, RowOfStatement DEF OpInv, Adding, Updating, Statement, InsertAvg, ThenVec, Serving
<1>18. CASE InsertSample
  BY <1>18, StatementTypes, RowOfStatement DEF OpInv, Adding, Updating, Statement, InsertSample, Serving
<1>19. CASE ReplaceAvg
  BY <1>19, StatementTypes, RowOfStatement DEF ReplaceAvg, Serving
<1>20. CASE UpdateRow
  BY <1>20, StatementTypes, RowOfStatement DEF UpdateRow, ThenVec, Serving
<1>21. CASE UpsertVec
  BY <1>21, StatementTypes, RowOfStatement DEF UpsertVec, Serving
<1>22. CASE DeleteVec
  BY <1>22, StatementTypes, RowOfStatement DEF DeleteVec, Serving
<1>23. CASE DeleteRow
  BY <1>23, StatementTypes, RowOfStatement DEF DeleteRow, Serving
<1>24. CASE RenameRow
  BY <1>24, StatementTypes, RowOfStatement DEF RenameRow, Serving
<1> QED
  BY <1>1, <1>2, <1>3, <1>4, <1>5, <1>6, <1>7, <1>8, <1>9, <1>10, <1>11, <1>12,
     <1>13, <1>14, <1>15, <1>16, <1>17, <1>18, <1>19, <1>20, <1>21, <1>22, <1>23,
     <1>24 DEF Next, Request

-----------------------------------------------------------------------------
(* The statements of a transaction.                                        *)

LEMMA StatementKeeps ==
  ASSUME IInv, NEW here \in Serving, NEW next \in Serving, NEW row,
         Statement(here, next, row)
  PROVE  /\ pc = here /\ pc' = next
         /\ tx'[op.id] = row
         /\ UNCHANGED <<op, db, vecLoaded, legacy, deleted, renamed>>
         /\ OthersInv' /\ ImportInv' /\ EvidenceAgrees' /\ VecInv' /\ DeletedInv'
         /\ NotifyInv'
<1>1. /\ pc = here /\ pc' = next
      /\ UNCHANGED <<op, db, vecLoaded, legacy, index, lagging, touched, deleted,
                     renamed, halfway>>
  BY DEF Statement, boot, history
<1>2. tx \in [Id -> Row] /\ op.id \in Id
  BY DEF IInv, TypeOK
<1>3. tx'[op.id] = row /\ \A i \in Id \ {op.id} : tx'[i] = tx[i]
  BY <1>2 DEF Statement
<1>4. next \notin {"import", "imported", "notify", "down", "idle"} /\ here # "imported"
  BY DEF Serving
<1>5. OthersInv' /\ ImportInv' /\ NotifyInv'
  BY <1>1, <1>3, <1>4 DEF IInv, OthersInv, ImportInv, NotifyInv
<1>6. EvidenceAgrees' /\ VecInv'
  BY <1>1 DEF IInv, EvidenceAgrees, VecInv, SpeakersIn
<1>7. DeletedInv'
  BY <1>1, <1>4 DEF IInv, DeletedInv, SpeakersIn
<1> QED BY <1>1, <1>3, <1>5, <1>6, <1>7

LEMMA AddKeeps ==
  ASSUME IInv, InsertSpeaker \/ InsertFirstSample \/ InsertAvg
  PROVE  OpInv' /\ MineInv' /\ NamesInv'
<1> USE DEF Serving, Adding, Updating, Ending
<1>1. mine \in Row /\ op.id \in Id /\ db[op.id] \in Row /\ mine = tx[op.id]
  BY MineType DEF IInv, TypeOK, mine
<1>2. CASE InsertSpeaker
  <2>1. /\ pc = "add_speaker" /\ pc' = "add_sample"
        /\ tx'[op.id] = [mine EXCEPT !.name = op.name, !.count = 1, !.spread = <<>>]
        /\ UNCHANGED <<op, db, vecLoaded, legacy, deleted, renamed>>
    BY <1>2, StatementKeeps DEF InsertSpeaker
  <2>2. OpInv' /\ NamesInv'
    BY <2>1 DEF IInv, OpInv, NamesInv, SpeakersIn, NewName
  <2>3. mine = db[op.id]
    BY <2>1, <1>1 DEF IInv, MineInv
  <2>4. /\ tx'[op.id].name = op.name /\ tx'[op.id].count = 1
        /\ tx'[op.id].spread = <<>> /\ tx'[op.id].samples = db[op.id].samples
    BY <2>1, <2>3, <1>1 DEF Row
  <2> QED BY <2>1, <2>2, <2>4 DEF MineInv
<1>3. CASE InsertFirstSample
  <2>1. /\ pc = "add_sample" /\ pc' = "add_avg"
        /\ tx'[op.id] = [mine EXCEPT !.samples = Append(mine.samples, op.emb)]
        /\ UNCHANGED <<op, db, vecLoaded, legacy, deleted, renamed>>
    BY <1>3, StatementKeeps DEF InsertFirstSample
  <2>2. OpInv' /\ NamesInv'
    BY <2>1 DEF IInv, OpInv, NamesInv, SpeakersIn, NewName
  <2>3. /\ tx'[op.id].name = mine.name /\ tx'[op.id].count = mine.count
        /\ tx'[op.id].spread = mine.spread
        /\ tx'[op.id].samples = Append(mine.samples, op.emb)
    BY <2>1, <1>1 DEF Row
  <2> QED BY <1>1, <2>1, <2>2, <2>3 DEF IInv, MineInv, Extended
<1>4. CASE InsertAvg
  <2>1. /\ pc = "add_avg" /\ pc' = ThenVec
        /\ tx'[op.id] = [mine EXCEPT !.avg = <<op.emb>>]
        /\ UNCHANGED <<op, db, vecLoaded, legacy, deleted, renamed>>
    BY <1>4, StatementKeeps DEF InsertAvg, ThenVec
  <2>2. OpInv' /\ NamesInv'
    BY <2>1 DEF IInv, OpInv, NamesInv, SpeakersIn, NewName, ThenVec
  <2>3. /\ op.id \in Id /\ op.id \notin SpeakersIn(db)
        /\ op.name \in Name /\ op.emb \in Emb
    BY <2>1, <1>1 DEF IInv, OpInv
  <2>4. /\ tx'[op.id].name = op.name /\ tx'[op.id].count = 1
        /\ tx'[op.id].spread = <<>> /\ tx'[op.id].avg = <<op.emb>>
        /\ tx'[op.id].samples = mine.samples
        /\ mine.samples = Append(db[op.id].samples, op.emb)
    BY <2>1, <1>1 DEF Row, IInv, MineInv, Extended
  <2>5. db[op.id].samples = <<>>
    BY <2>3 DEF IInv, EvidenceAgrees
  <2>6. mine.samples = <<op.emb>>
    BY <2>4, <2>5
  <2>7. SpreadOf(<<op.emb>>) = <<>>
    <3>1. {k \in DOMAIN <<op.emb>> : <<op.emb>>[k] \notin Silent} \in {{}, {1}}
      OBVIOUS
    <3>2. Cardinality({}) = 0 /\ Cardinality({1}) = 1
      BY FS_EmptySet, FS_Singleton
    <3> QED BY <3>1, <3>2 DEF SpreadOf
  <2>8. pc' \in {"upsert_vec", "commit_enroll"} /\ (pc' = "upsert_vec" <=> vecLoaded')
    BY <2>1 DEF ThenVec
  <2>9. /\ tx'[op.id].samples = <<op.emb>> /\ tx'[op.id].avg = <<op.emb>>
        /\ tx'[op.id].count = Len(<<op.emb>>)
        /\ tx'[op.id].spread = SpreadOf(<<op.emb>>)
    BY <2>4, <2>6, <2>7
  <2>10. Extended' /\ op.id \notin SpeakersIn(db)' /\ op.name \in Name
    BY <2>1, <2>3, <2>4 DEF Extended, SpeakersIn
  <2>11. ~(pc' = "commit_enroll" /\ vecLoaded')
    BY <2>8
  <2> QED BY <2>1, <2>2, <2>4, <2>8, <2>9, <2>10, <2>11 DEF MineInv
<1> QED BY <1>2, <1>3, <1>4

LEMMA UpdateKeeps ==
  ASSUME IInv, InsertSample \/ ReplaceAvg \/ UpdateRow \/ UpsertVec
  PROVE  OpInv' /\ MineInv' /\ NamesInv'
<1> USE DEF Serving, Adding, Updating, Ending
<1>1. mine \in Row /\ op.id \in Id /\ db[op.id] \in Row /\ mine = tx[op.id]
  BY MineType DEF IInv, TypeOK, mine
<1>2. CASE InsertSample
  <2>1. /\ pc = "upd_sample" /\ pc' = "upd_avg"
        /\ tx'[op.id] = [mine EXCEPT !.samples = Append(mine.samples, op.emb)]
        /\ UNCHANGED <<op, db, vecLoaded, legacy, deleted, renamed>>
    BY <1>2, StatementKeeps DEF InsertSample
  <2>2. OpInv' /\ NamesInv'
    BY <2>1 DEF IInv, OpInv, NamesInv, SpeakersIn, NewName
  <2>3. mine = db[op.id]
    BY <2>1, <1>1 DEF IInv, MineInv
  <2>4. /\ tx'[op.id].name = mine.name
        /\ tx'[op.id].samples = Append(mine.samples, op.emb)
    BY <2>1, <1>1 DEF Row
  <2> QED BY <2>1, <2>2, <2>3, <2>4 DEF MineInv, Extended
<1>3. CASE ReplaceAvg
  <2>1. /\ pc = "upd_avg" /\ pc' = "upd_row"
        /\ tx'[op.id] = [mine EXCEPT !.avg = mine.samples]
        /\ UNCHANGED <<op, db, vecLoaded, legacy, deleted, renamed>>
    BY <1>3, StatementKeeps DEF ReplaceAvg
  <2>2. OpInv' /\ NamesInv'
    BY <2>1 DEF IInv, OpInv, NamesInv, SpeakersIn, NewName
  <2>3. /\ tx'[op.id].name = mine.name /\ tx'[op.id].samples = mine.samples
        /\ tx'[op.id].avg = mine.samples
    BY <2>1, <1>1 DEF Row
  <2> QED BY <1>1, <2>1, <2>2, <2>3 DEF IInv, MineInv, Extended
<1>4. CASE UpdateRow
  <2>1. /\ pc = "upd_row" /\ pc' = ThenVec
        /\ tx'[op.id] =
             [mine EXCEPT !.count = Len(mine.samples),
                          !.spread = SpreadOf(mine.samples),
                          !.name = IF op.name = NoName THEN mine.name ELSE op.name]
        /\ UNCHANGED <<op, db, vecLoaded, legacy, deleted, renamed>>
    BY <1>4, StatementKeeps DEF UpdateRow, ThenVec
  <2>2. OpInv' /\ NamesInv'
    BY <2>1 DEF IInv, OpInv, NamesInv, SpeakersIn, NewName, ThenVec
  <2>3. /\ tx'[op.id].name = IF op.name = NoName THEN mine.name ELSE op.name
        /\ tx'[op.id].samples = mine.samples /\ tx'[op.id].avg = mine.avg
        /\ tx'[op.id].count = Len(mine.samples)
        /\ tx'[op.id].spread = SpreadOf(mine.samples)
    BY <2>1, <1>1 DEF Row
  <2>4. op.id \in SpeakersIn(db)
    BY <2>1 DEF IInv, OpInv
  <2>5. pc' \in {"upsert_vec", "commit_enroll"} /\ (pc' = "upsert_vec" <=> vecLoaded')
    BY <2>1 DEF ThenVec
  <2>6. mine.avg = mine.samples /\ mine.name = db[op.id].name /\ Extended
    BY <2>1, <1>1 DEF IInv, MineInv
  <2> QED BY <1>1, <2>1, <2>2, <2>3, <2>4, <2>5, <2>6 DEF MineInv, Extended, SpeakersIn
<1>5. CASE UpsertVec
  <2>1. /\ pc = "upsert_vec" /\ pc' = "commit_enroll"
        /\ tx'[op.id] = [mine EXCEPT !.vec = mine.avg]
        /\ UNCHANGED <<op, db, vecLoaded, legacy, deleted, renamed>>
    BY <1>5, StatementKeeps DEF UpsertVec
  <2>2. OpInv' /\ NamesInv'
    BY <2>1 DEF IInv, OpInv, NamesInv, SpeakersIn, NewName
  <2>3. /\ tx'[op.id].name = mine.name /\ tx'[op.id].samples = mine.samples
        /\ tx'[op.id].avg = mine.avg /\ tx'[op.id].count = mine.count
        /\ tx'[op.id].spread = mine.spread /\ tx'[op.id].vec = mine.avg
    BY <2>1, <1>1 DEF Row
  <2> QED BY <1>1, <2>1, <2>2, <2>3 DEF IInv, MineInv, Extended, SpeakersIn
<1> QED BY <1>2, <1>3, <1>4, <1>5

LEMMA RemoveKeeps ==
  ASSUME IInv, DeleteVec \/ DeleteRow \/ RenameRow
  PROVE  OpInv' /\ MineInv' /\ NamesInv'
<1> USE DEF Serving, Adding, Updating, Ending
<1>1. mine \in Row /\ op.id \in Id /\ db[op.id] \in Row /\ mine = tx[op.id]
  BY MineType DEF IInv, TypeOK, mine
<1>2. CASE DeleteVec
  <2>1. /\ pc = "del_vec" /\ pc' = "del_row"
        /\ tx'[op.id] = [mine EXCEPT !.vec = <<>>]
        /\ UNCHANGED <<op, db, vecLoaded, legacy, deleted, renamed>>
    BY <1>2, StatementKeeps DEF DeleteVec
  <2>2. OpInv' /\ NamesInv'
    BY <2>1 DEF IInv, OpInv, NamesInv, SpeakersIn, NewName
  <2> QED BY <2>1, <2>2 DEF MineInv
<1>3. CASE DeleteRow
  <2>1. /\ pc = "del_row" /\ pc' = "commit"
        /\ tx'[op.id] = [NoRows EXCEPT !.vec = mine.vec]
        /\ UNCHANGED <<op, db, vecLoaded, legacy, deleted, renamed>>
    BY <1>3, StatementKeeps DEF DeleteRow
  <2>2. OpInv' /\ NamesInv'
    BY <2>1 DEF IInv, OpInv, NamesInv, SpeakersIn, NewName
  <2>3. /\ tx'[op.id].name = NoName /\ tx'[op.id].samples = <<>>
        /\ tx'[op.id].avg = <<>>
    BY <2>1 DEF NoRows
  <2>4. op.id \in SpeakersIn(db)
    BY <2>1 DEF IInv, OpInv
  <2> QED BY <2>1, <2>2, <2>3, <2>4 DEF MineInv, SpeakersIn
<1>4. CASE RenameRow
  <2>1. /\ pc = "ren_row" /\ pc' = "commit"
        /\ tx'[op.id] = [mine EXCEPT !.name = op.name]
        /\ UNCHANGED <<op, db, vecLoaded, legacy, deleted, renamed>>
    BY <1>4, StatementKeeps DEF RenameRow
  <2>2. OpInv' /\ NamesInv'
    BY <2>1 DEF IInv, OpInv, NamesInv, SpeakersIn, NewName
  <2>3. op.id \in SpeakersIn(db) /\ op.name \in Name /\ mine = db[op.id]
    BY <2>1, <1>1 DEF IInv, OpInv, MineInv
  <2> QED BY <2>1, <2>2, <2>3 DEF MineInv, SpeakersIn
<1> QED BY <1>2, <1>3, <1>4

-----------------------------------------------------------------------------
(* The start of the process, and its end.                                  *)

LEMMA StartKeeps == ASSUME IInv, Start PROVE IInv'
<1> USE DEF Serving, Adding, Updating, Ending
<1>1. /\ pc = "down" /\ pc' \in {"import", "idle"}
      /\ UNCHANGED <<op, db, tx, index, legacy, lagging, touched, deleted,
                     renamed, halfway>>
  BY DEF Start, history
<1>2. TypeOK'
  BY StepTypes DEF Next, IInv
<1>3. OpInv' /\ OthersInv' /\ MineInv' /\ NotifyInv'
  BY <1>1 DEF OpInv, OthersInv, MineInv, NotifyInv
<1>4. EvidenceAgrees' /\ VecInv'
  BY <1>1 DEF IInv, EvidenceAgrees, VecInv, SpeakersIn
<1>5. NamesInv' /\ DeletedInv'
  BY <1>1 DEF IInv, NamesInv, DeletedInv, SpeakersIn, NewName
<1>6. ImportInv'
  <2> SUFFICES ASSUME pc' = "import" PROVE ImportInv'
    BY DEF ImportInv
  <2>1. index /\ SpeakersIn(db) = {} /\ todo' = {i \in Id : legacy[i].name # NoName}
    BY <1>1 DEF Start, MustImport
  <2>2. tx = db
    BY <1>1 DEF IInv, TypeOK
  <2>3. \A i \in Id : db[i].name = NoName /\ db[i].samples = <<>> /\ db[i].avg = <<>>
    BY <2>1 DEF IInv, EvidenceAgrees, SpeakersIn
  <2> QED BY <1>1, <2>1, <2>2, <2>3 DEF ImportInv, SpeakersIn
<1> QED BY <1>2, <1>3, <1>4, <1>5, <1>6 DEF IInv

LEMMA ImportOneKeeps == ASSUME IInv, NEW i \in Id, ImportOne(i) PROVE IInv'
<1> USE DEF Serving, Adding, Updating, Ending
<1>1. /\ pc = "import" /\ pc' = "import" /\ i \in todo /\ todo' = todo \ {i}
      /\ UNCHANGED <<op, db, vecLoaded, index, legacy, lagging, touched, deleted,
                     renamed, halfway>>
  BY DEF ImportOne, history
<1>2. TypeOK'
  BY StepTypes DEF Next, IInv
<1>3. OpInv' /\ OthersInv' /\ MineInv' /\ NotifyInv'
  BY <1>1 DEF OpInv, OthersInv, MineInv, NotifyInv
<1>4. EvidenceAgrees' /\ VecInv'
  BY <1>1 DEF IInv, EvidenceAgrees, VecInv, SpeakersIn
<1>5. NamesInv' /\ DeletedInv'
  BY <1>1 DEF IInv, NamesInv, DeletedInv, SpeakersIn, NewName
<1>6. ImportInv'
  <2>1. legacy[i].name # NoName
    BY <1>1 DEF IInv, ImportInv
  <2>2. tx \in [Id -> Row] /\ SpeakersIn(db)' = {} /\ \A j \in todo' : legacy'[j].name # NoName
    BY <1>1 DEF IInv, ImportInv, SpeakersIn, TypeOK
  <2>3. CASE legacy[i].avg = <<>>
    BY <1>1, <2>2, <2>3 DEF ImportOne, IInv, ImportInv
  <2>4. CASE legacy[i].avg # <<>>
    <3>1. /\ tx'[i].name = legacy[i].name /\ tx'[i].avg = legacy[i].avg
          /\ vecLoaded => tx'[i].vec = legacy[i].avg
          /\ \A j \in Id \ {i} : tx'[j] = tx[j]
      BY <2>2, <2>4 DEF ImportOne
    <3> QED BY <1>1, <2>1, <2>2, <2>4, <3>1 DEF IInv, ImportInv
  <2> QED BY <2>3, <2>4
<1> QED BY <1>2, <1>3, <1>4, <1>5, <1>6 DEF IInv

LEMMA ImportCommitKeeps == ASSUME IInv, ImportCommit PROVE IInv'
<1>1. /\ pc = "import" /\ pc' = "imported" /\ db' = tx
      /\ UNCHANGED <<legacy, index, deleted, renamed, halfway, vecLoaded>>
      /\ touched' = touched \ SpeakersIn(tx)
  BY DEF ImportCommit, boot
<1>2. /\ index /\ SpeakersIn(db) = {}
      /\ \A i \in Id :
            IF tx[i].name # NoName
              THEN /\ legacy[i].name # NoName
                   /\ tx[i].avg # <<>>
                   /\ vecLoaded => tx[i].vec = tx[i].avg
              ELSE tx[i].samples = <<>> /\ tx[i].avg = <<>>
  BY <1>1 DEF IInv, ImportInv
<1>3. TypeOK'
  BY StepTypes DEF Next, IInv
<1>4. OpInv' /\ OthersInv' /\ MineInv' /\ ImportInv' /\ NotifyInv'
  BY <1>1 DEF OpInv, OthersInv, MineInv, ImportInv, NotifyInv, Serving, Adding,
     Updating, Ending
<1>5. EvidenceAgrees'
  BY <1>1, <1>2 DEF EvidenceAgrees, SpeakersIn
<1>6. VecInv'
  BY <1>1, <1>2 DEF ImportCommit, VecInv, SpeakersIn
<1>7. NamesInv'
  BY <1>1, <1>2 DEF NamesInv, SpeakersIn, Adding, Ending
<1>8. DeletedInv'
  BY <1>1, <1>2 DEF IInv, DeletedInv, SpeakersIn
<1> QED BY <1>3, <1>4, <1>5, <1>6, <1>7, <1>8 DEF IInv

(* Steps that end at a quiet point with the committed rows as they were.   *)
LEMMA BackToQuiet ==
  ASSUME IInv, TypeOK', pc' \in {"down", "idle"},
         UNCHANGED <<db, legacy, lagging, touched, deleted, renamed>>,
         index' => index,
         halfway' = (halfway \/ (pc = "imported" /\ index'))
  PROVE  IInv'
<1>1. OpInv' /\ OthersInv' /\ MineInv' /\ ImportInv' /\ NotifyInv'
  BY DEF OpInv, OthersInv, MineInv, ImportInv, NotifyInv, Serving, Adding,
     Updating, Ending
<1>2. EvidenceAgrees' /\ VecInv'
  BY DEF IInv, EvidenceAgrees, VecInv, SpeakersIn
<1>3. NamesInv'
  BY DEF IInv, NamesInv, SpeakersIn, NewName, Adding, Ending
<1>4. DeletedInv'
  BY DEF IInv, DeletedInv, SpeakersIn
<1> QED BY <1>1, <1>2, <1>3, <1>4 DEF IInv

LEMMA QuietSteps ==
  ASSUME IInv, RenameIndex \/ StartFails \/ StatementFails \/ Crash \/ Notify
  PROVE  IInv'
<1>1. TypeOK'
  BY StepTypes DEF Next, IInv
<1>2. /\ pc' \in {"down", "idle"} /\ (index' => index)
      /\ UNCHANGED <<db, legacy, lagging, touched, deleted, renamed>>
  BY DEF RenameIndex, StartFails, StatementFails, Crash, Notify, boot, history, IInv, TypeOK
<1>3. pc = "imported" => index
  BY DEF IInv, DeletedInv
<1>4. halfway' = (halfway \/ (pc = "imported" /\ index'))
  BY <1>3 DEF RenameIndex, StartFails, StatementFails, Crash, Notify, boot, history,
     Serving, IInv, TypeOK
<1> QED BY <1>1, <1>2, <1>4, BackToQuiet

-----------------------------------------------------------------------------
(* A request begins, and is committed.                                     *)

LEMMA BeginKeeps ==
  ASSUME IInv, TypeOK', pc = "idle",
         NEW first \in {"upd_sample", "add_speaker", "del_vec", "del_row", "ren_row"},
         NEW i \in Id, NEW n \in Name \cup {NoName}, NEW e \in Emb \cup {NoEmb},
         Begin(first, i, n, e),
         first \in {"upd_sample", "add_speaker"} => e \in Emb,
         first \in {"add_speaker", "ren_row"} => n \in Name,
         first # "add_speaker" => i \in SpeakersIn(db),
         first = "add_speaker" =>
           /\ i \notin SpeakersIn(db) \cup deleted
           /\ NewName(n, i) /\ legacy[i].name = NoName
  PROVE  IInv'
<1> USE DEF Serving, Adding, Updating, Ending
<1>1. /\ pc' = first /\ op' = [id |-> i, name |-> n, emb |-> e]
      /\ UNCHANGED <<db, tx, vecLoaded, legacy, index, lagging, touched, deleted,
                     renamed, halfway>>
  BY DEF Begin, boot, history
<1>2. op'.id = i /\ op'.name = n /\ op'.emb = e
  BY <1>1
<1>3. tx = db
  BY DEF IInv, TypeOK
<1>4. OpInv'
  BY <1>1, <1>2 DEF OpInv, SpeakersIn
<1>5. OthersInv' /\ MineInv' /\ ImportInv' /\ NotifyInv'
  BY <1>1, <1>2, <1>3 DEF OthersInv, MineInv, ImportInv, NotifyInv
<1>6. EvidenceAgrees' /\ VecInv'
  BY <1>1 DEF IInv, EvidenceAgrees, VecInv, SpeakersIn
<1>7. NamesInv'
  BY <1>1, <1>2 DEF IInv, NamesInv, SpeakersIn, NewName
<1>8. DeletedInv'
  BY <1>1 DEF IInv, DeletedInv, SpeakersIn
<1> QED BY <1>4, <1>5, <1>6, <1>7, <1>8 DEF IInv

LEMMA RequestKeeps == ASSUME IInv, Request PROVE IInv'
<1>1. TypeOK'
  BY StepTypes DEF Next, IInv
<1>2. ASSUME NEW i \in Id, NEW n \in Name, NEW e \in Emb,
             EnrollById(i, n, e) \/ EnrollNamesake(i, n, e)
      PROVE  IInv'
  <2>1. ASSUME NEW m \in Name \cup {NoName}, Begin("upd_sample", i, m, e),
               i \in SpeakersIn(db), pc = "idle"
        PROVE  IInv'
    BY <1>1, <2>1, BeginKeeps
  <2> QED BY <1>2, <2>1 DEF EnrollById, EnrollNamesake, Namesakes
<1>3. ASSUME NEW i \in Id, NEW n \in Name, NEW e \in Emb, EnrollNew(i, n, e)
      PROVE  IInv'
  <2>1. /\ pc = "idle" /\ Begin("add_speaker", i, n, e)
        /\ i \notin SpeakersIn(db) \cup deleted
        /\ NewName(n, i) /\ legacy[i].name = NoName
    BY <1>3 DEF EnrollNew, Namesakes, NewName
  <2> QED BY <1>1, <2>1, BeginKeeps
<1>4. ASSUME NEW i \in Id, DeleteSpeaker(i) PROVE IInv'
  <2>1. ASSUME NEW f \in {"del_vec", "del_row"}, Begin(f, i, NoName, NoEmb)
        PROVE  IInv'
    BY <1>1, <1>4, <2>1, BeginKeeps DEF DeleteSpeaker
  <2> QED BY <1>4, <2>1 DEF DeleteSpeaker
<1>5. ASSUME NEW i \in Id, NEW n \in Name, RenameSpeaker(i, n) PROVE IInv'
  <2>1. pc = "idle" /\ i \in SpeakersIn(db) /\ Begin("ren_row", i, n, NoEmb)
    BY <1>5 DEF RenameSpeaker
  <2> QED BY <1>1, <2>1, BeginKeeps
<1> QED BY <1>2, <1>3, <1>4, <1>5 DEF Request

(* What the two commits write, row by row.                                 *)
LEMMA Committing ==
  ASSUME IInv, pc \in {"commit_enroll", "commit"}, db' = tx
  PROVE  /\ op.id \in Id
         /\ \A i \in Id \ {op.id} : db'[i] = db[i]
         /\ db'[op.id] = tx[op.id]
         /\ pc = "commit_enroll" =>
              /\ db'[op.id].name \in Name
              /\ db'[op.id].name # NoName
              /\ db'[op.id].samples = Append(db[op.id].samples, op.emb)
              /\ db'[op.id].count = Len(db'[op.id].samples)
              /\ db'[op.id].avg = db'[op.id].samples
              /\ db'[op.id].spread = SpreadOf(db'[op.id].samples)
              /\ vecLoaded => db'[op.id].vec = db'[op.id].avg
              /\ IF op.id \in SpeakersIn(db)
                   THEN db'[op.id].name = IF op.name = NoName THEN db[op.id].name
                                                              ELSE op.name
                   ELSE op.name \in Name /\ db'[op.id].name = op.name
              /\ op.emb \in Emb /\ db[op.id].samples \in Seq(Emb)
<1>1. op.id \in Id /\ db[op.id] \in Row /\ tx[op.id] \in Row
  BY DEF IInv, TypeOK
<1>2. \A i \in Id \ {op.id} : db'[i] = db[i]
  BY DEF IInv, OthersInv, Serving
<1>3. ASSUME pc = "commit_enroll"
      PROVE  op.emb \in Emb /\ op.name \in Name \cup {NoName}
  BY <1>3 DEF IInv, OpInv, TypeOK, Ending
<1>4. ASSUME pc = "commit_enroll"
      PROVE  /\ tx[op.id].name \in Name
             /\ IF op.id \in SpeakersIn(db)
                  THEN tx[op.id].name = IF op.name = NoName THEN db[op.id].name
                                                            ELSE op.name
                  ELSE op.name \in Name /\ tx[op.id].name = op.name
  BY <1>1, <1>3, <1>4 DEF IInv, MineInv, Ending, SpeakersIn, Row
<1> QED BY <1>1, <1>2, <1>3, <1>4, NameAssumption DEF IInv, MineInv, Ending, Extended, Row

LEMMA CommitEnrollKeeps == ASSUME IInv, CommitEnroll PROVE IInv'
<1>1. /\ pc = "commit_enroll" /\ pc' = "notify" /\ db' = tx
      /\ UNCHANGED <<op, vecLoaded, legacy, index, deleted, halfway>>
      /\ lagging' = Lagging(op.id) /\ touched' = touched \cup {op.id}
      /\ renamed' = (renamed \/ (op.id \in SpeakersIn(db) /\ op.name # NoName))
  BY DEF CommitEnroll, boot
<1>2. TypeOK'
  BY StepTypes DEF Next, IInv
<1> DEFINE d == db'[op.id]
<1>3. /\ op.id \in Id
      /\ \A i \in Id \ {op.id} : db'[i] = db[i]
      /\ d.name \in Name /\ d.name # NoName
      /\ d.samples = Append(db[op.id].samples, op.emb)
      /\ d.count = Len(d.samples) /\ d.avg = d.samples
      /\ d.spread = SpreadOf(d.samples)
      /\ vecLoaded => d.vec = d.avg
      /\ IF op.id \in SpeakersIn(db)
           THEN d.name = IF op.name = NoName THEN db[op.id].name ELSE op.name
           ELSE op.name \in Name /\ d.name = op.name
      /\ op.emb \in Emb /\ db[op.id].samples \in Seq(Emb)
  BY <1>1, Committing
<1>4. d.samples # <<>> /\ d.samples[Len(d.samples)] = op.emb
  BY <1>3
<1>5. SpeakersIn(db)' = SpeakersIn(db) \cup {op.id}
  BY <1>3 DEF SpeakersIn
<1> HIDE DEF d
<1>6. OpInv' /\ OthersInv' /\ MineInv' /\ ImportInv'
  BY <1>1, <1>3 DEF OpInv, OthersInv, MineInv, ImportInv, Serving, Adding, Updating, Ending
<1>7. NotifyInv'
  BY <1>1, <1>4, <1>5 DEF NotifyInv, d
<1>8. EvidenceAgrees'
  <2>1. /\ db'[op.id].avg # <<>>
        /\ db'[op.id].count = Len(db'[op.id].samples)
        /\ db'[op.id].avg = db'[op.id].samples
        /\ db'[op.id].spread = SpreadOf(db'[op.id].samples)
    BY <1>3, <1>4 DEF d
  <2>2. ASSUME NEW i \in Id \ {op.id}
        PROVE  /\ db'[i] = db[i]
               /\ (i \in SpeakersIn(db)') = (i \in SpeakersIn(db))
               /\ (i \in touched') = (i \in touched)
    <3>1. db'[i] = db[i]
      BY <1>3
    <3>2. (i \in touched') = (i \in touched)
      BY <1>1
    <3>3. (i \in SpeakersIn(db)') = (i \in SpeakersIn(db))
      BY <1>5
    <3> QED BY <3>1, <3>2, <3>3
  <2> QED BY <1>3, <1>5, <2>1, <2>2 DEF IInv, EvidenceAgrees
<1>9. VecInv'
  <2>1. \A i \in Id \ {op.id} : db'[i] = db[i] /\ (i \in lagging' <=> i \in lagging)
    BY <1>1, <1>3 DEF Lagging
  <2>2. op.id \notin lagging' => db'[op.id].vec = db'[op.id].avg
    BY <1>1, <1>3 DEF Lagging, d
  <2>3. SpeakersIn(db) \subseteq Id
    BY DEF SpeakersIn
  <2> QED BY <1>5, <2>1, <2>2, <2>3 DEF IInv, VecInv
<1>10. NamesInv'
  <2>1. ASSUME ~renamed', NEW i \in SpeakersIn(db)', legacy[i].name = NoName
        PROVE  NewName(db[i].name, i)'
    <3>1. \A k \in SpeakersIn(db) : k \in Id /\ db'[k].name = db[k].name
      <4>1. op.id \in SpeakersIn(db) => d.name = db[op.id].name
        BY <1>1, <1>3, <2>1
      <4> QED BY <1>3, <4>1 DEF SpeakersIn, d
    <3>2. CASE op.id \in SpeakersIn(db)
      <4>1. SpeakersIn(db)' = SpeakersIn(db) /\ ~renamed
        BY <1>1, <1>5, <2>1, <3>2
      <4>2. NewName(db[i].name, i)
        BY <2>1, <4>1, <3>1 DEF IInv, NamesInv
      <4> QED BY <2>1, <3>1, <4>1, <4>2 DEF NewName
    <3>3. CASE op.id \notin SpeakersIn(db)
      <4>1. NewName(op.name, op.id) /\ db'[op.id].name = op.name
        BY <1>1, <1>3, <3>3 DEF IInv, NamesInv, Ending, d
      <4>2. CASE i = op.id
        BY <1>3, <1>5, <3>1, <4>1, <4>2 DEF NewName
      <4>3. CASE i # op.id
        <5>1. i \in SpeakersIn(db) /\ ~renamed
          BY <1>1, <1>5, <2>1, <4>3
        <5>2. NewName(db[i].name, i)
          BY <2>1, <5>1 DEF IInv, NamesInv
        <5>3. Fold[db[i].name] # Fold[op.name]
          BY <4>1, <4>3, <5>1 DEF NewName
        <5> QED BY <1>5, <3>1, <4>1, <5>1, <5>2, <5>3 DEF NewName
      <4> QED BY <4>2, <4>3
    <3> QED BY <3>2, <3>3
  <2> QED BY <1>1, <2>1 DEF NamesInv, Adding, Ending
<1>11. DeletedInv'
  <2>1. op.id \notin SpeakersIn(db) => legacy[op.id].name = NoName /\ op.id \notin deleted
    BY <1>1 DEF IInv, NamesInv, Ending
  <2> QED BY <1>1, <1>5, <2>1 DEF IInv, DeletedInv
<1> QED BY <1>2, <1>6, <1>7, <1>8, <1>9, <1>10, <1>11 DEF IInv

LEMMA CommitKeeps == ASSUME IInv, Commit PROVE IInv'
<1>1. /\ pc = "commit" /\ pc' = "idle" /\ db' = tx
      /\ UNCHANGED <<vecLoaded, legacy, index, halfway>>
  BY DEF Commit, boot
<1>2. TypeOK'
  BY StepTypes DEF Next, IInv
<1>3. op.id \in Id /\ (\A i \in Id \ {op.id} : db'[i] = db[i]) /\ db'[op.id] = tx[op.id]
  BY <1>1, Committing
<1>4. op.id \in SpeakersIn(db) /\ db[op.id] \in Row
  BY <1>1 DEF IInv, MineInv, TypeOK
<1>5. OpInv' /\ OthersInv' /\ MineInv' /\ ImportInv' /\ NotifyInv'
  BY <1>1 DEF OpInv, OthersInv, MineInv, ImportInv, NotifyInv, Serving, Adding,
     Updating, Ending
<1>6. CASE op.id \in SpeakersIn(tx)
  <2>1. renamed' = TRUE /\ UNCHANGED <<lagging, touched, deleted>>
    BY <1>6 DEF Commit
  <2>2. op.name \in Name /\ tx[op.id] = [db[op.id] EXCEPT !.name = op.name]
    BY <1>1, <1>6 DEF IInv, MineInv, SpeakersIn
  <2>3. /\ db'[op.id].samples = db[op.id].samples /\ db'[op.id].avg = db[op.id].avg
        /\ db'[op.id].count = db[op.id].count /\ db'[op.id].vec = db[op.id].vec
        /\ db'[op.id].spread = db[op.id].spread
    BY <1>3, <1>4, <2>2 DEF Row
  <2>4. SpeakersIn(db)' = SpeakersIn(db)
    BY <1>1, <1>3, <1>4, <1>6 DEF SpeakersIn
  <2>5. EvidenceAgrees' /\ VecInv'
    <3>1. \A i \in Id :
            /\ db'[i].samples = db[i].samples /\ db'[i].avg = db[i].avg
            /\ db'[i].count = db[i].count /\ db'[i].vec = db[i].vec
            /\ db'[i].spread = db[i].spread
      BY <1>3, <2>3
    <3>2. SpeakersIn(db) \subseteq Id
      BY DEF SpeakersIn
    <3>3. EvidenceAgrees'
      BY <2>1, <2>4, <3>1 DEF IInv, EvidenceAgrees
    <3>4. VecInv'
      BY <2>1, <2>4, <3>1, <3>2 DEF IInv, VecInv
    <3> QED BY <3>3, <3>4
  <2>6. NamesInv' /\ DeletedInv'
    BY <1>1, <2>1, <2>4 DEF IInv, NamesInv, DeletedInv, Adding, Ending
  <2> QED BY <1>2, <1>5, <2>5, <2>6 DEF IInv
<1>7. CASE op.id \notin SpeakersIn(tx)
  <2>1. /\ lagging' = Lagging(op.id) /\ touched' = touched \ {op.id}
        /\ deleted' = deleted \cup {op.id} /\ renamed' = renamed
    BY <1>7 DEF Commit
  <2>2. tx[op.id].samples = <<>> /\ tx[op.id].avg = <<>>
    BY <1>1, <1>3, <1>7, NameAssumption DEF IInv, MineInv, SpeakersIn, Row, TypeOK
  <2>3. SpeakersIn(db)' = SpeakersIn(db) \ {op.id}
    BY <1>1, <1>3, <1>7 DEF SpeakersIn
  <2>4. \A i \in SpeakersIn(db)' : i \in Id \ {op.id} /\ db'[i] = db[i]
    BY <1>3, <2>3 DEF SpeakersIn
  <2>5. EvidenceAgrees'
    BY <1>3, <2>1, <2>2, <2>3 DEF IInv, EvidenceAgrees
  <2>6. VecInv'
    BY <2>1, <2>3, <2>4 DEF IInv, VecInv, Lagging
  <2>7. NamesInv'
    BY <1>1, <2>1, <2>3, <2>4 DEF IInv, NamesInv, NewName, Adding, Ending
  <2>8. DeletedInv'
    BY <1>1, <1>4, <2>1, <2>3, <2>4 DEF IInv, DeletedInv
  <2> QED BY <1>2, <1>5, <2>5, <2>6, <2>7, <2>8 DEF IInv
<1> QED BY <1>6, <1>7

-----------------------------------------------------------------------------
(* The inductive invariant, and what follows from it.                      *)

LEMMA InitHolds == Init => IInv
<1> SUFFICES ASSUME Init PROVE IInv
  OBVIOUS
<1>1. /\ pc = "down" /\ SpeakersIn(db) = {} /\ lagging = {} /\ deleted = {}
      /\ \A i \in Id : db[i].samples = <<>> /\ db[i].avg = <<>>
  BY DEF Init, SpeakersIn, NoRows
<1>2. OpInv /\ OthersInv /\ MineInv /\ ImportInv /\ NotifyInv
  BY <1>1 DEF OpInv, OthersInv, MineInv, ImportInv, NotifyInv, Serving, Adding,
     Updating, Ending
<1>3. EvidenceAgrees /\ VecInv /\ NamesInv /\ DeletedInv
  BY <1>1 DEF EvidenceAgrees, VecInv, NamesInv, DeletedInv, Adding, Ending
<1> QED BY <1>2, <1>3, InitTypes DEF IInv

LEMMA StatementTransactionKeeps ==
  ASSUME IInv,
         \/ InsertSpeaker \/ InsertFirstSample \/ InsertAvg
         \/ InsertSample \/ ReplaceAvg \/ UpdateRow \/ UpsertVec
         \/ DeleteVec \/ DeleteRow \/ RenameRow
  PROVE  IInv'
<1>1. TypeOK'
  BY StepTypes DEF Next, IInv
<1>2. OpInv' /\ MineInv' /\ NamesInv'
  BY AddKeeps, UpdateKeeps, RemoveKeeps
<1>3. OthersInv' /\ ImportInv' /\ EvidenceAgrees' /\ VecInv' /\ DeletedInv' /\ NotifyInv'
  <2>1. ASSUME NEW here \in Serving, NEW next \in Serving, NEW row,
               Statement(here, next, row)
        PROVE  /\ OthersInv' /\ ImportInv' /\ EvidenceAgrees' /\ VecInv'
               /\ DeletedInv' /\ NotifyInv'
    BY <2>1, StatementKeeps
  <2>2. \E here \in Serving, next \in Serving, row \in {tx'[op.id]} : Statement(here, next, row)
    <3>1. tx \in [Id -> Row] /\ op.id \in Id
      BY DEF IInv, TypeOK
    <3>2. ASSUME NEW here, NEW next, NEW row, Statement(here, next, row)
          PROVE  tx'[op.id] = row
      BY <3>1, <3>2 DEF Statement
    <3> QED
      BY <3>2 DEF InsertSpeaker, InsertFirstSample, InsertAvg, InsertSample, ReplaceAvg,
         UpdateRow, UpsertVec, DeleteVec, DeleteRow, RenameRow, ThenVec, Serving
  <2> QED BY <2>1, <2>2
<1> QED BY <1>1, <1>2, <1>3 DEF IInv

LEMMA StepHolds == IInv /\ [Next]_vars => IInv'
<1> SUFFICES ASSUME IInv, [Next]_vars PROVE IInv'
  OBVIOUS
<1>1. CASE UNCHANGED vars
  <2>1. TypeOK'
    BY StepTypes DEF IInv
  <2>2. SpeakersIn(db)' = SpeakersIn(db)
    BY <1>1 DEF vars, SpeakersIn
  <2>3. OpInv' /\ OthersInv' /\ MineInv' /\ ImportInv'
    BY <1>1, <2>2 DEF vars, boot, IInv, OpInv, OthersInv, MineInv, ImportInv, Extended
  <2>4. EvidenceAgrees' /\ VecInv'
    BY <1>1, <2>2 DEF vars, boot, history, IInv, EvidenceAgrees, VecInv
  <2>5. NamesInv' /\ DeletedInv' /\ NotifyInv'
    BY <1>1, <2>2 DEF vars, boot, history, IInv, NamesInv, NewName, DeletedInv, NotifyInv
  <2> QED BY <2>1, <2>3, <2>4, <2>5 DEF IInv
<1> QED
  BY <1>1, StartKeeps, ImportOneKeeps, ImportCommitKeeps, QuietSteps, RequestKeeps,
     CommitEnrollKeeps, CommitKeeps, StatementTransactionKeeps DEF Next

(* The inductive invariant holds in every reachable state of the store:    *)
(* with the properties below, how far a transaction has come.              *)
THEOREM Invariance == Spec => []IInv
BY InitHolds, StepHolds, PTL DEF Spec

(* Types; between transactions the connection sees the committed rows.     *)
THEOREM TypeCorrect == Spec => []TypeOK
<1>1. IInv => TypeOK
  BY DEF IInv
<1> QED BY <1>1, Invariance, PTL

(* The count, average and spread of a speaker are those of its samples,    *)
(* whichever statement fails and wherever the process dies.                *)
THEOREM EvidenceIsConsistent == Spec => []EvidenceAgrees
<1>1. IInv => EvidenceAgrees
  BY DEF IInv
<1> QED BY <1>1, Invariance, PTL

(* Nearest-neighbour search compares with the current average of every     *)
(* speaker that was last written with the extension loaded.                *)
THEOREM SearchFollowsWrites == Spec => []SearchIsCurrent
<1>1. IInv => SearchIsCurrent
  BY DEF IInv, SearchIsCurrent, SearchedAs, VecInv, EvidenceAgrees
<1> QED BY <1>1, Invariance, PTL

(* Without a rename two speakers never share a name unless the legacy      *)
(* store held them.                                                        *)
THEOREM NamesStayDistinct == Spec => []NamesDistinct
<1>1. IInv => NamesDistinct
  BY DEF IInv, NamesDistinct, NamesInv, NewName
<1> QED BY <1>1, Invariance, PTL

(* A deleted speaker is not imported again unless a start was cut off      *)
(* between the import and the renaming of index.json.                      *)
THEOREM DeletionIsFinal == Spec => []DeletedStaysDeleted
<1>1. IInv => DeletedStaysDeleted
  BY DEF IInv, DeletedStaysDeleted, DeletedInv
<1> QED BY <1>1, Invariance, PTL

(* on_enroll is called after the sample it reports is committed.           *)
THEOREM StaleOnceStored == Spec => CountedOnceStored
<1> DEFINE A == generation' > generation =>
                  /\ op.id \in SpeakersIn(db)
                  /\ db[op.id].samples # <<>>
                  /\ db[op.id].samples[Len(db[op.id].samples)] = op.emb
<1>1. ASSUME IInv, [Next]_vars PROVE [A]_vars
  <2>1. CASE Notify
    BY <1>1, <2>1 DEF IInv, NotifyInv, Notify
  <2>2. CASE ~Notify
    <3>1. generation \in Nat
      BY <1>1 DEF IInv, TypeOK
    <3>2. generation' \in {generation, 0}
      BY <1>1, <2>2 DEF Next, Start, ImportCommit, RenameIndex, StartFails, ImportOne,
         Request, EnrollById, EnrollNamesake, EnrollNew, DeleteSpeaker, RenameSpeaker,
         Begin, InsertSpeaker, InsertFirstSample, InsertAvg, InsertSample, ReplaceAvg,
         UpdateRow, UpsertVec, DeleteVec, DeleteRow, RenameRow, Statement, CommitEnroll,
         Commit, StatementFails, Crash, vars
    <3> QED BY <3>1, <3>2
  <2> QED BY <2>1, <2>2
<1> QED BY <1>1, Invariance, PTL DEF Spec, CountedOnceStored

-----------------------------------------------------------------------------
(* The store implements the speaker book.                                  *)

BookOf(d) == [i \in Id |-> [name |-> d[i].name, samples |-> d[i].samples]]

LEMMA InitBook == Init => Book!Init
BY DEF Init, Book!Init, Book!Nobody, NoRows

(* One entry of the book changed as one of its operations changes it.      *)
EntryIs(i, n, s) ==
  BookOf(db') = [BookOf(db) EXCEPT ![i] = [name |-> n, samples |-> s]]

(* Rows that differ in one speaker only make a book that does too.         *)
LEMMA OneEntry ==
  ASSUME NEW i \in Id, \A j \in Id \ {i} : db'[j] = db[j],
         NEW n, NEW s, db'[i].name = n, db'[i].samples = s
  PROVE  EntryIs(i, n, s)
BY DEF BookOf, EntryIs

LEMMA BookRenames ==
  ASSUME NEW i \in SpeakersIn(db), NEW n \in Name, EntryIs(i, n, db[i].samples)
  PROVE  Book!Next
<1>1. i \in Id /\ i \in Book!Enrolled
  BY DEF Book!Enrolled, SpeakersIn
<1>2. Book!Rename(i, n)
  BY <1>1 DEF Book!Rename, BookOf, EntryIs
<1> QED BY <1>1, <1>2 DEF Book!Next

LEMMA BookDeletes ==
  ASSUME NEW i \in SpeakersIn(db), EntryIs(i, NoName, <<>>)
  PROVE  Book!Next
<1>1. i \in Id /\ i \in Book!Enrolled
  BY DEF Book!Enrolled, SpeakersIn
<1>2. Book!Delete(i)
  BY <1>1 DEF Book!Delete, Book!Nobody, BookOf, EntryIs
<1> QED BY <1>1, <1>2 DEF Book!Next

LEMMA BookUpdates ==
  ASSUME NEW i \in SpeakersIn(db), NEW n \in Name, NEW e \in Emb,
         EntryIs(i, n, Append(db[i].samples, e))
  PROVE  Book!Next
<1>1. i \in Id /\ i \in Book!Enrolled
  BY DEF Book!Enrolled, SpeakersIn
<1>2. BookOf(db)[i].samples = db[i].samples
  BY <1>1 DEF BookOf
<1>3. Book!Update(i, n, e)
  BY <1>1, <1>2 DEF Book!Update, BookOf, EntryIs
<1> QED BY <1>1, <1>3 DEF Book!Next

LEMMA BookEnrolls ==
  ASSUME NEW i \in Id \ SpeakersIn(db), NEW n \in Name, NEW e \in Emb,
         EntryIs(i, n, <<e>>)
  PROVE  Book!Next
<1>1. i \in Id /\ i \notin Book!Enrolled
  BY DEF Book!Enrolled, SpeakersIn
<1>2. Book!Enroll(i, n, e)
  BY <1>1 DEF Book!Enroll, BookOf, EntryIs
<1> QED BY <1>1, <1>2 DEF Book!Next

LEMMA BookStep ==
  ASSUME IInv, IInv', [Next]_vars
  PROVE  Book!Next \/ BookOf(db') = BookOf(db)
<1>1. CASE db' = db
  BY <1>1 DEF BookOf
<1>2. CASE ImportCommit
  <2>1. SpeakersIn(db) = {}
    BY <1>2 DEF ImportCommit, IInv, ImportInv
  <2>2. Book!Enrolled = {}
    BY <2>1 DEF Book!Enrolled, SpeakersIn
  <2>3. ASSUME NEW i \in Id, BookOf(db')[i] # Book!Nobody
        PROVE  BookOf(db')[i].name \in Name
    <3>1. db'[i] \in Row
      BY DEF IInv, TypeOK
    <3>2. db'[i].name # NoName
      BY <2>3 DEF IInv, EvidenceAgrees, SpeakersIn, BookOf, Book!Nobody
    <3> QED BY <3>1, <3>2 DEF Row, BookOf
  <2> QED BY <2>2, <2>3 DEF Book!Next, Book!Import, BookOf
<1>3. CASE CommitEnroll
  <2>1. db' = tx /\ pc = "commit_enroll"
    BY <1>3 DEF CommitEnroll
  <2>2. /\ op.id \in Id /\ op.emb \in Emb
        /\ \A i \in Id \ {op.id} : db'[i] = db[i]
        /\ db'[op.id].name \in Name
        /\ db'[op.id].samples = Append(db[op.id].samples, op.emb)
    BY <2>1, Committing
  <2>3. EntryIs(op.id, db'[op.id].name, Append(db[op.id].samples, op.emb))
    BY <2>2, OneEntry
  <2>4. CASE op.id \in SpeakersIn(db)
    BY <2>2, <2>3, <2>4, BookUpdates
  <2>5. CASE op.id \notin SpeakersIn(db)
    <3>1. Append(db[op.id].samples, op.emb) = <<op.emb>>
      <4>1. db[op.id].samples = <<>>
        BY <2>2, <2>5 DEF IInv, EvidenceAgrees
      <4> QED BY <4>1
    <3> QED BY <2>2, <2>3, <2>5, <3>1, BookEnrolls
  <2> QED BY <2>4, <2>5
<1>4. CASE Commit
  <2>1. db' = tx /\ pc = "commit"
    BY <1>4 DEF Commit
  <2>2. op.id \in Id /\ (\A i \in Id \ {op.id} : db'[i] = db[i]) /\ db'[op.id] = tx[op.id]
    BY <2>1, Committing
  <2>3. op.id \in SpeakersIn(db) /\ db[op.id] \in Row
    BY <2>1, <2>2 DEF IInv, MineInv, TypeOK
  <2>4. CASE tx[op.id].name = NoName /\ tx[op.id].samples = <<>>
    <3>1. EntryIs(op.id, NoName, <<>>)
      BY <2>2, <2>4, OneEntry
    <3> QED BY <2>3, <3>1, BookDeletes
  <2>5. CASE op.name \in Name /\ tx[op.id] = [db[op.id] EXCEPT !.name = op.name]
    <3>1. db'[op.id].name = op.name /\ db'[op.id].samples = db[op.id].samples
      BY <2>2, <2>3, <2>5 DEF Row
    <3>2. EntryIs(op.id, op.name, db[op.id].samples) /\ op.name \in Name
      BY <2>2, <2>5, <3>1, OneEntry
    <3> QED BY <2>3, <3>2, BookRenames
  <2> QED BY <2>1, <2>4, <2>5 DEF IInv, MineInv
<1> QED
  BY <1>1, <1>2, <1>3, <1>4 DEF Next, Start, RenameIndex, StartFails, ImportOne,
     Request, EnrollById, EnrollNamesake, EnrollNew, DeleteSpeaker, RenameSpeaker,
     Begin, InsertSpeaker, InsertFirstSample, InsertAvg, InsertSample, ReplaceAvg,
     UpdateRow, UpsertVec, DeleteVec, DeleteRow, RenameRow, Statement, Notify,
     StatementFails, Crash, vars

(* Every request is all or nothing: what is committed changes as the       *)
(* abstract speaker book does, one whole operation at a time.              *)
THEOREM RequestsAreAtomic == Spec => KeepsBook
<1>1. ASSUME IInv, IInv', [Next]_vars
      PROVE  [Book!Next]_([i \in Id |-> [name |-> db[i].name, samples |-> db[i].samples]])
  BY <1>1, BookStep DEF BookOf
<1> QED BY <1>1, InitBook, Invariance, PTL DEF Spec, KeepsBook, Book!Spec
=============================================================================
