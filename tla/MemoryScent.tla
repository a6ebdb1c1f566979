----------------------------- MODULE MemoryScent -----------------------------
(***************************************************************************)
(* One memory and its Scent (embedding): setMemory, the host's embedder    *)
(* behind getMemoriesNeedingEmbedding and setMemoryEmbedding, deleteMemory, *)
(* the memories branch of importBrain, and migrateEmbedDim.                *)
(*                                                                         *)
(* A content stands for its own hash, and a Scent for the content it was   *)
(* computed from.  The embedder takes a content and puts its Scent back    *)
(* later; a migration is a raw transaction of several statements on the    *)
(* one connection, so that other calls come in between and are undone with *)
(* it.  Two Noses differ in their dimension.                               *)
(***************************************************************************)
EXTENDS Integers

CONSTANTS
  Contents,     \* contents, positive numbers
  Noses         \* the dimensions of the Noses, positive numbers

ASSUME ScentAssumption ==
  /\ Contents \subseteq Nat \ {0}
  /\ Noses \subseteq Nat \ {0} /\ Noses # {}

VARIABLES
  row,          \* the memory
  column,       \* the dimension of the embedding column, 0 while it is dropped
  nose,         \* embed_dim in brain_meta
  job,          \* the embedder: the content it has taken, and the Nose it uses
  txn,          \* the migration: its step, and what a ROLLBACK brings back
  stale         \* history: the row went a way on which the code lets go of
                \* what its Scent was computed from

scentVars == <<row, column, nose, job, txn, stale>>

-----------------------------------------------------------------------------

None == 0

Memories == [st: {"absent", "live", "dead"}, content: Contents \union {None},
             hash: Contents \union {None}, scent: Contents \union {None}, at: Nat]

NoMemory == [st |-> "absent", content |-> None, hash |-> None, scent |-> None, at |-> 0]

Live(r) == r.st = "live"

\* Hash and Scent are those of the content, as far as there are any.
Sound(r) == r.hash = r.content /\ r.scent \in {None, r.content}

\* A row keeps its mark until its hash and its Scent are right again.
Marked(r, risk) == (stale \/ risk) /\ ~Sound(r)

NoJob == [content |-> None, nose |-> None]
Jobs == [content: Contents \union {None}, nose: Noses \union {None}]

NoTxn == [at |-> "none", row |-> NoMemory, column |-> None, nose |-> None, stale |-> FALSE,
          new |-> None]

Txns == [at: {"none", "begun", "dropped", "added", "noted"}, row: Memories,
         column: Noses \union {None}, nose: Noses \union {None}, stale: BOOLEAN,
         new: Noses \union {None}]

-----------------------------------------------------------------------------
(* The keyholder and the embedder *)

\* Slip: an edit keeps its vector.
KeptScent_Bug(r, c) == r.scent

\* The CASE of setMemory, which compares hashes and not contents.
KeptScent(r, c) == IF r.hash = c THEN r.scent ELSE None

\* setMemory without an embedding.
Saved(r, c, now) ==
  [st |-> "live", content |-> c, hash |-> c, scent |-> KeptScent(r, c), at |-> now]

SetMemory(c, now) ==
  /\ column # None
  /\ row' = Saved(row, c, now)
  /\ stale' = Marked(row', FALSE)
  /\ UNCHANGED <<column, nose, job, txn>>

\* deleteMemory
DeleteMemory ==
  /\ Live(row)
  /\ row' = [row EXCEPT !.st = "dead"]
  /\ UNCHANGED <<column, nose, job, txn, stale>>

\* getMemoriesNeedingEmbedding hands the row to the embedder.
TakeJob ==
  /\ job = NoJob
  /\ column # None
  /\ Live(row) /\ row.scent = None
  /\ job' = [content |-> row.content, nose |-> nose]
  /\ UNCHANGED <<row, column, nose, txn, stale>>

\* setMemoryEmbedding writes by filename; a vector of another dimension is
\* refused, and the embedder goes on to its next row.
PutJob ==
  LET embedded == [row EXCEPT !.scent = job.content] IN
  /\ job # NoJob
  /\ IF row.st # "absent" /\ job.nose = column
     THEN /\ row' = embedded
          /\ stale' = Marked(embedded, job.content # row.content)
     ELSE UNCHANGED <<row, stale>>
  /\ job' = NoJob
  /\ UNCHANGED <<column, nose, txn>>

-----------------------------------------------------------------------------
(* importBrain, for a live row of a soul that carries content c stamped at *)

\* _mergeWriteMemory
MergeWritten(c, at) ==
  [st |-> "live", content |-> c, hash |-> c, scent |-> None, at |-> at]

ImportMerged(c, at) ==
  /\ column # None
  /\ row' = MergeWritten(c, at)
  /\ stale' = Marked(row', FALSE)
  /\ UNCHANGED <<column, nose, job, txn>>

\* The one-shot modes: newer-wins, or overwrite.  The upsert leaves the vector.
ImportOneShot(c, at, overwrite) ==
  /\ column # None
  /\ row.st = "absent" \/ overwrite \/ row.at < at
  /\ row' = [st |-> "live", content |-> c, hash |-> c, scent |-> row.scent, at |-> at]
  /\ stale' = Marked(row', c # row.content)
  /\ UNCHANGED <<column, nose, job, txn>>

-----------------------------------------------------------------------------
(* migrateEmbedDim *)

BeginMigration(new) ==
  /\ txn = NoTxn
  /\ new # nose
  /\ txn' = [at |-> "begun", row |-> row, column |-> column, nose |-> nose, stale |-> stale,
             new |-> new]
  /\ UNCHANGED <<row, column, nose, job, stale>>

DropColumn ==
  /\ txn.at = "begun"
  /\ column' = None
  /\ row' = [row EXCEPT !.scent = None]
  /\ txn' = [txn EXCEPT !.at = "dropped"]
  /\ stale' = Marked(row', FALSE)
  /\ UNCHANGED <<nose, job>>

AddColumn ==
  /\ txn.at = "dropped"
  /\ column' = txn.new
  /\ txn' = [txn EXCEPT !.at = "added"]
  /\ UNCHANGED <<row, nose, job, stale>>

\* setEmbedMeta
NoteNose ==
  /\ txn.at = "added"
  /\ nose' = txn.new
  /\ txn' = [txn EXCEPT !.at = "noted"]
  /\ UNCHANGED <<row, column, job, stale>>

Commit ==
  /\ txn.at = "noted"
  /\ txn' = NoTxn
  /\ UNCHANGED <<row, column, nose, job, stale>>

MigrationStep == DropColumn \/ AddColumn \/ NoteNose \/ Commit

\* Slip: no transaction around it; what was done stays done.
Undone_Bug ==
  /\ txn' = NoTxn
  /\ UNCHANGED <<row, column, nose, stale>>

\* ROLLBACK: everything since BEGIN is undone, whoever did it.
Undone ==
  /\ row' = txn.row
  /\ column' = txn.column
  /\ nose' = txn.nose
  /\ stale' = txn.stale
  /\ txn' = NoTxn

\* A statement fails, or the process dies.
MigrationFails ==
  /\ txn # NoTxn
  /\ Undone
  /\ UNCHANGED job

ScentInit ==
  /\ row = NoMemory
  /\ column \in Noses /\ nose = column
  /\ job = NoJob /\ txn = NoTxn
  /\ stale = FALSE

ScentTypeOK ==
  /\ row \in Memories
  /\ column \in Noses \union {None} /\ nose \in Noses
  /\ job \in Jobs
  /\ txn \in Txns
  /\ stale \in BOOLEAN

=============================================================================
