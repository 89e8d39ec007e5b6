--------------------------- MODULE DatabaseProofs ---------------------------
(***************************************************************************)
(* For every number of handles, keys, values and faults: the inductive     *)
(* invariant IInv of Database, and what follows from it.                   *)
(*                                                                         *)
(* A step of handle h leaves the locals of every other handle alone, so    *)
(* most steps need only the invariant of h itself (StepKeeps).  The        *)
(* exception is COMMIT, which changes db under everyone's feet.            *)
(***************************************************************************)
EXTENDS Database, TLAPS

----------------------------------------------------------------------------
(* The shape of a step. *)

\* The step changes neither what the other handles know nor their locks.
OthersSame(h) ==
    \A g \in Handles \ {h} :
        pc'[g] = pc[g] /\ row'[g] = row[g] /\ req'[g] = req[g] /\ lock'[g] = lock[g]

\* Nobody but h may be in a write transaction.
Alone(h) == \A g \in Handles \ {h} : ~Writing(g)

\* A step of h that leaves the committed tables alone keeps the invariant if it
\* keeps that of h, and takes the right to write only when nobody else has it.
LEMMA StepKeeps ==
    ASSUME NEW h \in Handles, IInv, TypeOK', db' = db, OthersSame(h), HandleOK(h)',
           dirty' = dirty \/ Alone(h),
           Writing(h)' => Alone(h)
    PROVE  IInv'
<1>1. SingleWriter'
  BY DEF IInv, SingleWriter, Alone, OthersSame, Writing
<1>2. Keyed(db)' /\ KeyHasValue'
  BY DEF IInv, Keyed, KeyHasValue, RowComplete
<1>3. ASSUME NEW g \in Handles  PROVE HandleOK(g)'
  <2>1. CASE g = h
    BY <2>1
  <2>2. CASE g # h
    <3>1. pc'[g] = pc[g] /\ row'[g] = row[g] /\ req'[g] = req[g] /\ lock'[g] = lock[g]
      BY <2>2 DEF OthersSame
    <3>2. HandleOK(g)
      BY DEF IInv
    <3>3. ControlOK(g)'
      BY <3>1, <3>2 DEF HandleOK, ControlOK, Writing, SetsBlob
    <3>4. LookupOK(g)'
      BY <3>1, <3>2 DEF HandleOK, LookupOK
    <3>5. Writing(g)' => DirtyOK(g)'
      <4>1. SUFFICES ASSUME Writing(g)'  PROVE DirtyOK(g)'
        OBVIOUS
      <4>2. Writing(g)
        BY <3>1, <4>1 DEF Writing
      <4>3. dirty' = dirty
        BY <2>2, <4>2 DEF Alone
      <4>4. DirtyOK(g)
        BY <3>2, <4>2 DEF HandleOK
      <4> QED
        BY <3>1, <4>3, <4>4 DEF DirtyOK, Keyed, RowComplete
    <3> QED
      BY <3>3, <3>4, <3>5 DEF HandleOK
  <2> QED
    BY <2>1, <2>2
<1> QED
  BY <1>1, <1>2, <1>3 DEF IInv

\* Two handles never write at the same time, so a writer is alone.
LEMMA WriterAlone ==
    ASSUME NEW h \in Handles, SingleWriter, CanWrite(h)
    PROVE  Alone(h)
  BY DEF SingleWriter, CanWrite, Alone

\* A call that has returned knows nothing and holds no write lock.
LEMMA IdleOK ==
    ASSUME NEW h \in Handles, pc'[h] = "idle", row'[h] = NoRow, ~Writing(h)'
    PROVE  HandleOK(h)'
  BY DEF HandleOK, ControlOK, LookupOK, Writing, NoRow, SetsBlob

----------------------------------------------------------------------------
(* Types of the pieces the actions are built from. *)

Answers == SUBSET (Contents \cup Types \cup Keys)

LEMMA GotoTyped ==
    ASSUME TypeOK, NEW h \in Handles, NEW label \in Labels, Goto(h, label)
    PROVE  /\ pc' \in [Handles -> Labels]
           /\ pc'[h] = label
           /\ \A g \in Handles \ {h} : pc'[g] = pc[g]
  BY DEF TypeOK, Goto

LEMMA ReturnTyped ==
    ASSUME TypeOK, NEW h \in Handles, NEW code \in Codes, NEW out \in Answers,
           Return(h, code, out)
    PROVE  /\ pc' \in [Handles -> Labels]
           /\ req' \in [Handles -> Request]
           /\ row' \in [Handles -> [id : Nat, type : Types \cup {"none"}, path : Paths \cup {NoPath}]]
           /\ res' \in [Handles -> [code : Codes, out : SUBSET (Contents \cup Types \cup Keys)]]
           /\ pc'[h] = "idle" /\ row'[h] = NoRow
           /\ \A g \in Handles \ {h} : pc'[g] = pc[g] /\ row'[g] = row[g] /\ req'[g] = req[g]
  BY DEF TypeOK, Return, Goto, NoRow, Labels, Answers

LEMMA ReleaseTyped ==
    ASSUME TypeOK, SingleWriter, NEW h \in Handles, Release(h)
    PROVE  /\ lock' \in [Handles -> {"none", "shared", "reserved", "pending"}]
           /\ dirty' \in Tables
           /\ ~Writing(h)'
           /\ dirty' = dirty \/ Alone(h)
           /\ \A g \in Handles \ {h} : lock'[g] = lock[g]
  BY DEF TypeOK, Release, Writing, SingleWriter, Alone

LEMMA ImageTyped ==
    ASSUME TypeOK, NEW h \in Handles
    PROVE  Image(h) \in Tables
  BY DEF TypeOK, Image

\* What every write statement has in common.
LEMMA WriteStepTyped ==
    ASSUME IInv, NEW h \in Handles, NEW next \in Labels, NEW tables \in Tables,
           WriteStep(h, next, tables)
    PROVE  /\ lock' \in [Handles -> {"none", "shared", "reserved", "pending"}]
           /\ dirty' = tables
           /\ pc' \in [Handles -> Labels]
           /\ pc'[h] = next
           /\ Writing(h)' /\ Alone(h)
           /\ \A g \in Handles \ {h} : pc'[g] = pc[g] /\ lock'[g] = lock[g]
           /\ UNCHANGED <<db, files, req, res, bounds>>
<1>1. TypeOK /\ SingleWriter
  BY DEF IInv
<1>2. Alone(h)
  BY <1>1, WriterAlone DEF WriteStep
<1> QED
  BY <1>1, <1>2 DEF TypeOK, WriteStep, Goto, Writing

LEMMA BlobRowsHavePaths ==
    /\ \A v \in ValueRow : v.type = "Blob" => v.val \in Paths
    /\ \A v \in ValueRow : v.type # "Blob" => v.val \in Data
    /\ \A v \in ValueRow : v.type \in Types /\ v.id \in Nat
  BY DEF ValueRow, Types

LEMMA KnowTyped ==
    ASSUME TypeOK, NEW h \in Handles, NEW id \in Nat, NEW type \in Types \cup {"none"},
           NEW path \in Paths \cup {NoPath}, Know(h, id, type, path)
    PROVE  /\ row' \in [Handles -> [id : Nat, type : Types \cup {"none"}, path : Paths \cup {NoPath}]]
           /\ row'[h].id = id /\ row'[h].type = type /\ row'[h].path = path
           /\ \A g \in Handles \ {h} : row'[g] = row[g]
  BY DEF TypeOK, Know

----------------------------------------------------------------------------
(* The calls and the steps that neither write nor commit. *)

LEMMA CallKeeps ==
    ASSUME IInv, NEW h \in Handles, NEW r \in Requests, Call(h, r)
    PROVE  IInv'
<1> USE ConstantsAssumption
<1>1. TypeOK /\ HandleOK(h) /\ r \in Request /\ PathOf[r.key] \in Paths
  BY DEF IInv, Request
<1>2. ~Writing(h)
  BY <1>1 DEF HandleOK, ControlOK, Call
<1>3. /\ row' \in [Handles -> [id : Nat, type : Types \cup {"none"}, path : Paths \cup {NoPath}]]
      /\ row'[h].type = row[h].type
      /\ r.op = "set" /\ r.type = "Blob" => row'[h].path \in Paths
      /\ \A g \in Handles \ {h} : row'[g] = row[g]
  <2>1. CASE r.op = "set" /\ r.type = "Blob"
    <3>1. Know(h, row[h].id, row[h].type, PathOf[r.key])
      BY <2>1 DEF Call
    <3>2. row[h].id \in Nat /\ row[h].type \in Types \cup {"none"}
      BY <1>1 DEF TypeOK
    <3> QED
      BY <1>1, <3>1, <3>2, KnowTyped
  <2>2. CASE ~(r.op = "set" /\ r.type = "Blob")
    BY <1>1, <2>2 DEF TypeOK, Call
  <2> QED
    BY <2>1, <2>2
<1>4. /\ pc' \in [Handles -> Labels]
      /\ pc'[h] \in {"select", "lookup", "openFile"}
      /\ \A g \in Handles \ {h} : pc'[g] = pc[g]
  BY <1>1 DEF TypeOK, Call, Goto, Labels
<1>5. /\ req' \in [Handles -> Request]
      /\ req'[h] = r
      /\ \A g \in Handles \ {h} : req'[g] = req[g]
  BY <1>1 DEF TypeOK, Call
<1>6. lock' = lock /\ db' = db /\ dirty' = dirty
  BY DEF Call
<1>7. TypeOK'
  <2>1. res' \in [Handles -> [code : Codes, out : SUBSET (Contents \cup Types \cup Keys)]]
    BY <1>1 DEF TypeOK, Call, NoResult, Codes
  <2> QED
    BY <1>1, <1>3, <1>4, <1>5, <2>1 DEF TypeOK, Call
<1>8. OthersSame(h)
  BY <1>3, <1>4, <1>5, <1>6 DEF OthersSame
<1>9. ~Writing(h)'
  BY <1>2, <1>6 DEF Writing
<1>10. HandleOK(h)'
  <2>1. row'[h].type = "none"
    BY <1>1, <1>3 DEF HandleOK, ControlOK, Call
  <2>2. SetsBlob(h)' => row'[h].path \in Paths
    BY <1>3, <1>5 DEF SetsBlob
  <2> QED
    BY <1>4, <1>9, <2>1, <2>2 DEF HandleOK, ControlOK, LookupOK
<1> QED
  BY <1>6, <1>7, <1>8, <1>9, <1>10, StepKeeps

\* The end of a call, whatever it returns: with its transaction closed, or when it
\* was not writing.
LEMMA ReturnKeeps ==
    ASSUME IInv, NEW h \in Handles, NEW code \in Codes, NEW out \in Answers,
           Return(h, code, out), db' = db, files' \in [Paths -> File \cup {NoFile}],
           calls' \in Nat, faults' \in Nat, crashes' \in Nat,
           Release(h) \/ (lock' = lock /\ dirty' = dirty /\ ~Writing(h))
    PROVE  IInv'
<1>1. TypeOK /\ SingleWriter
  BY DEF IInv
<1>2. /\ lock' \in [Handles -> {"none", "shared", "reserved", "pending"}]
      /\ dirty' \in Tables
      /\ ~Writing(h)'
      /\ dirty' = dirty \/ Alone(h)
      /\ \A g \in Handles \ {h} : lock'[g] = lock[g]
  <2>1. CASE Release(h)
    BY <1>1, <2>1, ReleaseTyped
  <2>2. CASE lock' = lock /\ dirty' = dirty /\ ~Writing(h)
    BY <1>1, <2>2 DEF TypeOK, Writing
  <2> QED
    BY <2>1, <2>2
<1>3. /\ pc' \in [Handles -> Labels]
      /\ req' \in [Handles -> Request]
      /\ row' \in [Handles -> [id : Nat, type : Types \cup {"none"}, path : Paths \cup {NoPath}]]
      /\ res' \in [Handles -> [code : Codes, out : SUBSET (Contents \cup Types \cup Keys)]]
      /\ pc'[h] = "idle" /\ row'[h] = NoRow
      /\ \A g \in Handles \ {h} : pc'[g] = pc[g] /\ row'[g] = row[g] /\ req'[g] = req[g]
  BY <1>1, ReturnTyped
<1>4. TypeOK'
  BY <1>1, <1>2, <1>3 DEF TypeOK
<1>5. OthersSame(h)
  BY <1>2, <1>3 DEF OthersSame
<1>6. HandleOK(h)'
  BY <1>2, <1>3, IdleOK
<1> QED
  BY <1>2, <1>4, <1>5, <1>6, StepKeeps

LEMMA NothingRead == {} \in Answers
  BY DEF Answers

LEMMA RemoveWrittenTyped ==
    ASSUME TypeOK, NEW h \in Handles, RemoveWritten(h)
    PROVE  files' \in [Paths -> File \cup {NoFile}]
  BY DEF TypeOK, RemoveWritten

LEMMA SelectBusyKeeps ==
    ASSUME IInv, NEW h \in Handles, SelectBusy(h)
    PROVE  IInv'
<1>1. TypeOK /\ HandleOK(h)
  BY DEF IInv
<1>2. ~Writing(h)
  BY <1>1 DEF HandleOK, ControlOK, SelectBusy
<1>3. files' \in [Paths -> File \cup {NoFile}]
  BY <1>1, RemoveWrittenTyped DEF SelectBusy
<1> QED
  BY <1>1, <1>2, <1>3, ReturnKeeps, NothingRead DEF SelectBusy, TypeOK, Codes, bounds

LEMMA FaultsKeep ==
    ASSUME IInv, NEW h \in Handles,
           StatementFails(h) \/ OutOfMemory(h) \/ FileFails(h) \/ CommitFails(h) \/ Kill(h)
    PROVE  IInv'
<1>1. TypeOK /\ HandleOK(h)
  BY DEF IInv
<1>2. ASSUME NEW kind, Fault(h, kind)
      PROVE  db' = db /\ calls' \in Nat /\ faults' \in Nat /\ crashes' \in Nat
  BY <1>1, <1>2 DEF Fault, TypeOK
<1>3. Aborting(h) \subseteq Codes
  BY DEF Aborting, Codes
<1>4. CASE StatementFails(h)
  <2>1. files' \in [Paths -> File \cup {NoFile}]
    BY <1>1, <1>4, RemoveWrittenTyped DEF StatementFails
  <2>2. PICK code \in Codes : Return(h, code, {})
    BY <1>3, <1>4 DEF StatementFails, Codes
  <2> QED
    BY <1>2, <1>4, <2>1, <2>2, ReturnKeeps, NothingRead DEF StatementFails
<1>5. CASE OutOfMemory(h)
  <2>1. files' \in [Paths -> File \cup {NoFile}]
    BY <1>1, <1>5, RemoveWrittenTyped DEF OutOfMemory, TypeOK
  <2>2. MemoryCode(h) \in Codes
    BY DEF MemoryCode, Codes
  <2> QED
    BY <1>2, <1>5, <2>1, <2>2, ReturnKeeps, NothingRead DEF OutOfMemory
<1>6. CASE FileFails(h)
  <2>1. ~Writing(h)
    BY <1>1, <1>6 DEF HandleOK, ControlOK, FileFails
  <2>2. PICK code \in FileCodes(h) : Return(h, code, {})
    BY <1>6 DEF FileFails
  <2>3. FileCodes(h) \subseteq Codes
    <3>1. pc[h] \in {"openFile", "checkFile", "writeFile", "unlink", "readFile"}
      BY <1>6 DEF FileFails
    <3> QED
      BY <3>1 DEF FileCodes, Codes
  <2>4. files' \in [Paths -> File \cup {NoFile}]
    BY <1>1, <1>6, RemoveWrittenTyped DEF FileFails, TypeOK
  <2>5. lock' = lock /\ dirty' = dirty
    BY <1>6 DEF FileFails
  <2> QED
    BY <1>2, <1>6, <2>1, <2>2, <2>3, <2>4, <2>5, ReturnKeeps, NothingRead DEF FileFails
<1>7. CASE CommitFails(h)
  <2>1. PICK code \in Codes : Return(h, code, {})
    BY <1>3, <1>7 DEF CommitFails, Codes
  <2> QED
    BY <1>1, <1>2, <1>7, <2>1, ReturnKeeps, NothingRead DEF CommitFails, TypeOK
<1>8. CASE Kill(h)
  <2>1. calls' \in Nat /\ faults' \in Nat /\ crashes' \in Nat
    BY <1>1, <1>8 DEF Kill, TypeOK
  <2> QED
    BY <1>1, <1>8, <2>1, ReturnKeeps, NothingRead DEF Kill, Codes, TypeOK
<1> QED
  BY <1>4, <1>5, <1>6, <1>7, <1>8

\* A step inside a call that writes no table: it goes to a label where no
\* transaction writes, and what it knows stays true.
LEMMA QuietKeeps ==
    ASSUME IInv, NEW h \in Handles, NEW label \in Labels \ {"idle"}, Goto(h, label),
           ~Writing(h)', db' = db, UNCHANGED req,
           calls' \in Nat, faults' \in Nat, crashes' \in Nat,
           lock' \in [Handles -> {"none", "shared", "reserved", "pending"}],
           \A g \in Handles \ {h} : lock'[g] = lock[g],
           dirty' \in Tables, dirty' = dirty \/ Alone(h),
           files' \in [Paths -> File \cup {NoFile}],
           row' \in [Handles -> [id : Nat, type : Types \cup {"none"}, path : Paths \cup {NoPath}]],
           \A g \in Handles \ {h} : row'[g] = row[g],
           res' \in [Handles -> [code : Codes, out : SUBSET (Contents \cup Types \cup Keys)]],
           ControlOK(h)', LookupOK(h)'
    PROVE  IInv'
<1>1. TypeOK
  BY DEF IInv
<1>2. pc' \in [Handles -> Labels] /\ \A g \in Handles \ {h} : pc'[g] = pc[g]
  BY <1>1, GotoTyped
<1>3. TypeOK'
  BY <1>1, <1>2 DEF TypeOK, bounds
<1>4. OthersSame(h)
  BY <1>2 DEF OthersSame
<1>5. HandleOK(h)'
  BY DEF HandleOK
<1> QED
  BY <1>3, <1>4, <1>5, StepKeeps

LEMMA FileStepsKeep ==
    ASSUME IInv, NEW h \in Handles, SetsBlob(h),
           OpenBlobFile(h) \/ CheckBlobFile(h) \/ WriteBlobFile(h)
    PROVE  IInv'
<1>1. TypeOK /\ HandleOK(h) /\ row[h].path \in Paths
  BY DEF IInv, HandleOK, ControlOK, OpenBlobFile, CheckBlobFile, WriteBlobFile
<1>2. ~Writing(h) /\ pc[h] # "idle"
  BY <1>1 DEF HandleOK, ControlOK, OpenBlobFile, CheckBlobFile, WriteBlobFile
<1>3. UNCHANGED <<db, dirty, lock, bounds>>
  BY DEF OpenBlobFile, CheckBlobFile, WriteBlobFile
<1>4. files' \in [Paths -> File \cup {NoFile}]
  <2>1. Writers(row[h].path) \in SUBSET Handles
    BY <1>1 DEF Writers, TypeOK, File
  <2>2. CASE OpenBlobFile(h)
    BY <1>1, <2>1, <2>2 DEF OpenBlobFile, TypeOK, File, Contents
  <2>3. CASE CheckBlobFile(h)
    BY <1>1, <2>3 DEF CheckBlobFile, TypeOK
  <2>4. CASE WriteBlobFile(h) /\ h \in Writers(row[h].path)
    <3>1. PICK data \in {req[h].val} \cup (IF files[row[h].path].data = Torn THEN {} ELSE {Torn}) :
            files' = [files EXCEPT ![row[h].path] =
                        [data |-> data, writers |-> Writers(row[h].path) \ {h}]]
      BY <2>4 DEF WriteBlobFile
    <3>2. data \in Contents
      BY <1>1 DEF TypeOK, Request, Contents
    <3>3. [data |-> data, writers |-> Writers(row[h].path) \ {h}] \in File
      BY <2>1, <3>2 DEF File
    <3> QED
      BY <1>1, <3>1, <3>3 DEF TypeOK
  <2>5. CASE WriteBlobFile(h) /\ h \notin Writers(row[h].path)
    BY <1>1, <2>5 DEF WriteBlobFile, TypeOK
  <2> QED
    BY <2>2, <2>3, <2>4, <2>5
<1>5. CASE Return(h, "INVALID", {})
  BY <1>1, <1>2, <1>3, <1>4, <1>5, ReturnKeeps, NothingRead DEF TypeOK, Codes, bounds
<1>6. ASSUME NEW label \in {"checkFile", "writeFile", "lookup"},
             Goto(h, label), UNCHANGED <<req, row, res>>
      PROVE  IInv'
  <2>1. pc'[h] = label
    BY <1>1, <1>6, GotoTyped DEF Labels
  <2>2. ~Writing(h)'
    BY <1>2, <1>3 DEF Writing
  <2>3. ControlOK(h)'
    BY <1>1, <1>2, <1>6, <2>1, <2>2 DEF HandleOK, ControlOK, SetsBlob
  <2>4. LookupOK(h)'
    BY <1>1, <1>3, <1>6 DEF HandleOK, LookupOK
  <2> QED
    BY <1>1, <1>3, <1>4, <1>6, <2>2, <2>3, <2>4, QuietKeeps DEF TypeOK, bounds, Labels
<1> QED
  BY <1>5, <1>6 DEF OpenBlobFile, CheckBlobFile, WriteBlobFile

\* Every SELECT takes SHARED, from a handle that was not writing.
LEMMA SelectTakesShared ==
    ASSUME TypeOK, NEW h \in Handles, lock' = [lock EXCEPT ![h] = "shared"]
    PROVE  /\ lock' \in [Handles -> {"none", "shared", "reserved", "pending"}]
           /\ ~Writing(h)'
           /\ \A g \in Handles \ {h} : lock'[g] = lock[g]
  BY DEF TypeOK, Writing

LEMMA Branches ==
    ASSUME TypeOK, NEW h \in Handles
    PROVE  /\ BranchOf(h, "none") = "insertKey"
           /\ \A type \in Types : BranchOf(h, type) \in {"update", "deleteValue"}
<1>1. req[h].type \in Types /\ "none" \notin Types
  BY DEF TypeOK, Request, Types
<1> QED
  BY <1>1 DEF BranchOf

LEMMA LookupKeeps ==
    ASSUME IInv, NEW h \in Handles, Lookup(h)
    PROVE  IInv'
<1>1. TypeOK /\ HandleOK(h) /\ pc[h] = "lookup"
  BY DEF IInv, Lookup
<1>2. /\ lock' \in [Handles -> {"none", "shared", "reserved", "pending"}]
      /\ ~Writing(h)' /\ ~Writing(h)
      /\ \A g \in Handles \ {h} : lock'[g] = lock[g]
  BY <1>1, SelectTakesShared DEF Lookup, HandleOK, ControlOK
<1>3. UNCHANGED <<db, dirty, files, req, res, bounds>>
  BY DEF Lookup
<1>4. CASE /\ \A k \in db.keyInfo : k.key # req[h].key
           /\ Goto(h, IF SetsBlob(h) THEN BranchOf(h, "none") ELSE "looked")
           /\ UNCHANGED row
  <2>1. row[h].type = "none"
    BY <1>1, <1>4 DEF HandleOK, LookupOK
  <2>2. PICK label \in {"insertKey", "looked"} : Goto(h, label)
    BY <1>1, <1>4, Branches
  <2>3. pc'[h] = label
    BY <1>1, <2>2, GotoTyped DEF Labels, WriteLabels
  <2>4. ControlOK(h)' /\ LookupOK(h)'
    BY <1>1, <1>2, <1>3, <1>4, <2>1, <2>3 DEF HandleOK, ControlOK, LookupOK, SetsBlob
  <2> QED
    BY <1>1, <1>2, <1>3, <1>4, <2>2, <2>4, QuietKeeps DEF TypeOK, bounds, Labels, WriteLabels
<1>5. ASSUME NEW k \in db.keyInfo, k.key = req[h].key,
             Goto(h, IF SetsBlob(h) THEN BranchOf(h, k.type) ELSE "looked"),
             Know(h, k.id, k.type, row[h].path)
      PROVE  IInv'
  <2>1. k.id \in Nat /\ k.type \in Types /\ row[h].path \in Paths \cup {NoPath}
    BY <1>1 DEF TypeOK, Tables, KeyRow
  <2>2. /\ row' \in [Handles -> [id : Nat, type : Types \cup {"none"}, path : Paths \cup {NoPath}]]
        /\ row'[h].id = k.id /\ row'[h].type = k.type /\ row'[h].path = row[h].path
        /\ \A g \in Handles \ {h} : row'[g] = row[g]
    BY <1>1, <1>5, <2>1, KnowTyped
  <2>3. k.type # "none"
    BY <2>1 DEF Types
  <2>4. PICK label \in {"update", "deleteValue", "looked"} : Goto(h, label)
    BY <1>1, <1>5, <2>1, Branches
  <2>5. pc'[h] = label
    BY <1>1, <2>4, GotoTyped DEF Labels, WriteLabels
  <2>6. ControlOK(h)'
    BY <1>1, <1>2, <1>3, <2>2, <2>3, <2>5 DEF HandleOK, ControlOK, SetsBlob
  <2>7. LookupOK(h)'
    BY <1>3, <1>5, <2>2 DEF LookupOK
  <2> QED
    BY <1>1, <1>2, <1>3, <2>2, <2>4, <2>6, <2>7, QuietKeeps DEF TypeOK, bounds, Labels, WriteLabels
<1> QED
  BY <1>4, <1>5 DEF Lookup

LEMMA EndLookupKeeps ==
    ASSUME IInv, NEW h \in Handles, ~SetsBlob(h), EndLookup(h)
    PROVE  IInv'
<1>1. TypeOK /\ SingleWriter /\ HandleOK(h) /\ pc[h] = "looked"
  BY DEF IInv, EndLookup
<1>2. UNCHANGED <<db, files, req, row, res, bounds>>
  BY DEF EndLookup
<1>3. PICK label \in {"insertKey", "update", "deleteValue", "findFile"} :
        /\ Goto(h, label)
        /\ row[h].type = "none" <=> label = "insertKey"
  <2>1. row[h].type \in Types \/ row[h].type = "none"
    BY <1>1 DEF TypeOK
  <2>2. "none" \notin Types
    BY DEF Types
  <2> QED
    BY <1>1, <2>1, <2>2, Branches DEF EndLookup, DeletesFile
<1>4. pc'[h] = label
  BY <1>1, <1>3, GotoTyped DEF Labels, WriteLabels
<1>5. /\ lock' \in [Handles -> {"none", "shared", "reserved", "pending"}]
      /\ dirty' \in Tables
      /\ ~Writing(h)'
      /\ dirty' = dirty \/ Alone(h)
      /\ \A g \in Handles \ {h} : lock'[g] = lock[g]
  BY <1>1, ReleaseTyped DEF EndLookup
<1>6. ControlOK(h)' /\ LookupOK(h)'
  BY <1>1, <1>2, <1>3, <1>4, <1>5 DEF HandleOK, ControlOK, LookupOK, SetsBlob
<1> QED
  BY <1>1, <1>2, <1>3, <1>5, <1>6, QuietKeeps DEF TypeOK, bounds, Labels, WriteLabels

LEMMA FindBlobFileKeeps ==
    ASSUME IInv, NEW h \in Handles, ~SetsBlob(h), FindBlobFile(h)
    PROVE  IInv'
<1>1. TypeOK /\ HandleOK(h) /\ pc[h] = "findFile"
  BY DEF IInv, FindBlobFile
<1>2. /\ lock' \in [Handles -> {"none", "shared", "reserved", "pending"}]
      /\ ~Writing(h)' /\ ~Writing(h)
      /\ \A g \in Handles \ {h} : lock'[g] = lock[g]
  BY <1>1, SelectTakesShared DEF FindBlobFile, HandleOK, ControlOK
<1>3. UNCHANGED <<db, dirty, files, req, res, bounds>> /\ Goto(h, "foundFile")
  BY DEF FindBlobFile
<1>4. /\ row' \in [Handles -> [id : Nat, type : Types \cup {"none"}, path : Paths \cup {NoPath}]]
      /\ row'[h].id = row[h].id /\ row'[h].type = row[h].type
      /\ \A g \in Handles \ {h} : row'[g] = row[g]
  <2>1. CASE UNCHANGED row
    BY <1>1, <2>1 DEF TypeOK
  <2>2. ASSUME NEW v \in BlobRows(req[h].key), Know(h, row[h].id, row[h].type, v.val)
        PROVE  /\ row' \in [Handles -> [id : Nat, type : Types \cup {"none"}, path : Paths \cup {NoPath}]]
               /\ row'[h].id = row[h].id /\ row'[h].type = row[h].type
               /\ \A g \in Handles \ {h} : row'[g] = row[g]
    <3>1. v.val \in Paths
      BY <1>1, BlobRowsHavePaths DEF BlobRows, TypeOK, Tables
    <3>2. row[h].id \in Nat /\ row[h].type \in Types \cup {"none"}
      BY <1>1 DEF TypeOK
    <3> QED
      BY <1>1, <2>2, <3>1, <3>2, KnowTyped
  <2> QED
    BY <2>1, <2>2 DEF FindBlobFile
<1>5. pc'[h] = "foundFile"
  BY <1>1, <1>3, GotoTyped DEF Labels
<1>6. ControlOK(h)' /\ LookupOK(h)'
  BY <1>1, <1>2, <1>3, <1>4, <1>5 DEF HandleOK, ControlOK, LookupOK, SetsBlob
<1> QED
  BY <1>1, <1>2, <1>3, <1>4, <1>6, QuietKeeps DEF TypeOK, bounds, Labels

LEMMA EndFindBlobFileKeeps ==
    ASSUME IInv, NEW h \in Handles, ~SetsBlob(h), EndFindBlobFile(h)
    PROVE  IInv'
<1>1. TypeOK /\ SingleWriter /\ HandleOK(h) /\ pc[h] = "foundFile"
  BY DEF IInv, EndFindBlobFile
<1>2. UNCHANGED <<db, files, bounds>>
  BY DEF EndFindBlobFile
<1>3. CASE row[h].path = NoPath
  BY <1>1, <1>2, <1>3, ReturnKeeps, NothingRead DEF EndFindBlobFile, TypeOK, Codes, bounds
<1>4. CASE row[h].path # NoPath
  <2>1. Goto(h, "unlink") /\ UNCHANGED <<req, row, res>> /\ row[h].path \in Paths
    BY <1>1, <1>4 DEF EndFindBlobFile, TypeOK
  <2>2. pc'[h] = "unlink"
    BY <1>1, <2>1, GotoTyped DEF Labels
  <2>3. /\ lock' \in [Handles -> {"none", "shared", "reserved", "pending"}]
        /\ dirty' \in Tables
        /\ ~Writing(h)'
        /\ dirty' = dirty \/ Alone(h)
        /\ \A g \in Handles \ {h} : lock'[g] = lock[g]
    BY <1>1, ReleaseTyped DEF EndFindBlobFile
  <2>4. ControlOK(h)' /\ LookupOK(h)'
    BY <1>1, <1>2, <2>1, <2>2, <2>3 DEF HandleOK, ControlOK, LookupOK, SetsBlob
  <2> QED
    BY <1>1, <1>2, <2>1, <2>3, <2>4, QuietKeeps DEF TypeOK, bounds, Labels
<1> QED
  BY <1>3, <1>4

LEMMA UnlinkBlobFileKeeps ==
    ASSUME IInv, NEW h \in Handles, ~SetsBlob(h), UnlinkBlobFile(h)
    PROVE  IInv'
<1>1. TypeOK /\ HandleOK(h) /\ pc[h] = "unlink"
  BY DEF IInv, UnlinkBlobFile
<1>2. UNCHANGED <<db, dirty, lock, bounds>> /\ ~Writing(h)
  BY <1>1 DEF UnlinkBlobFile, HandleOK, ControlOK
<1>3. CASE files[row[h].path] = NoFile
  BY <1>1, <1>2, <1>3, ReturnKeeps, NothingRead DEF UnlinkBlobFile, TypeOK, Codes, bounds
<1>4. CASE files[row[h].path] # NoFile
  <2>1. Goto(h, "deleteValue") /\ UNCHANGED <<req, row, res>>
    BY <1>4 DEF UnlinkBlobFile
  <2>2. pc'[h] = "deleteValue"
    BY <1>1, <2>1, GotoTyped DEF Labels, WriteLabels
  <2>3. files' \in [Paths -> File \cup {NoFile}]
    BY <1>1, <1>4 DEF UnlinkBlobFile, TypeOK
  <2>4. ~Writing(h)'
    BY <1>2 DEF Writing
  <2>5. ControlOK(h)' /\ LookupOK(h)'
    BY <1>1, <1>2, <2>1, <2>2, <2>4 DEF HandleOK, ControlOK, LookupOK, SetsBlob
  <2> QED
    BY <1>1, <1>2, <2>1, <2>3, <2>4, <2>5, QuietKeeps DEF TypeOK, bounds, Labels, WriteLabels
<1> QED
  BY <1>3, <1>4

LEMMA RemoveFailsKeeps ==
    ASSUME IInv, NEW h \in Handles, RemoveFails(h)
    PROVE  IInv'
<1>1. TypeOK /\ HandleOK(h) /\ pc[h] = "unlink"
  BY DEF IInv, RemoveFails
<1>2. /\ Goto(h, "deleteValue")
      /\ UNCHANGED <<db, dirty, lock, files, req, row, res, calls, crashes>>
      /\ faults' = faults + 1
  BY DEF RemoveFails, Fault
<1>3. pc'[h] = "deleteValue"
  BY <1>1, <1>2, GotoTyped DEF Labels, WriteLabels
<1>4. ~Writing(h)'
  BY <1>1, <1>2 DEF HandleOK, ControlOK, Writing
<1>5. ControlOK(h)' /\ LookupOK(h)'
  BY <1>1, <1>2, <1>3, <1>4 DEF HandleOK, ControlOK, LookupOK, SetsBlob
<1> QED
  BY <1>1, <1>2, <1>4, <1>5, QuietKeeps DEF TypeOK, Labels, WriteLabels

LEMMA SelectStepKeeps ==
    ASSUME IInv, NEW h \in Handles, ~SetsBlob(h), NEW code \in Codes, NEW out \in Answers,
           NEW path \in Paths \cup {NoPath}, SelectStep(h, code, out, path)
    PROVE  IInv'
<1>1. TypeOK /\ HandleOK(h) /\ pc[h] = "select"
  BY DEF IInv, SelectStep
<1>2. /\ lock' \in [Handles -> {"none", "shared", "reserved", "pending"}]
      /\ ~Writing(h)' /\ ~Writing(h)
      /\ \A g \in Handles \ {h} : lock'[g] = lock[g]
  BY <1>1, SelectTakesShared DEF SelectStep, HandleOK, ControlOK
<1>3. UNCHANGED <<db, dirty, files, req, bounds>> /\ Goto(h, "selected")
  BY DEF SelectStep
<1>4. /\ row' \in [Handles -> [id : Nat, type : Types \cup {"none"}, path : Paths \cup {NoPath}]]
      /\ row'[h].id = row[h].id /\ row'[h].type = row[h].type
      /\ \A g \in Handles \ {h} : row'[g] = row[g]
  <2>1. row[h].id \in Nat /\ row[h].type \in Types \cup {"none"}
    BY <1>1 DEF TypeOK
  <2> QED
    BY <1>1, <2>1, KnowTyped DEF SelectStep
<1>5. res' \in [Handles -> [code : Codes, out : SUBSET (Contents \cup Types \cup Keys)]]
  BY <1>1 DEF SelectStep, TypeOK, Answers
<1>6. pc'[h] = "selected"
  BY <1>1, <1>3, GotoTyped DEF Labels
<1>7. ControlOK(h)' /\ LookupOK(h)'
  BY <1>1, <1>2, <1>3, <1>4, <1>6 DEF HandleOK, ControlOK, LookupOK, SetsBlob
<1> QED
  BY <1>1, <1>2, <1>3, <1>4, <1>5, <1>7, QuietKeeps DEF TypeOK, bounds, Labels

\* What the four kinds of SELECT answer.
LEMMA SelectsKeep ==
    ASSUME IInv, NEW h \in Handles, ~SetsBlob(h),
           \/ SelectValue(h) /\ req[h].type # "Blob"
           \/ SelectPath(h) \/ SelectType(h) \/ SelectKeys(h)
    PROVE  IInv'
<1>1. TypeOK
  BY DEF IInv
<1>2. \A out : Found(out) \in Codes
  BY DEF Found, Codes
<1>3. NoPath \in Paths \cup {NoPath} /\ "OK" \in Codes /\ "NO_SUCH_KEY" \in Codes
  BY DEF Codes
<1>4. CASE SelectValue(h) /\ req[h].type # "Blob"
  <2>1. ValuesOf(req[h].key, req[h].type) \in Answers
    BY <1>1, <1>4, BlobRowsHavePaths DEF ValuesOf, Answers, TypeOK, Tables, Contents
  <2> QED
    BY <1>2, <1>3, <1>4, <2>1, SelectStepKeeps DEF SelectValue
<1>5. CASE SelectPath(h)
  <2>1. CASE BlobRows(req[h].key) = {}
    BY <1>3, <1>5, <2>1, SelectStepKeeps, NothingRead DEF SelectPath
  <2>2. CASE BlobRows(req[h].key) # {}
    <3>1. PICK v \in BlobRows(req[h].key) : SelectStep(h, "OK", {}, v.val)
      BY <1>5, <2>2 DEF SelectPath
    <3>2. v.val \in Paths
      BY <1>1, BlobRowsHavePaths DEF BlobRows, TypeOK, Tables
    <3> QED
      BY <1>3, <3>1, <3>2, SelectStepKeeps, NothingRead
  <2> QED
    BY <2>1, <2>2
<1>6. CASE SelectType(h)
  <2>1. TypesOf(req[h].key) \in Answers
    BY <1>1 DEF TypesOf, Answers, TypeOK, Tables, KeyRow
  <2> QED
    BY <1>2, <1>3, <1>6, <2>1, SelectStepKeeps DEF SelectType
<1>7. CASE SelectKeys(h)
  <2>1. KeyNames \in Answers
    BY <1>1 DEF KeyNames, Answers, TypeOK, Tables, KeyRow
  <2> QED
    BY <1>3, <1>7, <2>1, SelectStepKeeps DEF SelectKeys
<1> QED
  BY <1>4, <1>5, <1>6, <1>7

LEMMA EndSelectKeeps ==
    ASSUME IInv, NEW h \in Handles, ~SetsBlob(h), EndSelect(h) \/ ReadBlobFile(h)
    PROVE  IInv'
<1>1. TypeOK /\ SingleWriter /\ HandleOK(h)
  BY DEF IInv
<1>2. UNCHANGED <<db, files, bounds>>
  BY DEF EndSelect, ReadBlobFile
<1>3. CASE EndSelect(h) /\ row[h].path = NoPath
  <2>1. res[h].code \in Codes /\ res[h].out \in Answers
    BY <1>1 DEF TypeOK, Answers
  <2> QED
    BY <1>1, <1>2, <1>3, <2>1, ReturnKeeps DEF EndSelect, TypeOK, bounds
<1>4. CASE EndSelect(h) /\ row[h].path # NoPath
  <2>1. /\ Goto(h, "readFile") /\ UNCHANGED <<req, row, res>>
        /\ row[h].path \in Paths /\ pc[h] = "selected"
    BY <1>1, <1>4 DEF EndSelect, TypeOK
  <2>2. pc'[h] = "readFile"
    BY <1>1, <2>1, GotoTyped DEF Labels
  <2>3. /\ lock' \in [Handles -> {"none", "shared", "reserved", "pending"}]
        /\ dirty' \in Tables
        /\ ~Writing(h)'
        /\ dirty' = dirty \/ Alone(h)
        /\ \A g \in Handles \ {h} : lock'[g] = lock[g]
    BY <1>1, <1>4, ReleaseTyped DEF EndSelect
  <2>4. ControlOK(h)' /\ LookupOK(h)'
    BY <1>1, <1>2, <2>1, <2>2, <2>3 DEF HandleOK, ControlOK, LookupOK, SetsBlob
  <2> QED
    BY <1>1, <1>2, <2>1, <2>3, <2>4, QuietKeeps DEF TypeOK, bounds, Labels
<1>5. CASE ReadBlobFile(h)
  <2>1. ~Writing(h) /\ row[h].path \in Paths
    BY <1>1, <1>5 DEF HandleOK, ControlOK, ReadBlobFile
  <2>2. files[row[h].path] # NoFile => {files[row[h].path].data} \in Answers
    BY <1>1, <2>1 DEF TypeOK, Answers, File
  <2>3. CASE Return(h, "INVALID", {})
    BY <1>1, <1>2, <1>5, <2>1, <2>3, ReturnKeeps, NothingRead DEF ReadBlobFile, TypeOK, Codes, bounds
  <2>4. CASE files[row[h].path] # NoFile /\ Return(h, "OK", {files[row[h].path].data})
    BY <1>1, <1>2, <1>5, <2>1, <2>2, <2>4, ReturnKeeps DEF ReadBlobFile, TypeOK, Codes, bounds
  <2> QED
    BY <1>5, <2>3, <2>4 DEF ReadBlobFile
<1> QED
  BY <1>3, <1>4, <1>5

----------------------------------------------------------------------------
(* The write statements. *)

\* A write statement keeps the invariant when it keeps that of its handle.
LEMMA WriteKeeps ==
    ASSUME IInv, NEW h \in Handles, NEW next \in WriteLabels, NEW tables \in Tables,
           WriteStep(h, next, tables),
           row' \in [Handles -> [id : Nat, type : Types \cup {"none"}, path : Paths \cup {NoPath}]],
           \A g \in Handles \ {h} : row'[g] = row[g],
           ControlOK(h)', LookupOK(h)', DirtyOK(h)'
    PROVE  IInv'
<1>1. TypeOK
  BY DEF IInv
<1>2. /\ lock' \in [Handles -> {"none", "shared", "reserved", "pending"}]
      /\ dirty' = tables
      /\ pc' \in [Handles -> Labels]
      /\ Writing(h)' /\ Alone(h)
      /\ \A g \in Handles \ {h} : pc'[g] = pc[g] /\ lock'[g] = lock[g]
      /\ UNCHANGED <<db, files, req, res, bounds>>
  BY WriteStepTyped DEF Labels
<1>3. TypeOK'
  BY <1>1, <1>2 DEF TypeOK, bounds
<1>4. OthersSame(h)
  BY <1>2 DEF OthersSame
<1>5. HandleOK(h)'
  BY DEF HandleOK
<1> QED
  BY <1>2, <1>3, <1>4, <1>5, StepKeeps

\* Before a transaction writes, its image is the committed tables.
LEMMA ImageOK ==
    ASSUME IInv, NEW h \in Handles, pc[h] \in WriteLabels
    PROVE  /\ Image(h) \in Tables
           /\ Keyed(Image(h))
           /\ \A k \in Image(h).keyInfo :
                \/ RowComplete(Image(h), k)
                \/ pc[h] \in {"deleteKey", "insertValue"} /\ k.id = row[h].id
           /\ \A k \in db.keyInfo :
                \/ \E n \in Image(h).keyInfo : n.key = k.key /\ n.id = k.id
                \/ /\ pc[h] = "insertKey" /\ row[h].type # "none"
                   /\ k.key = req[h].key /\ k.id = row[h].id
<1>1. TypeOK /\ HandleOK(h)
  BY DEF IInv
<1>2. CASE Writing(h)
  BY <1>1, <1>2, ImageTyped DEF Image, HandleOK, DirtyOK
<1>3. CASE ~Writing(h)
  BY <1>1, <1>3, ImageTyped DEF Image, IInv, KeyHasValue
<1> QED
  BY <1>2, <1>3

LEMMA DeleteValueKeeps ==
    ASSUME IInv, NEW h \in Handles, DeleteValue(h)
    PROVE  IInv'
<1> DEFINE rest == {v \in Image(h).values : v.type # row[h].type \/ v.id # row[h].id}
           tables == [Image(h) EXCEPT !.values = rest]
<1>1. TypeOK /\ HandleOK(h) /\ pc[h] = "deleteValue"
  BY DEF IInv, DeleteValue
<1>2. /\ Image(h) \in Tables /\ Keyed(Image(h))
      /\ \A k \in Image(h).keyInfo : RowComplete(Image(h), k)
      /\ \A k \in db.keyInfo : \E n \in Image(h).keyInfo : n.key = k.key /\ n.id = k.id
  BY <1>1, ImageOK DEF WriteLabels
<1>3. tables \in Tables /\ tables.keyInfo = Image(h).keyInfo /\ tables.values = rest
  BY <1>2 DEF Tables
<1>4. WriteStep(h, "deleteKey", tables) /\ UNCHANGED row
  BY DEF DeleteValue
<1> HIDE DEF tables
<1>5. /\ dirty' = tables /\ pc'[h] = "deleteKey"
      /\ Writing(h)' /\ UNCHANGED <<db, req>>
  BY <1>3, <1>4, WriteStepTyped DEF Labels, WriteLabels
<1>6. ControlOK(h)' /\ LookupOK(h)'
  BY <1>1, <1>4, <1>5 DEF HandleOK, ControlOK, LookupOK, SetsBlob
<1>7. \A k \in tables.keyInfo : RowComplete(tables, k) \/ k.id = row[h].id
  BY <1>2, <1>3 DEF RowComplete
<1>8. DirtyOK(h)'
  BY <1>2, <1>3, <1>4, <1>5, <1>7 DEF DirtyOK, Keyed
<1> QED
  BY <1>1, <1>3, <1>4, <1>6, <1>8, WriteKeeps DEF TypeOK, WriteLabels

LEMMA DeleteKeyKeeps ==
    ASSUME IInv, NEW h \in Handles, DeleteKey(h)
    PROVE  IInv'
<1> DEFINE rest == {k \in Image(h).keyInfo : k.id # row[h].id}
           tables == [Image(h) EXCEPT !.keyInfo = rest]
<1>1. TypeOK /\ HandleOK(h) /\ pc[h] = "deleteKey" /\ Keyed(db)
  BY DEF IInv, DeleteKey
<1>2. /\ Image(h) \in Tables /\ Keyed(Image(h))
      /\ \A k \in Image(h).keyInfo : RowComplete(Image(h), k) \/ k.id = row[h].id
      /\ \A k \in db.keyInfo : \E n \in Image(h).keyInfo : n.key = k.key /\ n.id = k.id
  BY <1>1, ImageOK DEF WriteLabels
<1>3. tables \in Tables /\ tables.keyInfo = rest /\ tables.values = Image(h).values
  BY <1>2 DEF Tables
<1>4. WriteStep(h, "insertKey", tables) /\ UNCHANGED row
  BY DEF DeleteKey
<1> HIDE DEF tables
<1>5. /\ dirty' = tables /\ pc'[h] = "insertKey"
      /\ Writing(h)' /\ UNCHANGED <<db, req>>
  BY <1>3, <1>4, WriteStepTyped DEF Labels, WriteLabels
<1>6. row[h].type # "none"
  BY <1>1 DEF HandleOK, ControlOK
<1>7. ControlOK(h)' /\ LookupOK(h)'
  BY <1>1, <1>4, <1>5 DEF HandleOK, ControlOK, LookupOK, SetsBlob
<1>8. \A k \in tables.keyInfo : RowComplete(tables, k)
  BY <1>2, <1>3 DEF RowComplete
<1>9. \A k \in db.keyInfo : k.id = row[h].id => k.key = req[h].key
  BY <1>1, <1>6 DEF HandleOK, LookupOK, Keyed
<1>10. DirtyOK(h)'
  BY <1>2, <1>3, <1>4, <1>5, <1>6, <1>8, <1>9 DEF DirtyOK, Keyed
<1> QED
  BY <1>1, <1>3, <1>4, <1>7, <1>10, WriteKeeps DEF TypeOK, WriteLabels

LEMMA InsertKeyKeeps ==
    ASSUME IInv, NEW h \in Handles, req[h].op = "set", InsertKey(h)
    PROVE  IInv'
<1> DEFINE id == KeyId(h)
           new == [id |-> id, key |-> req[h].key, type |-> req[h].type]
           seq == IF id > Image(h).seq THEN id ELSE Image(h).seq
           tables == [Image(h) EXCEPT !.keyInfo = @ \cup {new}, !.seq = seq]
<1>1. TypeOK /\ HandleOK(h) /\ pc[h] = "insertKey" /\ req[h] \in Request
  BY DEF IInv, InsertKey, TypeOK
<1>2. /\ Image(h) \in Tables /\ Keyed(Image(h))
      /\ \A k \in Image(h).keyInfo : RowComplete(Image(h), k)
      /\ \A k \in db.keyInfo :
            \/ \E n \in Image(h).keyInfo : n.key = k.key /\ n.id = k.id
            \/ row[h].type # "none" /\ k.key = req[h].key /\ k.id = row[h].id
  BY <1>1, ImageOK DEF WriteLabels
<1>3. id \in Nat /\ (row[h].type # "none" => id = row[h].id)
  BY <1>1, <1>2 DEF KeyId, Tables, TypeOK
<1>4. new \in KeyRow /\ new.id = id /\ new.key = req[h].key /\ new.type = req[h].type
  BY <1>1, <1>3 DEF KeyRow, Request
<1>5. seq \in Nat
  BY <1>2, <1>3 DEF Tables
<1>6. /\ tables \in Tables
      /\ tables.keyInfo = Image(h).keyInfo \cup {new}
      /\ tables.values = Image(h).values
  BY <1>2, <1>4, <1>5 DEF Tables
<1>7. \A k \in Image(h).keyInfo : k.key # req[h].key /\ k.id # id
  BY DEF InsertKey, KeyInfoAccepts
<1>8. WriteStep(h, "insertValue", tables) /\ Know(h, id, row[h].type, row[h].path)
  BY DEF InsertKey
<1> HIDE DEF tables, new, id, seq
<1>9. /\ dirty' = tables /\ pc'[h] = "insertValue"
      /\ Writing(h)' /\ UNCHANGED <<db, req>>
  BY <1>6, <1>8, WriteStepTyped DEF Labels, WriteLabels
<1>10. /\ row' \in [Handles -> [id : Nat, type : Types \cup {"none"}, path : Paths \cup {NoPath}]]
       /\ row'[h].id = id /\ row'[h].type = row[h].type /\ row'[h].path = row[h].path
       /\ \A g \in Handles \ {h} : row'[g] = row[g]
  <2>1. row[h].type \in Types \cup {"none"} /\ row[h].path \in Paths \cup {NoPath}
    BY <1>1 DEF TypeOK
  <2> QED
    BY <1>1, <1>3, <1>8, <2>1, KnowTyped
<1>11. ControlOK(h)' /\ LookupOK(h)'
  BY <1>1, <1>3, <1>9, <1>10 DEF HandleOK, ControlOK, LookupOK, SetsBlob
<1>12. Keyed(tables)
  BY <1>2, <1>4, <1>6, <1>7 DEF Keyed
<1>13. \A k \in tables.keyInfo : RowComplete(tables, k) \/ k.id = id
  BY <1>2, <1>4, <1>6 DEF RowComplete
<1>14. \A k \in tables.keyInfo : k.id = id => k.type = req[h].type
  BY <1>4, <1>6, <1>7
<1>15. \A k \in db.keyInfo : \E n \in tables.keyInfo : n.key = k.key /\ n.id = k.id
  BY <1>2, <1>3, <1>4, <1>6
<1>16. DirtyOK(h)'
  BY <1>9, <1>10, <1>12, <1>13, <1>14, <1>15 DEF DirtyOK
<1> QED
  BY <1>6, <1>8, <1>10, <1>11, <1>16, WriteKeeps DEF WriteLabels

LEMMA InsertKeyRefusedKeeps ==
    ASSUME IInv, NEW h \in Handles, InsertKeyRefused(h)
    PROVE  IInv'
<1>1. TypeOK /\ HandleOK(h) /\ pc[h] = "insertKey" /\ ~Writing(h)
  BY DEF IInv, InsertKeyRefused
<1>2. db \in Tables /\ Keyed(db) /\ \A k \in db.keyInfo : RowComplete(db, k)
  BY DEF IInv, TypeOK, KeyHasValue
<1>3. WriteStep(h, "insertKey", db) /\ UNCHANGED row
  BY DEF InsertKeyRefused
<1>4. dirty' = db /\ pc'[h] = "insertKey" /\ Writing(h)' /\ UNCHANGED <<db, req>>
  BY <1>2, <1>3, WriteStepTyped DEF Labels, WriteLabels
<1>5. ControlOK(h)' /\ LookupOK(h)'
  BY <1>1, <1>3, <1>4 DEF HandleOK, ControlOK, LookupOK, SetsBlob
<1>6. DirtyOK(h)'
  BY <1>2, <1>3, <1>4 DEF DirtyOK, Keyed, RowComplete
<1> QED
  BY <1>1, <1>2, <1>3, <1>5, <1>6, WriteKeeps DEF TypeOK, WriteLabels

\* What a setter stores fits the table of its type.
LEMMA StoredFits ==
    ASSUME IInv, NEW h \in Handles, req[h].op = "set", pc[h] # "idle", NEW id \in Nat
    PROVE  /\ [type |-> req[h].type, id |-> id, val |-> Stored(h)] \in ValueRow
           /\ \A v \in ValueRow : v.type = req[h].type =>
                    [v EXCEPT !.val = Stored(h)] \in ValueRow
<1>1. req[h] \in Request /\ HandleOK(h)
  BY DEF IInv, TypeOK
<1>2. req[h].type = "Blob" => Stored(h) \in Paths
  BY <1>1 DEF HandleOK, ControlOK, SetsBlob, Stored
<1>3. req[h].type # "Blob" => Stored(h) \in Data
  BY <1>1 DEF Stored, Request
<1>4. req[h].type \in Types
  BY <1>1 DEF Request
<1> HIDE DEF Stored
<1>5. CASE req[h].type = "Blob"
  BY <1>2, <1>4, <1>5 DEF ValueRow
<1>6. CASE req[h].type # "Blob"
  BY <1>3, <1>4, <1>6 DEF ValueRow
<1> QED
  BY <1>5, <1>6

LEMMA InsertValueKeeps ==
    ASSUME IInv, NEW h \in Handles, req[h].op = "set", InsertValue(h)
    PROVE  IInv'
<1> DEFINE new == [type |-> req[h].type, id |-> row[h].id, val |-> Stored(h)]
           tables == [Image(h) EXCEPT !.values = @ \cup {new}]
<1>1. TypeOK /\ HandleOK(h) /\ pc[h] = "insertValue" /\ row[h].id \in Nat
  BY DEF IInv, InsertValue, TypeOK
<1>2. Writing(h) /\ Image(h) = dirty
  BY <1>1 DEF HandleOK, ControlOK, Image
<1>3. /\ dirty \in Tables /\ Keyed(dirty)
      /\ \A k \in dirty.keyInfo : RowComplete(dirty, k) \/ k.id = row[h].id
      /\ \A k \in dirty.keyInfo : k.id = row[h].id => k.type = req[h].type
      /\ \A k \in db.keyInfo : \E n \in dirty.keyInfo : n.key = k.key /\ n.id = k.id
  BY <1>1, <1>2 DEF TypeOK, HandleOK, DirtyOK
<1>4. new \in ValueRow /\ new.type = req[h].type /\ new.id = row[h].id
  BY <1>1, StoredFits
<1>5. /\ tables \in Tables
      /\ tables.keyInfo = dirty.keyInfo
      /\ tables.values = dirty.values \cup {new}
  BY <1>2, <1>3, <1>4 DEF Tables
<1>6. WriteStep(h, "commit", tables) /\ UNCHANGED row
  BY DEF InsertValue
<1> HIDE DEF tables, new
<1>7. /\ dirty' = tables /\ pc'[h] = "commit"
      /\ Writing(h)' /\ UNCHANGED <<db, req>>
  BY <1>5, <1>6, WriteStepTyped DEF Labels, WriteLabels
<1>8. ControlOK(h)' /\ LookupOK(h)'
  BY <1>1, <1>6, <1>7 DEF HandleOK, ControlOK, LookupOK, SetsBlob
<1>9. \A k \in tables.keyInfo : RowComplete(tables, k)
  BY <1>3, <1>4, <1>5 DEF RowComplete
<1>10. DirtyOK(h)'
  BY <1>3, <1>5, <1>6, <1>7, <1>9 DEF DirtyOK, Keyed
<1> QED
  BY <1>1, <1>5, <1>6, <1>8, <1>10, WriteKeeps DEF TypeOK, WriteLabels

LEMMA UpdateValueKeeps ==
    ASSUME IInv, NEW h \in Handles, req[h].op = "set", UpdateValue(h)
    PROVE  IInv'
<1> DEFINE Updated(v) ==
                IF v.type = req[h].type /\ v.id = row[h].id THEN [v EXCEPT !.val = Stored(h)] ELSE v
           new == {Updated(v) : v \in Image(h).values}
           tables == [Image(h) EXCEPT !.values = new]
<1>1. TypeOK /\ HandleOK(h) /\ pc[h] = "update"
  BY DEF IInv, UpdateValue
<1>2. /\ Image(h) \in Tables /\ Keyed(Image(h))
      /\ \A k \in Image(h).keyInfo : RowComplete(Image(h), k)
      /\ \A k \in db.keyInfo : \E n \in Image(h).keyInfo : n.key = k.key /\ n.id = k.id
  BY <1>1, ImageOK DEF WriteLabels
<1>3. \A v \in ValueRow :
        Updated(v) \in ValueRow /\ Updated(v).type = v.type /\ Updated(v).id = v.id
  <2>1. \A v \in ValueRow : v.type = req[h].type => [v EXCEPT !.val = Stored(h)] \in ValueRow
    BY <1>1, StoredFits
  <2>2. ASSUME NEW v \in ValueRow
        PROVE  /\ [v EXCEPT !.val = Stored(h)].type = v.type
               /\ [v EXCEPT !.val = Stored(h)].id = v.id
    BY DEF ValueRow
  <2> QED
    BY <2>1, <2>2
<1>4. Image(h).values \subseteq ValueRow
  BY <1>2 DEF Tables
<1> HIDE DEF Updated
<1>5. new \subseteq ValueRow
  BY <1>3, <1>4
<1>6. tables \in Tables /\ tables.keyInfo = Image(h).keyInfo /\ tables.values = new
  BY <1>2, <1>5 DEF Tables
<1>7. WriteStep(h, "commit", tables) /\ UNCHANGED row
  BY DEF UpdateValue, Updated
<1>8. \A k \in Image(h).keyInfo : \E v \in new : v.type = k.type /\ v.id = k.id
  BY <1>2, <1>3, <1>4 DEF RowComplete
<1> HIDE DEF tables, new
<1>9. /\ dirty' = tables /\ pc'[h] = "commit"
      /\ Writing(h)' /\ UNCHANGED <<db, req>>
  BY <1>6, <1>7, WriteStepTyped DEF Labels, WriteLabels
<1>10. ControlOK(h)' /\ LookupOK(h)'
  BY <1>1, <1>7, <1>9 DEF HandleOK, ControlOK, LookupOK, SetsBlob
<1>11. \A k \in tables.keyInfo : RowComplete(tables, k)
  BY <1>6, <1>8 DEF RowComplete
<1>12. DirtyOK(h)'
  BY <1>2, <1>6, <1>7, <1>9, <1>11 DEF DirtyOK, Keyed
<1> QED
  BY <1>1, <1>6, <1>7, <1>10, <1>12, WriteKeeps DEF TypeOK, WriteLabels

----------------------------------------------------------------------------
(* COMMIT. *)

\* What a transaction is about to commit is complete and has lost no key.
LEMMA CommitReady ==
    ASSUME IInv, NEW h \in Handles, pc[h] = "commit"
    PROVE  /\ Writing(h) /\ Alone(h)
           /\ Keyed(dirty)
           /\ \A k \in dirty.keyInfo : RowComplete(dirty, k)
           /\ \A k \in db.keyInfo : \E n \in dirty.keyInfo : n.key = k.key /\ n.id = k.id
<1>1. HandleOK(h) /\ SingleWriter
  BY DEF IInv
<1>2. Writing(h)
  BY <1>1 DEF HandleOK, ControlOK
<1> QED
  BY <1>1, <1>2 DEF HandleOK, DirtyOK, Alone, SingleWriter

LEMMA CommitKeeps ==
    ASSUME IInv, NEW h \in Handles, Commit(h) \/ CommitAborts(h)
    PROVE  IInv'
<1>1. TypeOK /\ pc[h] = "commit"
  BY DEF IInv, Commit, CommitAborts
<1>2. /\ Writing(h) /\ Alone(h)
      /\ Keyed(dirty)
      /\ \A k \in dirty.keyInfo : RowComplete(dirty, k)
      /\ \A k \in db.keyInfo : \E n \in dirty.keyInfo : n.key = k.key /\ n.id = k.id
  BY <1>1, CommitReady
<1>3. /\ db' = dirty /\ dirty' = dirty
      /\ lock' = [lock EXCEPT ![h] = "none"]
      /\ UNCHANGED <<files, bounds>>
  BY DEF Commit, CommitAborts
<1>4. PICK code \in Codes : Return(h, code, {})
  BY DEF Commit, CommitAborts, Codes
<1>5. /\ pc' \in [Handles -> Labels]
      /\ req' \in [Handles -> Request]
      /\ row' \in [Handles -> [id : Nat, type : Types \cup {"none"}, path : Paths \cup {NoPath}]]
      /\ res' \in [Handles -> [code : Codes, out : SUBSET (Contents \cup Types \cup Keys)]]
      /\ pc'[h] = "idle" /\ row'[h] = NoRow
      /\ \A g \in Handles \ {h} : pc'[g] = pc[g] /\ row'[g] = row[g] /\ req'[g] = req[g]
  BY <1>1, <1>4, ReturnTyped, NothingRead
<1>6. TypeOK'
  BY <1>1, <1>3, <1>5 DEF TypeOK, bounds
<1>7. \A g \in Handles : ~Writing(g)'
  BY <1>1, <1>2, <1>3 DEF TypeOK, Writing, Alone
<1>8. Keyed(db)' /\ KeyHasValue'
  BY <1>2, <1>3 DEF Keyed, KeyHasValue, RowComplete
<1>9. ASSUME NEW g \in Handles  PROVE HandleOK(g)'
  <2>1. CASE g = h
    BY <1>5, <1>7, <2>1, IdleOK
  <2>2. CASE g # h
    <3>1. HandleOK(g) /\ ~Writing(g)
      BY <1>2, <2>2 DEF IInv, Alone
    <3>2. pc'[g] = pc[g] /\ row'[g] = row[g] /\ req'[g] = req[g]
      BY <1>5, <2>2
    <3>3. ControlOK(g)'
      BY <1>7, <3>1, <3>2 DEF HandleOK, ControlOK, SetsBlob
    <3>4. LookupOK(g)'
      BY <1>2, <1>3, <3>1, <3>2 DEF HandleOK, LookupOK
    <3> QED
      BY <1>7, <3>3, <3>4 DEF HandleOK
  <2> QED
    BY <2>1, <2>2
<1>10. SingleWriter'
  BY <1>7 DEF SingleWriter
<1> QED
  BY <1>6, <1>8, <1>9, <1>10 DEF IInv

LEMMA CommitBusyKeeps ==
    ASSUME IInv, NEW h \in Handles, CommitBusy(h)
    PROVE  IInv'
<1>1. TypeOK /\ HandleOK(h) /\ pc[h] = "commit"
  BY DEF IInv, CommitBusy
<1>2. Writing(h) /\ Alone(h)
  BY <1>1, CommitReady
<1>3. /\ lock' = [lock EXCEPT ![h] = "pending"]
      /\ UNCHANGED <<db, dirty, files, pc, req, row, res, bounds>>
  BY DEF CommitBusy
<1>4. TypeOK'
  BY <1>1, <1>3 DEF TypeOK, bounds
<1>5. Writing(h)' /\ OthersSame(h)
  BY <1>1, <1>3 DEF TypeOK, Writing, OthersSame
<1>6. HandleOK(h)'
  BY <1>1, <1>2, <1>3, <1>5
     DEF HandleOK, ControlOK, LookupOK, DirtyOK, Keyed, RowComplete, SetsBlob
<1> QED
  BY <1>2, <1>3, <1>4, <1>5, <1>6, StepKeeps

----------------------------------------------------------------------------
(* Every step, by the function that takes it. *)

LEMMA WriteStatementsKeep ==
    ASSUME IInv, NEW h \in Handles, req[h].op = "set", WriteStatements(h)
    PROVE  IInv'
  BY DeleteValueKeeps, DeleteKeyKeeps, InsertKeyKeeps, InsertKeyRefusedKeeps,
     InsertValueKeeps, UpdateValueKeeps, CommitKeeps, CommitBusyKeeps DEF WriteStatements

LEMMA SettersKeep ==
    ASSUME IInv, NEW h \in Handles,
           SetInt64(h) \/ SetDouble(h) \/ SetString(h) \/ SetBlob(h)
    PROVE  IInv'
<1>1. CASE SetBlob(h)
  BY <1>1, FileStepsKeep, LookupKeeps, SelectBusyKeeps, WriteStatementsKeep, CommitKeeps
     DEF SetBlob, SetsBlob
<1>2. CASE req[h].op = "set" /\ req[h].type # "Blob" /\ ScalarSetter(h)
  BY <1>2, LookupKeeps, SelectBusyKeeps, EndLookupKeeps, WriteStatementsKeep
     DEF ScalarSetter, SetsBlob
<1>3. CASE req[h].op = "set" /\ req[h].type # "Blob" /\ RemoveReferencedBlobFile(h)
  BY <1>3, FindBlobFileKeeps, EndFindBlobFileKeeps, UnlinkBlobFileKeeps
     DEF RemoveReferencedBlobFile, SetsBlob
<1> QED
  BY <1>1, <1>2, <1>3 DEF SetInt64, SetDouble, SetString, Serves

LEMMA GettersKeep ==
    ASSUME IInv, NEW h \in Handles,
           \/ GetInt64(h) \/ GetDouble(h) \/ GetString(h) \/ GetBlob(h)
           \/ GetType(h) \/ EnumKeys(h)
    PROVE  IInv'
<1>1. ~SetsBlob(h)
  BY DEF GetInt64, GetDouble, GetString, GetBlob, GetType, EnumKeys, Serves, SetsBlob
<1>2. CASE req[h].type # "Blob" /\ Getter(h)
  BY <1>1, <1>2, SelectsKeep, SelectBusyKeeps, EndSelectKeeps DEF Getter
<1>3. CASE GetBlob(h) \/ GetType(h) \/ EnumKeys(h)
  BY <1>1, <1>3, SelectsKeep, SelectBusyKeeps, EndSelectKeeps DEF GetBlob, GetType, EnumKeys
<1> QED
  BY <1>2, <1>3 DEF GetInt64, GetDouble, GetString, Serves

LEMMA NothingHappens ==
    ASSUME IInv, UNCHANGED vars
    PROVE  IInv'
<1>1. TypeOK' /\ SingleWriter' /\ Keyed(db)' /\ KeyHasValue'
  BY DEF IInv, vars, TypeOK, SingleWriter, Writing, Keyed, KeyHasValue, RowComplete
<1>2. \A h \in Handles : HandleOK(h)'
  BY DEF IInv, vars, HandleOK, ControlOK, LookupOK, DirtyOK, Writing, Keyed, RowComplete, SetsBlob
<1> QED
  BY <1>1, <1>2 DEF IInv

\* IInv is inductive: the one fact every theorem below rests on.
LEMMA NextKeeps ==
    ASSUME IInv, [Next]_vars
    PROVE  IInv'
<1>1. ASSUME NEW h \in Handles, NEW r \in Requests, Call(h, r)  PROVE IInv'
  BY <1>1, CallKeeps
<1>2. ASSUME NEW h \in Handles, Step(h)  PROVE IInv'
  BY <1>2, SettersKeep, GettersKeep DEF Step
<1>3. ASSUME NEW h \in Handles,
             \/ StatementFails(h) \/ OutOfMemory(h) \/ FileFails(h) \/ RemoveFails(h)
             \/ CommitFails(h) \/ Kill(h)
      PROVE  IInv'
  BY <1>3, FaultsKeep, RemoveFailsKeeps
<1>4. CASE Finished \/ UNCHANGED vars
  BY <1>4, NothingHappens DEF Finished
<1> QED
  BY <1>1, <1>2, <1>3, <1>4 DEF Next

LEMMA InitEstablishes ==
    ASSUME Init
    PROVE  IInv
<1> USE ConstantsAssumption
<1>1. TypeOK
  BY DEF Init, TypeOK, Tables, Labels, NoRow, NoResult, Codes, Contents
<1>2. SingleWriter /\ Keyed(db) /\ KeyHasValue
  BY DEF Init, SingleWriter, Writing, Keyed, KeyHasValue
<1>3. \A h \in Handles : HandleOK(h)
  BY DEF Init, HandleOK, ControlOK, LookupOK, Writing, NoRow, SetsBlob
<1> QED
  BY <1>1, <1>2, <1>3 DEF IInv

\* Only the COMMIT of a setter changes the committed tables.
LEMMA OnlyCommitWrites ==
    ASSUME [Next]_vars, db' # db
    PROVE  \E h \in Handles : req[h].op = "set" /\ (Commit(h) \/ CommitAborts(h))
<1>1. ASSUME NEW h \in Handles, Step(h)
      PROVE  req[h].op = "set" /\ (Commit(h) \/ CommitAborts(h))
  BY <1>1 DEF Step, SetInt64, SetDouble, SetString, SetBlob, GetInt64, GetDouble, GetString,
      GetBlob, GetType, EnumKeys, Serves, SetsBlob, ScalarSetter, RemoveReferencedBlobFile, Getter,
      WriteStatements, OpenBlobFile, CheckBlobFile, WriteBlobFile, Lookup, SelectBusy, EndLookup,
      FindBlobFile, EndFindBlobFile, UnlinkBlobFile, WriteStep, DeleteValue, DeleteKey, InsertKey,
      InsertKeyRefused, InsertValue, UpdateValue, CommitBusy, SelectStep,
      SelectValue, SelectPath, SelectType, SelectKeys, EndSelect, ReadBlobFile
<1>2. ASSUME NEW h \in Handles,
             \/ \E r \in Requests : Call(h, r)
             \/ StatementFails(h) \/ OutOfMemory(h) \/ FileFails(h) \/ RemoveFails(h)
             \/ CommitFails(h) \/ Kill(h)
      PROVE  FALSE
  BY <1>2 DEF Call, StatementFails, OutOfMemory, FileFails, RemoveFails, CommitFails, Kill, Fault
<1> QED
  BY <1>1, <1>2 DEF Next, Finished, vars

----------------------------------------------------------------------------
(* The theorems. *)

\* The inductive invariant holds of every behaviour of server/database.c.
THEOREM InvariantHolds == Spec => []IInv
  BY InitEstablishes, NextKeeps, PTL DEF Spec

\* Type correctness: ids, labels, locks and file contents stay what they should be.
THEOREM TypeCorrect == Spec => []TypeOK
<1>1. IInv => TypeOK
  BY DEF IInv
<1> QED
  BY <1>1, InvariantHolds, PTL

\* However many handles change the type of a key at the same time, and whichever
\* statement fails or process dies on the way, a key that can be looked up has a
\* value of its type: the four statements of a retype are atomic to everyone.
THEOREM KeysHaveValues == Spec => []KeyHasValue
<1>1. IInv => KeyHasValue
  BY DEF IInv
<1> QED
  BY <1>1, InvariantHolds, PTL

\* At most one handle is inside a write transaction.
THEOREM OneWriter == Spec => []SingleWriter
<1>1. IInv => SingleWriter
  BY DEF IInv
<1> QED
  BY <1>1, InvariantHolds, PTL

\* No step of any setter, failing or not, loses a key or changes its id.  The id
\* that another setter holds from its lookup therefore never becomes the id of
\* another key.
THEOREM KeysNeverLost == Spec => KeysPersist
<1>1. ASSUME IInv, [Next]_vars
      PROVE  \A k \in db.keyInfo : \E n \in db'.keyInfo : n.key = k.key /\ n.id = k.id
  <2>1. CASE db' = db
    BY <2>1
  <2>2. ASSUME NEW h \in Handles, Commit(h) \/ CommitAborts(h)
        PROVE  \A k \in db.keyInfo : \E n \in db'.keyInfo : n.key = k.key /\ n.id = k.id
    BY <1>1, <2>2, CommitReady DEF Commit, CommitAborts
  <2> QED
    BY <1>1, <2>1, <2>2, OnlyCommitWrites
<1> QED
  BY <1>1, InvariantHolds, PTL DEF Spec, KeysPersist
=============================================================================
