------------------------ MODULE DatabaseSingleProofs ------------------------
(***************************************************************************)
(* What a client is promised that has the database for itself, for every   *)
(* number of keys, values, calls and faults the theorem allows.  None of   *)
(* it holds with a second handle.                                          *)
(*                                                                         *)
(* With one handle nothing happens between the lookup of a setter and its  *)
(* writes, so what it looked up is still so when it acts (SeenTrue), its   *)
(* transaction can be followed row by row (DirtyClean), and nobody touches *)
(* the file it wrote or removed (FileWritten, FileGone).                   *)
(***************************************************************************)
EXTENDS DatabaseProofs

----------------------------------------------------------------------------
(* The shape of a step. *)

\* What the invariant says of the one handle.
ClientOK(h) ==
    /\ req[h] \in Requests
    /\ SeenTrue(h)
    /\ Writing(h) => DirtyClean(h)
    /\ FileWritten(h)
    /\ FileGone(h)

LEMMA SingleFacts ==
    ASSUME SingleInv, NEW h \in Handles
    PROVE  /\ IInv /\ TypeOK /\ SingleWriter /\ Keyed(db) /\ db \in Tables /\ CleanTables(db)
           /\ \A k \in db.keyInfo : RowComplete(db, k)
           /\ HandleOK(h) /\ ClientOK(h)
           /\ req[h] \in Request /\ req[h].key \in Keys /\ req[h].type \in Types
           /\ row[h].id \in Nat
  BY DEF SingleInv, IInv, TypeOK, KeyHasValue, ClientOK, Request

LEMMA SingleStep ==
    ASSUME OneHandle, NEW h \in Handles, IInv', CleanTables(db)', ClientOK(h)'
    PROVE  SingleInv'
<1>1. \A g \in Handles : g = h
  BY DEF OneHandle
<1> QED
  BY <1>1 DEF SingleInv, ClientOK

\* The call ends and the tables are as they were.
LEMMA SingleReturn ==
    ASSUME OneHandle, NEW h \in Handles, SingleInv, IInv', db' = db,
           NEW code, NEW out, Return(h, code, out),
           Release(h) \/ (lock' = lock /\ ~Writing(h))
    PROVE  SingleInv'
<1>1. TypeOK /\ SingleWriter /\ CleanTables(db) /\ req[h] \in Requests
  BY DEF SingleInv, IInv
<1>2. pc'[h] = "idle" /\ row'[h] = NoRow /\ req' = req
  BY <1>1 DEF Return, Goto, TypeOK
<1>3. ~Writing(h)'
  <2>1. CASE Release(h)
    BY <1>1, <2>1, ReleaseTyped
  <2>2. CASE lock' = lock /\ ~Writing(h)
    BY <2>2 DEF Writing
  <2> QED
    BY <2>1, <2>2
<1>4. ClientOK(h)'
  <2>1. SeenTrue(h)'
    BY <1>2 DEF SeenTrue, NoRow
  <2>2. FileWritten(h)' /\ FileGone(h)'
    BY <1>2 DEF FileWritten, FileGone, Retyping, NoRow, WriteLabels
  <2> QED
    BY <1>1, <1>2, <1>3, <2>1, <2>2 DEF ClientOK
<1>5. CleanTables(db)'
  BY <1>1 DEF CleanTables
<1> QED
  BY <1>4, <1>5, SingleStep

\* The call goes on and does not write to the tables.
LEMMA SingleQuiet ==
    ASSUME OneHandle, NEW h \in Handles, SingleInv, IInv', db' = db, req' = req, ~Writing(h)',
           SeenTrue(h)', FileWritten(h)', FileGone(h)'
    PROVE  SingleInv'
<1>1. CleanTables(db)'
  BY DEF SingleInv, CleanTables
<1>2. ClientOK(h)'
  BY DEF SingleInv, ClientOK
<1> QED
  BY <1>1, <1>2, SingleStep

\* Rows of one key with one handle: a key has one row, and its value is of its type.
LEMMA CleanRows ==
    ASSUME NEW tables, CleanTables(tables), Keyed(tables),
           NEW k \in tables.keyInfo, NEW v \in tables.values, v.id = k.id
    PROVE  v.type = k.type
  BY DEF CleanTables, Keyed

----------------------------------------------------------------------------
(* The statements before the first write. *)

LEMMA CallSingle ==
    ASSUME OneHandle, SingleInv, IInv', NEW h \in Handles, NEW r \in Requests, Call(h, r)
    PROVE  SingleInv'
<1>1. TypeOK /\ HandleOK(h) /\ CleanTables(db) /\ pc[h] = "idle"
  BY SingleFacts DEF Call
<1>2. row[h].type = "none" /\ ~Writing(h)
  BY <1>1 DEF HandleOK, ControlOK
<1>3. /\ req'[h] = r /\ pc'[h] \in {"select", "lookup", "openFile"}
      /\ UNCHANGED <<db, dirty, lock, files>>
      /\ row'[h].type = row[h].type
      /\ r.op = "set" /\ r.type = "Blob" => pc'[h] = "openFile" /\ row'[h].path = PathOf[r.key]
  BY <1>1 DEF Call, Goto, Know, TypeOK
<1>4. ~Writing(h)'
  BY <1>2, <1>3 DEF Writing
<1>5. SeenTrue(h)'
  BY <1>2, <1>3 DEF SeenTrue
<1>6. FileWritten(h)' /\ FileGone(h)'
  BY <1>2, <1>3 DEF FileWritten, FileGone, Retyping, SetsBlob, WriteLabels
<1>7. CleanTables(db)'
  BY <1>1, <1>3 DEF CleanTables
<1>8. ClientOK(h)'
  BY <1>3, <1>4, <1>5, <1>6 DEF ClientOK
<1> QED
  BY <1>7, <1>8, SingleStep

LEMMA FileStepsSingle ==
    ASSUME OneHandle, SingleInv, IInv', NEW h \in Handles, SetsBlob(h),
           OpenBlobFile(h) \/ CheckBlobFile(h) \/ WriteBlobFile(h)
    PROVE  SingleInv'
<1>1. /\ TypeOK /\ HandleOK(h) /\ ClientOK(h) /\ UNCHANGED <<db, lock, req>>
      /\ pc[h] \in {"openFile", "checkFile", "writeFile"}
  BY SingleFacts DEF OpenBlobFile, CheckBlobFile, WriteBlobFile, Return
<1>2. ~Writing(h) /\ row[h].path \in Paths /\ req[h].type = "Blob"
  BY <1>1 DEF HandleOK, ControlOK, SetsBlob
<1>3. CASE Return(h, "INVALID", {})
  BY <1>1, <1>2, <1>3, SingleReturn
<1>4. CASE UNCHANGED row /\ pc'[h] \in {"checkFile", "writeFile", "lookup"}
           /\ (pc'[h] \in {"checkFile", "writeFile"} =>
                files'[row[h].path] # NoFile /\ files'[row[h].path].data = Torn /\ h \in Writers(row[h].path)')
           /\ (pc'[h] = "lookup" =>
                files'[row[h].path] # NoFile /\ files'[row[h].path].data = req[h].val)
  <2>1. ~Writing(h)'
    BY <1>1, <1>2 DEF Writing
  <2>2. SeenTrue(h)'
    BY <1>1, <1>4 DEF ClientOK, SeenTrue
  <2>3. FileWritten(h)'
    BY <1>1, <1>2, <1>4 DEF ClientOK, FileWritten, SetsBlob, WriteLabels, Writers
  <2>4. FileGone(h)'
    BY <1>1, <1>2, <1>4 DEF FileGone, Retyping
  <2> QED
    BY <1>1, <2>1, <2>2, <2>3, <2>4, SingleQuiet
<1>5. ASSUME NEW data \in Contents, NEW writers \in SUBSET Handles
      PROVE  [data |-> data, writers |-> writers] # NoFile
  BY <1>5, ConstantsAssumption DEF File
<1>6. Writers(row[h].path) \in SUBSET Handles
  BY <1>1, <1>2 DEF Writers, TypeOK, File
<1>7. CASE OpenBlobFile(h)
  <2>1. pc'[h] = "checkFile" /\ UNCHANGED row
    BY <1>1, <1>7 DEF OpenBlobFile, Goto, TypeOK
  <2>2. files'[row[h].path] = [data |-> Torn, writers |-> Writers(row[h].path) \cup {h}]
    BY <1>1, <1>2, <1>7 DEF OpenBlobFile, TypeOK
  <2>3. files'[row[h].path] # NoFile
    BY <1>5, <1>6, <2>2 DEF Contents
  <2>4. h \in Writers(row[h].path)'
    BY <2>1, <2>2, <2>3 DEF Writers
  <2> QED
    BY <1>4, <2>1, <2>2, <2>3, <2>4
<1>8. CASE CheckBlobFile(h) /\ ~Return(h, "INVALID", {})
  <2>1. pc'[h] = "writeFile" /\ UNCHANGED <<row, files>>
    BY <1>1, <1>8 DEF CheckBlobFile, Goto, TypeOK
  <2>2. files[row[h].path] # NoFile /\ files[row[h].path].data = Torn /\ h \in Writers(row[h].path)
    BY <1>1, <1>8 DEF ClientOK, FileWritten, CheckBlobFile
  <2>3. Writers(row[h].path)' = Writers(row[h].path)
    BY <2>1 DEF Writers
  <2> QED
    BY <1>4, <2>1, <2>2, <2>3
<1>9. CASE WriteBlobFile(h)
  <2>1. pc'[h] = "lookup" /\ UNCHANGED row
    BY <1>1, <1>9 DEF WriteBlobFile, Goto, TypeOK
  <2>2. files[row[h].path] # NoFile /\ files[row[h].path].data = Torn /\ h \in Writers(row[h].path)
    BY <1>1, <1>9 DEF ClientOK, FileWritten, WriteBlobFile
  <2>3. files' = [files EXCEPT ![row[h].path] =
                        [data |-> req[h].val, writers |-> Writers(row[h].path) \ {h}]]
    BY <1>9, <2>2 DEF WriteBlobFile
  <2>4. files'[row[h].path] = [data |-> req[h].val, writers |-> Writers(row[h].path) \ {h}]
    BY <1>1, <1>2, <2>3 DEF TypeOK
  <2>5. req[h].val \in Contents
    BY <1>1 DEF TypeOK, Request, Contents
  <2>6. files'[row[h].path] # NoFile
    BY <1>5, <1>6, <2>4, <2>5
  <2> QED
    BY <1>4, <2>1, <2>4, <2>6
<1> QED
  BY <1>3, <1>7, <1>8, <1>9

\* Up to the first write, a step of a setter that leaves the files alone.
LEMMA SingleBefore ==
    ASSUME OneHandle, SingleInv, IInv', NEW h \in Handles,
           pc[h] \in {"lookup", "looked"}, SetsBlob(h) => pc[h] = "lookup", NEW label \in WriteLabels \cup {"looked", "findFile"},
           Goto(h, label), UNCHANGED <<db, files, req>>, ~Writing(h)',
           row'[h].path = row[h].path, SeenTrue(h)', label = "findFile" => Retyping(h)',
           Retyping(h)' => label \in {"looked", "findFile"}
    PROVE  SingleInv'
<1>1. ClientOK(h) /\ TypeOK
  BY SingleFacts
<1>2. pc'[h] = label
  BY <1>1, GotoTyped DEF Labels
<1>3. FileWritten(h)'
  BY <1>1, <1>2 DEF ClientOK, FileWritten, SetsBlob, WriteLabels
<1>4. FileGone(h)'
  BY <1>2 DEF FileGone, WriteLabels
<1> QED
  BY <1>3, <1>4, SingleQuiet

LEMMA LookupSingle ==
    ASSUME OneHandle, SingleInv, IInv', NEW h \in Handles, req[h].op = "set", Lookup(h)
    PROVE  SingleInv'
<1>1. TypeOK /\ HandleOK(h) /\ pc[h] = "lookup" /\ UNCHANGED <<db, files, req>>
  BY SingleFacts DEF Lookup
<1>2. ~Writing(h)'
  BY <1>1, SelectTakesShared DEF Lookup
<1>3. CASE /\ \A k \in db.keyInfo : k.key # req[h].key
           /\ Goto(h, IF SetsBlob(h) THEN BranchOf(h, "none") ELSE "looked")
           /\ UNCHANGED row
  <2>1. row[h].type = "none"
    BY <1>1, <1>3 DEF HandleOK, LookupOK
  <2>2. PICK label \in {"insertKey", "looked"} : Goto(h, label)
    BY <1>1, <1>3, Branches
  <2>3. pc'[h] = label
    BY <1>1, <2>2, GotoTyped DEF Labels, WriteLabels
  <2>4. SeenTrue(h)'
    BY <1>1, <1>2, <1>3, <2>1, <2>3 DEF SeenTrue
  <2>5. ~Retyping(h)'
    BY <1>3, <2>1 DEF Retyping
  <2> QED
    BY <1>1, <1>2, <1>3, <2>2, <2>4, <2>5, SingleBefore DEF WriteLabels
<1>4. ASSUME NEW k \in db.keyInfo, k.key = req[h].key,
             Goto(h, IF SetsBlob(h) THEN BranchOf(h, k.type) ELSE "looked"),
             Know(h, k.id, k.type, row[h].path)
      PROVE  SingleInv'
  <2>1. k.type \in Types /\ k.type # "none"
    BY <1>1 DEF TypeOK, Tables, KeyRow, Types
  <2>2. row'[h].id = k.id /\ row'[h].type = k.type /\ row'[h].path = row[h].path
    BY <1>1, <1>4 DEF Know, TypeOK
  <2>3. BranchOf(h, k.type) = "update" => k.type = req[h].type
    BY DEF BranchOf
  <2>4. PICK label \in {"update", "deleteValue", "looked"} :
            /\ Goto(h, label) /\ (label = "update" => k.type = req[h].type)
            /\ label # "looked" => SetsBlob(h)
    BY <1>1, <1>4, <2>1, <2>3, Branches
  <2>5. pc'[h] = label
    BY <1>1, <2>4, GotoTyped DEF Labels, WriteLabels
  <2>6. SeenTrue(h)'
    BY <1>1, <1>4, <2>1, <2>2, <2>4, <2>5 DEF SeenTrue
  <2>7. ~Retyping(h)' \/ label \in {"looked", "findFile"}
    BY <1>1, <2>4 DEF Retyping, SetsBlob
  <2> QED
    BY <1>1, <1>2, <2>2, <2>4, <2>6, <2>7, SingleBefore DEF WriteLabels
<1> QED
  BY <1>3, <1>4 DEF Lookup

LEMMA EndLookupSingle ==
    ASSUME OneHandle, SingleInv, IInv', NEW h \in Handles,
           req[h].op = "set", ~SetsBlob(h), EndLookup(h)
    PROVE  SingleInv'
<1>1. /\ TypeOK /\ SingleWriter /\ ClientOK(h) /\ pc[h] = "looked"
      /\ UNCHANGED <<db, files, req, row>>
  BY SingleFacts DEF EndLookup
<1>2. ~Writing(h)'
  BY <1>1, ReleaseTyped DEF EndLookup
<1>3. /\ BranchOf(h, row[h].type) = "update" => row[h].type = req[h].type
      /\ BranchOf(h, row[h].type) = "insertKey" => row[h].type = "none"
  BY DEF BranchOf
<1>4. PICK label \in {"insertKey", "update", "deleteValue", "findFile"} :
        /\ Goto(h, label) /\ (label = "update" => row[h].type = req[h].type)
        /\ label = "insertKey" => row[h].type = "none"
        /\ Retyping(h) <=> label = "findFile"
  <2>1. row[h].type \in Types \/ row[h].type = "none"
    BY <1>1 DEF TypeOK
  <2> QED
    BY <1>1, <1>3, <2>1, Branches DEF EndLookup, DeletesFile, Retyping
<1>5. pc'[h] = label
  BY <1>1, <1>4, GotoTyped DEF Labels, WriteLabels
<1>6. SeenTrue(h)'
  BY <1>1, <1>2, <1>4, <1>5 DEF ClientOK, SeenTrue
<1>7. /\ label = "findFile" => Retyping(h)'
      /\ Retyping(h)' => label \in {"looked", "findFile"}
  BY <1>1, <1>4 DEF Retyping
<1> QED
  BY <1>1, <1>2, <1>4, <1>6, <1>7, SingleBefore DEF WriteLabels

\* The path that set_int64 reads is that of the one blob row of the key.
LEMMA FindBlobFileSingle ==
    ASSUME OneHandle, SingleInv, IInv', NEW h \in Handles, ~SetsBlob(h), FindBlobFile(h)
    PROVE  SingleInv'
<1>1. /\ TypeOK /\ ClientOK(h) /\ Keyed(db) /\ CleanTables(db) /\ pc[h] = "findFile"
      /\ UNCHANGED <<db, files, req>>
  BY SingleFacts DEF FindBlobFile
<1>2. ~Writing(h)' /\ pc'[h] = "foundFile"
  BY <1>1, SelectTakesShared DEF FindBlobFile, Goto, TypeOK
<1>3. row'[h].id = row[h].id /\ row'[h].type = row[h].type
  BY <1>1 DEF FindBlobFile, Know, TypeOK
<1>4. SeenTrue(h)'
  BY <1>1, <1>2, <1>3 DEF ClientOK, SeenTrue
<1>5. FileWritten(h)'
  BY <1>1 DEF FileWritten, SetsBlob
<1>6. FileGone(h)'
  <2>1. Retyping(h) /\ Retyping(h)'
    BY <1>1, <1>3 DEF ClientOK, FileGone, Retyping
  <2>2. SUFFICES ASSUME NEW w \in db.values, w.type = "Blob", w.id = row[h].id
                 PROVE  w.val = row'[h].path
    BY <1>1, <1>2, <1>3, <2>1 DEF FileGone, WriteLabels
  <2>3. PICK k \in db.keyInfo : k.key = req[h].key /\ k.id = row[h].id /\ k.type = "Blob"
    BY <1>1, <2>1 DEF ClientOK, SeenTrue, Retyping
  <2>4. w \in BlobRows(req[h].key)
    BY <2>2, <2>3 DEF BlobRows
  <2>5. PICK v \in BlobRows(req[h].key) : Know(h, row[h].id, row[h].type, v.val)
    BY <2>4 DEF FindBlobFile
  <2>6. v = w
    BY <1>1, <2>2, <2>3, <2>5 DEF BlobRows, Keyed, CleanTables
  <2>7. row'[h].path = v.val
    BY <1>1, <2>5 DEF Know, TypeOK
  <2> QED
    BY <2>6, <2>7
<1> QED
  BY <1>1, <1>2, <1>4, <1>5, <1>6, SingleQuiet

LEMMA EndFindBlobFileSingle ==
    ASSUME OneHandle, SingleInv, IInv', NEW h \in Handles, ~SetsBlob(h), EndFindBlobFile(h)
    PROVE  SingleInv'
<1>1. /\ TypeOK /\ SingleWriter /\ ClientOK(h) /\ pc[h] = "foundFile"
      /\ UNCHANGED <<db, files>> /\ Release(h)
  BY SingleFacts DEF EndFindBlobFile
<1>2. CASE row[h].path = NoPath
  BY <1>1, <1>2, SingleReturn DEF EndFindBlobFile
<1>3. CASE row[h].path # NoPath
  <2>1. UNCHANGED <<req, row>> /\ pc'[h] = "unlink" /\ ~Writing(h)'
    BY <1>1, <1>3, ReleaseTyped DEF EndFindBlobFile, Goto, TypeOK
  <2>2. SeenTrue(h)' /\ FileWritten(h)'
    BY <1>1, <2>1 DEF ClientOK, SeenTrue, FileWritten, SetsBlob
  <2>3. Retyping(h)' /\ \A v \in db'.values : v.type = "Blob" /\ v.id = row'[h].id => v.val = row'[h].path
    BY <1>1, <2>1 DEF ClientOK, FileGone, Retyping
  <2>4. FileGone(h)'
    BY <2>1, <2>3 DEF FileGone, WriteLabels
  <2> QED
    BY <1>1, <2>1, <2>2, <2>4, SingleQuiet
<1> QED
  BY <1>2, <1>3

LEMMA UnlinkSingle ==
    ASSUME OneHandle, SingleInv, IInv', NEW h \in Handles, ~SetsBlob(h),
           UnlinkBlobFile(h) \/ RemoveFails(h)
    PROVE  SingleInv'
<1>1. /\ TypeOK /\ HandleOK(h) /\ ClientOK(h) /\ pc[h] = "unlink" /\ UNCHANGED <<db, lock>>
  BY SingleFacts DEF UnlinkBlobFile, RemoveFails, Fault
<1>2. ~Writing(h) /\ row[h].path \in Paths
  BY <1>1 DEF HandleOK, ControlOK
<1>3. CASE Return(h, "INVALID", {})
  BY <1>1, <1>2, <1>3, SingleReturn
<1>4. CASE ~Return(h, "INVALID", {})
  <2>1. UNCHANGED <<req, row>> /\ pc'[h] = "deleteValue"
    BY <1>1, <1>4 DEF UnlinkBlobFile, RemoveFails, Goto, TypeOK
  <2>2. "io" \notin FaultKinds => files'[row[h].path] = NoFile
    BY <1>1, <1>2, <1>4 DEF UnlinkBlobFile, RemoveFails, Fault, TypeOK
  <2>3. SeenTrue(h)' /\ FileWritten(h)'
    BY <1>1, <2>1 DEF ClientOK, SeenTrue, FileWritten, SetsBlob
  <2>4. FileGone(h)'
    BY <1>1, <2>1, <2>2 DEF ClientOK, FileGone, Retyping, WriteLabels
  <2>5. ~Writing(h)'
    BY <1>1, <1>2 DEF Writing
  <2> QED
    BY <1>1, <2>1, <2>3, <2>4, <2>5, SingleQuiet
<1> QED
  BY <1>3, <1>4

----------------------------------------------------------------------------
(* The functions that read, and the calls that end without effect. *)

LEMMA SelectsSingle ==
    ASSUME OneHandle, SingleInv, IInv', NEW h \in Handles, req[h].op # "set",
           NEW code, NEW out, NEW path, SelectStep(h, code, out, path)
    PROVE  SingleInv'
<1>1. TypeOK /\ ClientOK(h) /\ UNCHANGED <<db, files, req>>
  BY SingleFacts DEF SelectStep
<1>2. /\ ~Writing(h)' /\ pc'[h] = "selected"
      /\ row'[h].id = row[h].id /\ row'[h].type = row[h].type
  BY <1>1, SelectTakesShared DEF SelectStep, Goto, Know, TypeOK
<1>3. SeenTrue(h)'
  BY <1>1, <1>2 DEF ClientOK, SeenTrue
<1>4. FileWritten(h)' /\ FileGone(h)'
  BY <1>1, <1>2 DEF FileWritten, FileGone, SetsBlob, Retyping
<1> QED
  BY <1>1, <1>2, <1>3, <1>4, SingleQuiet

LEMMA EndReadsSingle ==
    ASSUME OneHandle, SingleInv, IInv', NEW h \in Handles, req[h].op # "set",
           EndSelect(h) \/ ReadBlobFile(h)
    PROVE  SingleInv'
<1>1. TypeOK /\ SingleWriter /\ HandleOK(h) /\ ClientOK(h) /\ db' = db
  BY SingleFacts DEF EndSelect, ReadBlobFile
<1>2. CASE ReadBlobFile(h)
  <2>1. ~Writing(h) /\ lock' = lock
    BY <1>1, <1>2 DEF HandleOK, ControlOK, ReadBlobFile
  <2> QED
    BY <1>1, <1>2, <2>1, SingleReturn DEF ReadBlobFile
<1>3. CASE EndSelect(h) /\ row[h].path = NoPath
  BY <1>1, <1>3, SingleReturn DEF EndSelect
<1>4. CASE EndSelect(h) /\ row[h].path # NoPath
  <2>1. UNCHANGED <<files, req, row>> /\ pc'[h] = "readFile" /\ ~Writing(h)'
    BY <1>1, <1>4, ReleaseTyped DEF EndSelect, Goto, TypeOK
  <2>2. SeenTrue(h)'
    BY <1>1, <2>1 DEF ClientOK, SeenTrue
  <2>3. FileWritten(h)' /\ FileGone(h)'
    BY <2>1 DEF FileWritten, FileGone, SetsBlob, Retyping
  <2> QED
    BY <1>1, <2>1, <2>2, <2>3, SingleQuiet
<1> QED
  BY <1>2, <1>3, <1>4

LEMMA EndsSingle ==
    ASSUME OneHandle, SingleInv, IInv', NEW h \in Handles,
           \/ SelectBusy(h) \/ StatementFails(h) \/ OutOfMemory(h) \/ FileFails(h)
           \/ CommitFails(h) \/ Kill(h)
    PROVE  SingleInv'
<1>1. TypeOK /\ HandleOK(h) /\ db' = db
  BY SingleFacts DEF SelectBusy, StatementFails, OutOfMemory, FileFails, CommitFails, Kill, Fault
<1>2. \E code, out : Return(h, code, out)
  BY DEF SelectBusy, StatementFails, OutOfMemory, FileFails, CommitFails, Kill
<1>3. Release(h) \/ (lock' = lock /\ ~Writing(h))
  <2>1. CASE SelectBusy(h) \/ FileFails(h)
    BY <1>1, <2>1 DEF SelectBusy, FileFails, HandleOK, ControlOK
  <2>2. CASE ~(SelectBusy(h) \/ FileFails(h))
    BY <2>2 DEF StatementFails, OutOfMemory, CommitFails, Kill
  <2> QED
    BY <2>1, <2>2
<1> QED
  BY <1>1, <1>2, <1>3, SingleReturn

----------------------------------------------------------------------------
(* The write statements. *)

\* A write statement that is not COMMIT.
LEMMA WriteSingle ==
    ASSUME OneHandle, SingleInv, IInv', NEW h \in Handles, pc[h] \in WriteLabels,
           NEW next \in WriteLabels, NEW tables \in Tables, WriteStep(h, next, tables),
           row'[h].type = row[h].type, row'[h].path = row[h].path,
           row[h].type # "none" => row'[h].id = row[h].id,
           next # "update",
           next = "insertKey" => row[h].type # "none",
           DirtyClean(h)'
    PROVE  SingleInv'
<1>1. IInv /\ TypeOK /\ ClientOK(h) /\ CleanTables(db)
  BY SingleFacts
<1>2. next \in Labels
  BY DEF Labels
<1>3. pc'[h] = next /\ UNCHANGED <<db, files, req>>
  BY <1>1, <1>2, WriteStepTyped
<1>4. SeenTrue(h)'
  <2>1. SeenTrue(h) /\ next # "looked"
    BY <1>1 DEF ClientOK, WriteLabels
  <2>2. row'[h].type # "none" => \E k \in db'.keyInfo :
            k.key = req'[h].key /\ k.id = row'[h].id /\ k.type = row'[h].type
    BY <1>3, <2>1 DEF SeenTrue
  <2>3. ~(pc'[h] \in {"looked", "insertKey"} /\ row'[h].type = "none")
    BY <1>3, <2>1
  <2>4. pc'[h] = "update" => row'[h].type = req'[h].type
    BY <1>3, <2>1 DEF SeenTrue
  <2> QED
    BY <2>2, <2>3, <2>4 DEF SeenTrue
<1>5. FileWritten(h)'
  BY <1>1, <1>3 DEF ClientOK, FileWritten, SetsBlob, WriteLabels
<1>6. FileGone(h)'
  BY <1>1, <1>3 DEF ClientOK, FileGone, Retyping, WriteLabels
<1>7. CleanTables(db)'
  BY <1>1, <1>3 DEF CleanTables
<1>8. ClientOK(h)'
  BY <1>1, <1>3, <1>4, <1>5, <1>6 DEF ClientOK
<1> QED
  BY <1>7, <1>8, SingleStep

LEMMA DeleteValueSingle ==
    ASSUME OneHandle, SingleInv, IInv', NEW h \in Handles, DeleteValue(h)
    PROVE  SingleInv'
<1> DEFINE rest == {v \in db.values : v.type # row[h].type \/ v.id # row[h].id}
           tables == [db EXCEPT !.values = rest]
<1>1. /\ IInv /\ TypeOK /\ HandleOK(h) /\ ClientOK(h) /\ pc[h] = "deleteValue"
      /\ Keyed(db) /\ db \in Tables /\ CleanTables(db)
  BY SingleFacts DEF DeleteValue
<1>2. ~Writing(h) /\ row[h].type # "none"
  BY <1>1 DEF HandleOK, ControlOK
<1>3. /\ tables \in Tables
      /\ tables.keyInfo = db.keyInfo /\ tables.values = rest /\ tables.seq = db.seq
  BY <1>1 DEF Tables
<1>4. WriteStep(h, "deleteKey", tables) /\ UNCHANGED row
  BY <1>2 DEF DeleteValue, Image
<1>5. \A v \in rest : v.id # row[h].id
  BY <1>1, <1>2, CleanRows DEF ClientOK, SeenTrue
<1> HIDE DEF tables
<1>6. dirty' = tables /\ pc'[h] = "deleteKey" /\ UNCHANGED <<db, req>>
  BY <1>1, <1>3, <1>4, WriteStepTyped DEF Labels, WriteLabels
<1>7. CleanTables(tables)
  BY <1>1, <1>3 DEF CleanTables
<1>8. DirtyClean(h)'
  BY <1>2, <1>3, <1>4, <1>5, <1>6, <1>7 DEF DirtyClean, CleanTables
<1> QED
  BY <1>1, <1>3, <1>4, <1>8, WriteSingle DEF WriteLabels

LEMMA DeleteKeySingle ==
    ASSUME OneHandle, SingleInv, IInv', NEW h \in Handles, DeleteKey(h)
    PROVE  SingleInv'
<1> DEFINE rest == {k \in dirty.keyInfo : k.id # row[h].id}
           tables == [dirty EXCEPT !.keyInfo = rest]
<1>1. /\ IInv /\ TypeOK /\ HandleOK(h) /\ ClientOK(h) /\ pc[h] = "deleteKey"
      /\ dirty \in Tables
  BY SingleFacts DEF DeleteKey, TypeOK
<1>2. Writing(h) /\ row[h].type # "none"
  BY <1>1 DEF HandleOK, ControlOK
<1>3. DirtyClean(h)
  BY <1>1, <1>2 DEF ClientOK
<1>4. /\ tables \in Tables
      /\ tables.keyInfo = rest /\ tables.values = dirty.values /\ tables.seq = dirty.seq
  BY <1>1 DEF Tables
<1>5. WriteStep(h, "insertKey", tables) /\ UNCHANGED row
  BY <1>2 DEF DeleteKey, Image
<1> HIDE DEF tables
<1>6. dirty' = tables /\ pc'[h] = "insertKey" /\ UNCHANGED <<db, req>>
  BY <1>1, <1>4, <1>5, WriteStepTyped DEF Labels, WriteLabels
<1>7. CleanTables(tables)
  <2>1. \A v \in dirty.values : v.id # row[h].id
    BY <1>1, <1>3 DEF DirtyClean
  <2> QED
    BY <1>3, <1>4, <2>1 DEF DirtyClean, CleanTables
<1>8. DirtyClean(h)'
  BY <1>1, <1>2, <1>3, <1>4, <1>5, <1>6, <1>7 DEF DirtyClean, CleanTables
<1> QED
  BY <1>1, <1>2, <1>4, <1>5, <1>8, WriteSingle DEF WriteLabels

\* A key that is set for the first time gets an id no value row has; a key that is
\* retyped has none left.
LEMMA InsertKeySees ==
    ASSUME SingleInv, NEW h \in Handles, pc[h] = "insertKey"
    PROVE  /\ Image(h) \in Tables /\ CleanTables(Image(h)) /\ KeyId(h) \in Nat
           /\ row[h].type # "none" => Writing(h) /\ KeyId(h) = row[h].id
           /\ row[h].type = "none" => Image(h) = db /\ KeyId(h) = db.seq + 1
           /\ \A v \in Image(h).values : v.id # KeyId(h)
           /\ {v \in Image(h).values : v.id # KeyId(h)} = {v \in db.values : v.id # KeyId(h)}
           /\ row[h].type = "none" => \A v \in db.values : v.id # KeyId(h)
<1>1. TypeOK /\ HandleOK(h) /\ ClientOK(h) /\ CleanTables(db) /\ db \in Tables /\ row[h].id \in Nat
  BY SingleFacts
<1>2. Image(h) \in Tables
  BY <1>1, ImageTyped
<1>3. CASE row[h].type = "none"
  <2>1. ~Writing(h) /\ Image(h) = db
    BY <1>1, <1>3 DEF ClientOK, SeenTrue, Image
  <2>2. KeyId(h) = db.seq + 1 /\ db.seq \in Nat
    BY <1>1, <1>3, <2>1 DEF KeyId, Tables
  <2>3. \A k \in db.keyInfo : k.id \in Nat
    BY <1>1 DEF Tables, KeyRow
  <2>4. \A v \in db.values : v.id # KeyId(h)
    BY <1>1, <2>2, <2>3 DEF CleanTables
  <2> QED
    BY <1>1, <1>3, <2>1, <2>2, <2>4
<1>4. CASE row[h].type # "none"
  <2>1. Writing(h) /\ Image(h) = dirty
    BY <1>1, <1>4 DEF HandleOK, ControlOK, Image
  <2>2. KeyId(h) = row[h].id
    BY <1>4 DEF KeyId
  <2>3. DirtyClean(h)
    BY <1>1, <2>1 DEF ClientOK
  <2> QED
    BY <1>1, <1>2, <1>4, <2>1, <2>2, <2>3 DEF DirtyClean
<1> QED
  BY <1>3, <1>4

LEMMA InsertKeySingle ==
    ASSUME OneHandle, SingleInv, IInv', NEW h \in Handles, req[h].op = "set", InsertKey(h)
    PROVE  SingleInv'
<1> DEFINE id == KeyId(h)
           new == [id |-> id, key |-> req[h].key, type |-> req[h].type]
           seq == IF id > Image(h).seq THEN id ELSE Image(h).seq
           tables == [Image(h) EXCEPT !.keyInfo = @ \cup {new}, !.seq = seq]
<1>1. TypeOK /\ IInv /\ ClientOK(h) /\ pc[h] = "insertKey" /\ req[h] \in Request
  BY SingleFacts DEF InsertKey
<1>2. /\ Image(h) \in Tables /\ CleanTables(Image(h)) /\ id \in Nat
      /\ row[h].type # "none" => id = row[h].id
      /\ \A v \in Image(h).values : v.id # id
      /\ {v \in Image(h).values : v.id # id} = {v \in db.values : v.id # id}
      /\ row[h].type = "none" => \A v \in db.values : v.id # id
  BY <1>1, InsertKeySees
<1>3. WriteStep(h, "insertValue", tables) /\ Know(h, id, row[h].type, row[h].path)
  BY DEF InsertKey
<1>4. new \in KeyRow /\ new.id = id /\ new.key = req[h].key /\ new.type = req[h].type
  BY <1>1, <1>2 DEF KeyRow, Request
<1>5. /\ seq \in Nat /\ id <= seq
      /\ \A k \in Image(h).keyInfo : k.id <= Image(h).seq => k.id <= seq
  <2>1. Image(h).seq \in Nat /\ \A k \in Image(h).keyInfo : k.id \in Nat
    BY <1>2 DEF Tables, KeyRow
  <2> QED
    BY <1>2, <2>1
<1> HIDE DEF id, new, seq
<1>6. /\ tables \in Tables /\ tables.keyInfo = Image(h).keyInfo \cup {new}
      /\ tables.values = Image(h).values /\ tables.seq = seq
  BY <1>2, <1>4, <1>5 DEF Tables
<1> HIDE DEF tables
<1>7. dirty' = tables /\ pc'[h] = "insertValue" /\ UNCHANGED <<db, req>>
  BY <1>1, <1>3, <1>6, WriteStepTyped DEF Labels, WriteLabels
<1>8. row'[h].id = id /\ row'[h].type = row[h].type /\ row'[h].path = row[h].path
  BY <1>1, <1>3 DEF Know, TypeOK
<1>9. CleanTables(tables)
  BY <1>2, <1>4, <1>5, <1>6 DEF CleanTables
<1>10. DirtyClean(h)'
  BY <1>2, <1>4, <1>6, <1>7, <1>8, <1>9 DEF DirtyClean
<1>11. pc[h] \in WriteLabels
  BY <1>1 DEF WriteLabels
<1> QED
  BY <1>2, <1>3, <1>6, <1>8, <1>10, <1>11, WriteSingle DEF WriteLabels

\* Nobody is there to have inserted the key in between.
LEMMA InsertKeyAccepted ==
    ASSUME SingleInv, NEW h \in Handles
    PROVE  ~InsertKeyRefused(h)
<1>1. SUFFICES ASSUME InsertKeyRefused(h)  PROVE FALSE
  OBVIOUS
<1>2. HandleOK(h) /\ ClientOK(h) /\ CleanTables(db) /\ db \in Tables /\ pc[h] = "insertKey" /\ ~Writing(h)
  BY <1>1, SingleFacts DEF InsertKeyRefused
<1>3. row[h].type = "none"
  BY <1>2 DEF HandleOK, ControlOK
<1>4. Image(h) = db /\ KeyId(h) = db.seq + 1
  BY <1>2, <1>3, InsertKeySees
<1>5. \A k \in db.keyInfo : k.key # req[h].key
  BY <1>2, <1>3 DEF ClientOK, SeenTrue
<1>6. db.seq \in Nat /\ \A k \in db.keyInfo : k.id \in Nat
  BY <1>2 DEF Tables, KeyRow
<1>7. \A k \in db.keyInfo : k.id # db.seq + 1
  BY <1>2, <1>6 DEF CleanTables
<1> QED
  BY <1>1, <1>4, <1>5, <1>7 DEF InsertKeyRefused, KeyInfoAccepts

LEMMA InsertValueSingle ==
    ASSUME OneHandle, SingleInv, IInv', NEW h \in Handles, req[h].op = "set", InsertValue(h)
    PROVE  SingleInv'
<1> DEFINE new == [type |-> req[h].type, id |-> row[h].id, val |-> Stored(h)]
           tables == [dirty EXCEPT !.values = @ \cup {new}]
<1>1. /\ IInv /\ TypeOK /\ HandleOK(h) /\ ClientOK(h) /\ pc[h] = "insertValue"
      /\ dirty \in Tables /\ row[h].id \in Nat
  BY SingleFacts DEF InsertValue, TypeOK
<1>2. Writing(h)
  BY <1>1 DEF HandleOK, ControlOK
<1>3. DirtyClean(h)
  BY <1>1, <1>2 DEF ClientOK
<1>4. new \in ValueRow /\ new.type = req[h].type /\ new.id = row[h].id
  BY <1>1, StoredFits
<1>5. WriteStep(h, "commit", tables) /\ UNCHANGED row
  BY <1>2 DEF InsertValue, Image
<1>6. new = [type |-> req[h].type, id |-> row[h].id, val |-> Stored(h)]
  OBVIOUS
<1> HIDE DEF new
<1>7. /\ tables \in Tables /\ tables.keyInfo = dirty.keyInfo
      /\ tables.values = dirty.values \cup {new} /\ tables.seq = dirty.seq
  BY <1>1, <1>4 DEF Tables
<1> HIDE DEF tables
<1>8. dirty' = tables /\ pc'[h] = "commit" /\ UNCHANGED <<db, req>>
  BY <1>1, <1>5, <1>7, WriteStepTyped DEF Labels, WriteLabels
<1>9. PICK k \in dirty.keyInfo : k.key = req[h].key /\ k.id = row[h].id /\ k.type = req[h].type
  BY <1>1, <1>3 DEF DirtyClean
<1>10. \A v \in dirty.values : v.id # row[h].id
  BY <1>1, <1>3 DEF DirtyClean
<1>11. CleanTables(tables)
  BY <1>3, <1>4, <1>7, <1>9, <1>10 DEF DirtyClean, CleanTables
<1>12. {v \in tables.values : v.id # row[h].id} = {v \in db.values : v.id # row[h].id}
  BY <1>3, <1>4, <1>7 DEF DirtyClean
<1>13. Stored(h)' = Stored(h)
  BY <1>5, <1>8 DEF Stored
<1>14. [type |-> k.type, id |-> k.id, val |-> Stored(h)] \in tables.values
  BY <1>6, <1>7, <1>9
<1>15. DirtyClean(h)'
  BY <1>3, <1>5, <1>7, <1>8, <1>9, <1>11, <1>12, <1>13, <1>14 DEF DirtyClean
<1> QED
  BY <1>1, <1>5, <1>7, <1>15, WriteSingle DEF WriteLabels

\* The row an UPDATE is about to overwrite is there, and is the only one of its id.
LEMMA UpdateSees ==
    ASSUME SingleInv, NEW h \in Handles, pc[h] = "update"
    PROVE  /\ Image(h) = db
           /\ \E k \in db.keyInfo :
                /\ k.key = req[h].key /\ k.id = row[h].id /\ k.type = req[h].type
                /\ \E v \in db.values : v.type = req[h].type /\ v.id = row[h].id
           /\ row[h].type # "none"
<1>1. ClientOK(h) /\ req[h].type \in Types /\ \A k \in db.keyInfo : RowComplete(db, k)
  BY SingleFacts
<1>2. Image(h) = db
  BY SingleFacts DEF HandleOK, ControlOK, Image
<1>3. row[h].type = req[h].type /\ row[h].type # "none"
  BY <1>1 DEF ClientOK, SeenTrue, Types
<1>4. PICK k \in db.keyInfo : k.key = req[h].key /\ k.id = row[h].id /\ k.type = req[h].type
  BY <1>1, <1>3 DEF ClientOK, SeenTrue
<1>5. \E v \in db.values : v.type = req[h].type /\ v.id = row[h].id
  BY <1>1, <1>4 DEF RowComplete
<1> QED
  BY <1>2, <1>3, <1>4, <1>5

LEMMA UpdateValueSingle ==
    ASSUME OneHandle, SingleInv, IInv', NEW h \in Handles, req[h].op = "set", UpdateValue(h)
    PROVE  SingleInv'
<1> DEFINE Updated(v) ==
                IF v.type = req[h].type /\ v.id = row[h].id THEN [v EXCEPT !.val = Stored(h)] ELSE v
           new == {Updated(v) : v \in db.values}
           tables == [db EXCEPT !.values = new]
<1>1. /\ IInv /\ TypeOK /\ ClientOK(h) /\ CleanTables(db) /\ pc[h] = "update"
      /\ db \in Tables /\ row[h].id \in Nat
  BY SingleFacts DEF UpdateValue
<1>2. Image(h) = db /\ row[h].type # "none"
  BY <1>1, UpdateSees
<1>3. PICK k \in db.keyInfo :
        /\ k.key = req[h].key /\ k.id = row[h].id /\ k.type = req[h].type
        /\ \E v \in db.values : v.type = req[h].type /\ v.id = row[h].id
  BY <1>1, UpdateSees
<1>4. PICK old \in db.values : old.type = req[h].type /\ old.id = row[h].id
  BY <1>3
<1>5. ASSUME NEW v \in ValueRow
      PROVE  /\ Updated(v) \in ValueRow /\ Updated(v).type = v.type /\ Updated(v).id = v.id
             /\ v.id # row[h].id => Updated(v) = v
             /\ (v.type = req[h].type /\ v.id = row[h].id) =>
                    Updated(v) = [type |-> req[h].type, id |-> row[h].id, val |-> Stored(h)]
  <2>1. v.type = req[h].type => [v EXCEPT !.val = Stored(h)] \in ValueRow
    BY <1>1, StoredFits
  <2>2. /\ [v EXCEPT !.val = Stored(h)].type = v.type
        /\ [v EXCEPT !.val = Stored(h)].id = v.id
    BY DEF ValueRow
  <2>3. (v.type = req[h].type /\ v.id = row[h].id) =>
            [v EXCEPT !.val = Stored(h)] = [type |-> req[h].type, id |-> row[h].id, val |-> Stored(h)]
    BY DEF ValueRow
  <2> QED
    BY <2>1, <2>2, <2>3
<1>6. db.values \subseteq ValueRow
  BY <1>1 DEF Tables
<1>7. WriteStep(h, "commit", tables) /\ UNCHANGED row
  BY <1>2 DEF UpdateValue
<1> HIDE DEF Updated
<1>8. new \subseteq ValueRow
  BY <1>5, <1>6
<1>9. /\ tables \in Tables /\ tables.keyInfo = db.keyInfo
      /\ tables.values = new /\ tables.seq = db.seq
  BY <1>1, <1>8 DEF Tables
<1>10. CleanTables(tables)
  <2>1. \A v \in new : \E i \in db.keyInfo : i.id = v.id /\ i.type = v.type
    BY <1>1, <1>5, <1>6 DEF CleanTables
  <2>2. ASSUME NEW v \in db.values, NEW w \in db.values, Updated(v).id = Updated(w).id
        PROVE  v = w
    BY <1>1, <1>5, <1>6, <2>2 DEF CleanTables
  <2>3. \A v, w \in new : v.id = w.id => v = w
    BY <2>2
  <2> HIDE DEF tables, new
  <2> QED
    BY <1>1, <1>9, <2>1, <2>3 DEF CleanTables
<1>11. {v \in new : v.id # row[h].id} = {v \in db.values : v.id # row[h].id}
  BY <1>5, <1>6
<1>12. [type |-> k.type, id |-> k.id, val |-> Stored(h)] \in new
  BY <1>3, <1>4, <1>5, <1>6
<1> HIDE DEF tables, new
<1>13. dirty' = tables /\ pc'[h] = "commit" /\ UNCHANGED <<db, req>>
  BY <1>1, <1>7, <1>9, WriteStepTyped DEF Labels, WriteLabels
<1>14. Stored(h)' = Stored(h)
  BY <1>7, <1>13 DEF Stored
<1>15. DirtyClean(h)'
  BY <1>2, <1>3, <1>7, <1>9, <1>10, <1>11, <1>12, <1>13, <1>14 DEF DirtyClean
<1> QED
  BY <1>1, <1>7, <1>9, <1>15, WriteSingle DEF WriteLabels

----------------------------------------------------------------------------
(* COMMIT. *)

LEMMA CommitSingle ==
    ASSUME OneHandle, SingleInv, IInv', NEW h \in Handles, Commit(h) \/ CommitAborts(h)
    PROVE  SingleInv'
<1>1. TypeOK /\ IInv /\ HandleOK(h) /\ ClientOK(h) /\ pc[h] = "commit"
  BY SingleFacts DEF Commit, CommitAborts
<1>2. CleanTables(dirty)
  BY <1>1 DEF HandleOK, ControlOK, ClientOK, DirtyClean
<1>3. /\ db' = dirty /\ lock' = [lock EXCEPT ![h] = "none"] /\ req' = req
      /\ pc'[h] = "idle" /\ row'[h] = NoRow
  BY <1>1 DEF Commit, CommitAborts, Return, Goto, TypeOK
<1>4. ~Writing(h)'
  BY <1>1, <1>3 DEF TypeOK, Writing
<1>5. SeenTrue(h)'
  BY <1>3 DEF SeenTrue, NoRow
<1>6. FileWritten(h)' /\ FileGone(h)'
  BY <1>3 DEF FileWritten, FileGone, Retyping, NoRow, WriteLabels
<1>7. CleanTables(db)'
  BY <1>2, <1>3 DEF CleanTables
<1>8. ClientOK(h)'
  BY <1>1, <1>3, <1>4, <1>5, <1>6 DEF ClientOK
<1> QED
  BY <1>7, <1>8, SingleStep

\* The step changes only locks, results and counters.
LEMMA SameSingle ==
    ASSUME SingleInv, IInv', UNCHANGED <<db, dirty, files, pc, req, row>>,
           \A h \in Handles : Writing(h)' => Writing(h)
    PROVE  SingleInv'
<1>1. CleanTables(db)'
  BY DEF SingleInv, CleanTables
<1>2. ASSUME NEW h \in Handles
      PROVE  /\ req'[h] \in Requests /\ SeenTrue(h)' /\ (Writing(h)' => DirtyClean(h)')
             /\ FileWritten(h)' /\ FileGone(h)'
  <2>1. ClientOK(h)
    BY SingleFacts
  <2>2. SeenTrue(h)'
    BY <2>1 DEF ClientOK, SeenTrue, Writing
  <2>3. Writing(h)' => DirtyClean(h)'
    BY <2>1 DEF ClientOK, DirtyClean, CleanTables, Stored
  <2>4. FileWritten(h)' /\ FileGone(h)'
    BY <2>1 DEF ClientOK, FileWritten, FileGone, Retyping, SetsBlob, Writers
  <2> QED
    BY <2>1, <2>2, <2>3, <2>4 DEF ClientOK
<1> QED
  BY <1>1, <1>2 DEF SingleInv

LEMMA CommitBusySingle ==
    ASSUME SingleInv, IInv', NEW h \in Handles, CommitBusy(h)
    PROVE  SingleInv'
<1>1. TypeOK
  BY SingleFacts
<1>2. \A g \in Handles : Writing(g)' => Writing(g)
  BY <1>1 DEF CommitBusy, Writing, TypeOK
<1> QED
  BY <1>2, SameSingle DEF CommitBusy

----------------------------------------------------------------------------
(* Every step, by the function that takes it. *)

LEMMA WriteStatementsSingle ==
    ASSUME OneHandle, SingleInv, IInv', NEW h \in Handles, req[h].op = "set", WriteStatements(h)
    PROVE  SingleInv'
  BY DeleteValueSingle, DeleteKeySingle, InsertKeySingle, InsertKeyAccepted, InsertValueSingle,
     UpdateValueSingle, CommitSingle, CommitBusySingle DEF WriteStatements

LEMMA SettersSingle ==
    ASSUME OneHandle, SingleInv, IInv', NEW h \in Handles,
           SetInt64(h) \/ SetDouble(h) \/ SetString(h) \/ SetBlob(h)
    PROVE  SingleInv'
<1>1. CASE SetBlob(h)
  BY <1>1, FileStepsSingle, LookupSingle, EndsSingle, WriteStatementsSingle, CommitSingle
     DEF SetBlob, SetsBlob
<1>2. CASE req[h].op = "set" /\ req[h].type # "Blob" /\ ScalarSetter(h)
  BY <1>2, LookupSingle, EndsSingle, EndLookupSingle, WriteStatementsSingle
     DEF ScalarSetter, SetsBlob
<1>3. CASE req[h].op = "set" /\ req[h].type # "Blob" /\ RemoveReferencedBlobFile(h)
  BY <1>3, FindBlobFileSingle, EndFindBlobFileSingle, UnlinkSingle
     DEF RemoveReferencedBlobFile, SetsBlob
<1> QED
  BY <1>1, <1>2, <1>3 DEF SetInt64, SetDouble, SetString, Serves

LEMMA GettersSingle ==
    ASSUME OneHandle, SingleInv, IInv', NEW h \in Handles,
           \/ GetInt64(h) \/ GetDouble(h) \/ GetString(h) \/ GetBlob(h)
           \/ GetType(h) \/ EnumKeys(h)
    PROVE  SingleInv'
<1>1. req[h].op # "set"
  BY DEF GetInt64, GetDouble, GetString, GetBlob, GetType, EnumKeys, Serves
<1>2. CASE SelectBusy(h)
  BY <1>2, EndsSingle
<1>3. CASE EndSelect(h) \/ ReadBlobFile(h)
  BY <1>1, <1>3, EndReadsSingle
<1>4. CASE SelectValue(h) \/ SelectPath(h) \/ SelectType(h) \/ SelectKeys(h)
  BY <1>1, <1>4, SelectsSingle DEF SelectValue, SelectPath, SelectType, SelectKeys
<1> QED
  BY <1>2, <1>3, <1>4 DEF GetInt64, GetDouble, GetString, GetBlob, GetType, EnumKeys, Getter

LEMMA SingleNext ==
    ASSUME OneHandle, SingleInv, [Next]_vars
    PROVE  SingleInv'
<1>1. IInv'
  BY SingleFacts, NextKeeps DEF SingleInv
<1>2. ASSUME NEW h \in Handles, NEW r \in Requests, Call(h, r)  PROVE SingleInv'
  BY <1>1, <1>2, CallSingle
<1>3. ASSUME NEW h \in Handles, Step(h)  PROVE SingleInv'
  BY <1>1, <1>3, SettersSingle, GettersSingle DEF Step
<1>4. ASSUME NEW h \in Handles, RemoveFails(h)  PROVE SingleInv'
  <2>1. ~SetsBlob(h)
    BY <1>4, SingleFacts DEF ClientOK, FileGone, Retyping, SetsBlob, RemoveFails
  <2> QED
    BY <1>1, <1>4, <2>1, UnlinkSingle
<1>5. ASSUME NEW h \in Handles,
             StatementFails(h) \/ OutOfMemory(h) \/ FileFails(h) \/ CommitFails(h) \/ Kill(h)
      PROVE  SingleInv'
  BY <1>1, <1>5, EndsSingle
<1>6. CASE Finished \/ UNCHANGED vars
  BY <1>1, <1>6, SameSingle DEF Finished, vars, Writing
<1> QED
  BY <1>2, <1>3, <1>4, <1>5, <1>6 DEF Next

LEMMA SingleInit ==
    ASSUME Init
    PROVE  SingleInv
<1>1. IInv
  BY InitEstablishes
<1>2. CleanTables(db)
  BY DEF Init, CleanTables
<1>3. ASSUME NEW h \in Handles
      PROVE  /\ req[h] \in Requests /\ SeenTrue(h) /\ ~Writing(h)
             /\ FileWritten(h) /\ FileGone(h)
  BY <1>3 DEF Init, SeenTrue, Writing, FileWritten, FileGone, Retyping, NoRow, WriteLabels
<1> QED
  BY <1>1, <1>2, <1>3 DEF SingleInv

----------------------------------------------------------------------------
(* The theorems. *)

\* With one handle, and whatever fails or dies, the invariant holds.
THEOREM SingleInvariantHolds ==
    ASSUME OneHandle
    PROVE  Spec => []SingleInv
<1>1. Init => SingleInv
  BY SingleInit
<1>2. SingleInv /\ [Next]_vars => SingleInv'
  BY SingleNext
<1> QED
  BY <1>1, <1>2, PTL DEF Spec

\* database.h:28-30 for a client alone, after any fault and any kill: every key has a
\* value of its type and no value of another type.
THEOREM SingleKeepsClean ==
    ASSUME OneHandle
    PROVE  Spec => []KeptClean
<1>1. SingleInv => KeptClean
  BY CleanRows DEF SingleInv, IInv, KeyHasValue, KeptClean
<1> QED
  BY <1>1, SingleInvariantHolds, PTL

\* A setter that answers OK has committed, but for two faults: a failed COMMIT, and no
\* memory for the UPDATE of set_string.
LEMMA OKIsCommitted ==
    ASSUME OneHandle, SingleInv, [Next]_vars, NEW h \in Handles, SetReturns(h),
           "commit" \notin FaultKinds,
           \/ "memory" \notin FaultKinds
           \/ \A r \in Requests : ~(r.op = "set" /\ r.type = "String")
    PROVE  Commit(h)
<1>1. TypeOK /\ ClientOK(h)
  BY SingleFacts
<1>2. ASSUME NEW code, NEW out, Return(h, code, out)
      PROVE  code = "OK"
  BY <1>1, <1>2 DEF SetReturns, Return, TypeOK
<1>3. \A g \in Handles : g = h
  BY DEF OneHandle
<1>4. CASE Step(h)
  <2>1. CASE CheckBlobFile(h) \/ SelectBusy(h) \/ EndFindBlobFile(h) \/ UnlinkBlobFile(h) \/ CommitAborts(h)
    <3>1. PICK code \in {"INVALID", "NO_SUCH_KEY", "ABORTED"} : Return(h, code, {}) \/ pc'[h] # "idle"
      BY <1>1, <2>1 DEF CheckBlobFile, SelectBusy, EndFindBlobFile, UnlinkBlobFile, CommitAborts,
            Goto, TypeOK
    <3> QED
      BY <1>2, <3>1 DEF SetReturns
  <2>2. CASE OpenBlobFile(h) \/ WriteBlobFile(h) \/ Lookup(h) \/ EndLookup(h) \/ FindBlobFile(h)
    <3>1. PICK label \in Labels \ {"idle"} : Goto(h, label)
      <4>1. \A type \in Types \cup {"none"} : BranchOf(h, type) \in Labels \ {"idle"}
        BY DEF BranchOf, Labels, WriteLabels
      <4>2. row[h].type \in Types \cup {"none"} /\ \A k \in db.keyInfo : k.type \in Types
        BY <1>1 DEF TypeOK, Tables, KeyRow
      <4> QED
        BY <2>2, <4>1, <4>2 DEF OpenBlobFile, WriteBlobFile, Lookup, EndLookup, FindBlobFile,
            Labels, WriteLabels
    <3> QED
      BY <1>1, <3>1, GotoTyped DEF SetReturns
  <2>3. CASE WriteStatements(h) /\ ~Commit(h)
    <3>1. pc'[h] = pc[h] \/ \E label \in WriteLabels : Goto(h, label)
      BY <1>1, <2>3 DEF WriteStatements, DeleteValue, DeleteKey, InsertKey, InsertKeyRefused,
            InsertValue, UpdateValue, CommitBusy, WriteStep, WriteLabels
    <3> QED
      BY <1>1, <3>1, GotoTyped DEF SetReturns, WriteLabels, Labels
  <2>4. CheckBlobFile(h) \/ SelectBusy(h) \/ EndFindBlobFile(h) \/ UnlinkBlobFile(h) \/ CommitAborts(h)
        \/ OpenBlobFile(h) \/ WriteBlobFile(h) \/ Lookup(h) \/ EndLookup(h) \/ FindBlobFile(h)
        \/ WriteStatements(h)
    BY <1>4 DEF SetReturns, Step, SetInt64, SetDouble, SetString, SetBlob, GetInt64, GetDouble,
          GetString, GetBlob, GetType, EnumKeys, Serves, ScalarSetter, RemoveReferencedBlobFile
  <2> QED
    BY <2>1, <2>2, <2>3, <2>4
<1>5. CASE StatementFails(h) \/ FileFails(h) \/ Kill(h)
  <2>1. \E code \in {"INVALID", "ABORTED", "IO", "KILLED"} : Return(h, code, {})
    BY <1>5 DEF StatementFails, FileFails, FileCodes, Kill, Aborting
  <2> QED
    BY <1>2, <2>1
<1>6. CASE OutOfMemory(h)
  <2>1. MemoryCode(h) = "OK"
    BY <1>2, <1>6 DEF OutOfMemory
  <2>2. "memory" \in FaultKinds /\ req[h].type = "String"
    BY <1>6, <2>1 DEF OutOfMemory, MemoryCode, Fault
  <2> QED
    BY <1>1, <2>2 DEF ClientOK, SetReturns
<1>7. ~CommitFails(h)
  BY DEF CommitFails, Fault
<1>8. CASE RemoveFails(h) \/ \E r \in Requests : Call(h, r)
  BY <1>1, <1>8 DEF RemoveFails, Call, SetReturns, Goto, TypeOK
<1>9. CASE Finished \/ UNCHANGED vars
  BY <1>9 DEF Finished, SetReturns, vars
<1> QED
  BY <1>3, <1>4, <1>5, <1>6, <1>7, <1>8, <1>9 DEF Next

\* What a setter committed is in the store: the row it was given, and the file it wrote.
LEMMA CommittedIsStored ==
    ASSUME SingleInv, NEW h \in Handles, req[h].op = "set", Commit(h)
    PROVE  StoredNow(h)'
<1>1. HandleOK(h) /\ ClientOK(h) /\ pc[h] = "commit"
  BY SingleFacts DEF Commit
<1>2. DirtyClean(h)
  BY <1>1 DEF HandleOK, ControlOK, ClientOK
<1>3. db' = dirty /\ req' = req /\ files' = files
  BY DEF Commit, Return
<1>4. PICK k \in dirty.keyInfo :
        /\ k.key = req[h].key /\ k.id = row[h].id /\ k.type = req[h].type
        /\ [type |-> k.type, id |-> k.id, val |-> Stored(h)] \in dirty.values
  BY <1>1, <1>2 DEF DirtyClean
<1>5. k.type = "Blob" => files[Stored(h)] # NoFile /\ files[Stored(h)].data = req[h].val
  BY <1>1, <1>4 DEF ClientOK, FileWritten, SetsBlob, Stored, WriteLabels
<1>6. k.type # "Blob" => Stored(h) = req[h].val
  BY <1>4 DEF Stored
<1> DEFINE new == [type |-> k.type, id |-> k.id, val |-> Stored(h)]
<1>7. new \in db'.values /\ new.type = k.type /\ new.id = k.id /\ new.val = Stored(h)
  BY <1>3, <1>4
<1> HIDE DEF new
<1> QED
  BY <1>3, <1>4, <1>5, <1>6, <1>7 DEF StoredNow

\* A client alone: what a setter acknowledged is in the store when it returns, a blob's
\* file included, also after other calls failed or were killed.  Without the hypotheses
\* on the faults a setter answers OK that stored nothing.
THEOREM SingleSetIsStored ==
    ASSUME OneHandle,
           "commit" \notin FaultKinds,
           \/ "memory" \notin FaultKinds
           \/ \A r \in Requests : ~(r.op = "set" /\ r.type = "String")
    PROVE  Spec => AcknowledgedSetIsStored
<1>1. ASSUME SingleInv, [Next]_vars
      PROVE  \A h \in Handles : SetReturns(h) => StoredNow(h)'
  BY <1>1, OKIsCommitted, CommittedIsStored DEF SetReturns
<1> QED
  BY <1>1, SingleInvariantHolds, PTL DEF Spec, AcknowledgedSetIsStored

\* A client alone whose files can be removed: when set_int64 has taken the place of a
\* blob, no file of the blob is left, whatever else failed or was killed before.
THEOREM SingleInt64LeavesNoFile ==
    ASSUME OneHandle, "io" \notin FaultKinds
    PROVE  Spec => Int64LeavesNoFile
<1>1. ASSUME SingleInv, [Next]_vars, NEW h \in Handles,
             pc[h] = "commit", pc'[h] = "idle", req[h].type = "Int64", NEW p \in BlobFilesDropped
      PROVE  files'[p] = NoFile
  <2>1. HandleOK(h) /\ ClientOK(h) /\ CleanTables(db) /\ Keyed(db)
    BY <1>1, SingleFacts
  <2>2. db' # db
    BY <1>1 DEF BlobFilesDropped
  <2>3. req[h].op = "set" /\ db' = dirty /\ files' = files
    BY <1>1, <2>2, OnlyCommitWrites DEF OneHandle, Commit, CommitAborts
  <2>4. PICK v \in db.values : v.type = "Blob" /\ v.val = p /\ v \notin dirty.values
    BY <1>1, <2>3 DEF BlobFilesDropped
  <2>5. DirtyClean(h)
    BY <1>1, <2>1 DEF HandleOK, ControlOK, ClientOK
  <2>6. v.id = row[h].id
    BY <2>4, <2>5 DEF DirtyClean
  <2>7. row[h].type = "Blob"
    <3>1. row[h].type # "none"
      BY <2>5, <2>6 DEF DirtyClean
    <3>2. PICK k \in db.keyInfo : k.id = row[h].id /\ k.type = row[h].type
      BY <2>1, <3>1 DEF ClientOK, SeenTrue
    <3> QED
      BY <2>1, <2>4, <2>6, <3>2, CleanRows
  <2>8. Retyping(h)
    BY <1>1, <2>3, <2>7 DEF Retyping
  <2> QED
    BY <1>1, <2>1, <2>3, <2>4, <2>6, <2>8 DEF ClientOK, FileGone, WriteLabels
<1>2. ASSUME SingleInv, [Next]_vars
      PROVE  \A h \in Handles : pc[h] = "commit" /\ pc'[h] = "idle" /\ req[h].type = "Int64" =>
                \A p \in BlobFilesDropped : files'[p] = NoFile
  BY <1>1, <1>2
<1> QED
  BY <1>2, SingleInvariantHolds, PTL DEF Spec, Int64LeavesNoFile

----------------------------------------------------------------------------
(* Where nothing fails, the files too.                                      *)

\* A step that neither commits nor touches a file, and does not let go of one.
LEMMA FilesLeftAlone ==
    ASSUME OneHandle, FilesKept, TypeOK, db' = db, files' = files, NEW h \in Handles,
           \A key \in Keys : InHand(h, key) => InHand(h, key)'
    PROVE  FilesKept'
<1>1. \A k \in db.keyInfo : k.key \in Keys
  BY DEF TypeOK, Tables, KeyRow
<1>2. \A g \in Handles : g = h
  BY DEF OneHandle
<1>3. ASSUME NEW k \in db.keyInfo, NEW v \in db.values, v.type = "Blob", v.id = k.id
      PROVE  /\ v.val = PathOf[k.key]
             /\ \/ files[v.val] # NoFile /\ files[v.val].data # Torn
                \/ InHand(h, k.key)'
  BY <1>1, <1>2, <1>3 DEF FilesKept
<1> QED
  BY <1>3 DEF FilesKept

\* Nothing in hand: every blob row has its file.
LEMMA NothingInHand ==
    ASSUME OneHandle, FilesKept, NEW h \in Handles, pc[h] \notin {"checkFile", "writeFile"} \cup WriteLabels
    PROVE  /\ \A key \in Keys : ~InHand(h, key)
           /\ \A k \in db.keyInfo, v \in db.values : v.type = "Blob" /\ v.id = k.id =>
                /\ v.val = PathOf[k.key]
                /\ files[v.val] # NoFile /\ files[v.val].data # Torn
<1>1. \A key : ~InHand(h, key)
  BY DEF InHand
<1>2. \A g \in Handles : g = h
  BY DEF OneHandle
<1> QED
  BY <1>1, <1>2 DEF FilesKept

LEMMA QuietFiles ==
    ASSUME OneHandle, SingleInv, FilesKept, NEW h \in Handles,
           \/ \E r \in Requests : Call(h, r)
           \/ Lookup(h) \/ EndLookup(h) \/ FindBlobFile(h) \/ EndFindBlobFile(h)
           \/ SelectValue(h) \/ SelectPath(h) \/ SelectType(h) \/ SelectKeys(h)
           \/ EndSelect(h) \/ ReadBlobFile(h)
    PROVE  FilesKept'
<1>1. TypeOK
  BY SingleFacts
<1>2. UNCHANGED <<db, files>>
  BY DEF Call, Lookup, EndLookup, FindBlobFile, EndFindBlobFile, SelectStep, SelectValue,
        SelectPath, SelectType, SelectKeys, EndSelect, ReadBlobFile
<1>3. pc[h] \notin {"checkFile", "writeFile"} \cup WriteLabels
  BY DEF Call, Lookup, EndLookup, FindBlobFile, EndFindBlobFile, SelectStep, SelectValue,
        SelectPath, SelectType, SelectKeys, EndSelect, ReadBlobFile, WriteLabels
<1> QED
  BY <1>1, <1>2, <1>3, NothingInHand, FilesLeftAlone

\* From the truncation of the file to its last byte the blob is in hand.
LEMMA WritingFiles ==
    ASSUME OneHandle, SingleInv, FilesKept, NEW h \in Handles, SetsBlob(h),
           \A j, k \in Keys : PathOf[j] = PathOf[k] => j = k,
           OpenBlobFile(h) \/ CheckBlobFile(h) \/ WriteBlobFile(h)
    PROVE  FilesKept'
<1>1. /\ TypeOK /\ HandleOK(h) /\ ClientOK(h) /\ req[h].key \in Keys /\ req[h].val \in Data
      /\ pc[h] \in {"openFile", "checkFile", "writeFile"} /\ UNCHANGED <<db, req>>
  BY SingleFacts DEF OpenBlobFile, CheckBlobFile, WriteBlobFile, Request, Return
<1>2. row[h].path = PathOf[req[h].key] /\ row[h].path \in Paths
  BY <1>1 DEF ClientOK, FileWritten, HandleOK, ControlOK
<1>3. \A k \in db.keyInfo : k.key \in Keys
  BY <1>1 DEF TypeOK, Tables, KeyRow
<1>4. ASSUME \A p \in Paths \ {row[h].path} : files'[p] = files[p],
             \/ InHand(h, req[h].key)'
             \/ files'[row[h].path] # NoFile /\ files'[row[h].path].data # Torn
      PROVE  FilesKept'
  <2>1. SUFFICES ASSUME NEW k \in db.keyInfo, NEW v \in db.values, v.type = "Blob", v.id = k.id
                 PROVE  /\ v.val = PathOf[k.key]
                        /\ \/ files'[v.val] # NoFile /\ files'[v.val].data # Torn
                           \/ InHand(h, k.key)'
    BY <1>1 DEF FilesKept
  <2>2. v.val = PathOf[k.key] /\ PathOf[k.key] \in Paths
    BY <1>3, <2>1, ConstantsAssumption DEF FilesKept
  <2>3. CASE k.key = req[h].key
    BY <1>1, <1>2, <1>4, <2>2, <2>3
  <2>4. CASE k.key # req[h].key
    <3>1. files'[v.val] = files[v.val]
      BY <1>1, <1>2, <1>3, <1>4, <2>2, <2>4
    <3>2. \A g \in Handles : ~InHand(g, k.key)
      BY <2>4 DEF InHand, OneHandle
    <3> QED
      BY <2>1, <2>2, <3>1, <3>2 DEF FilesKept
  <2> QED
    BY <2>3, <2>4
<1>5. CASE OpenBlobFile(h)
  <2>1. pc'[h] = "checkFile" /\ req' = req /\ \A p \in Paths \ {row[h].path} : files'[p] = files[p]
    BY <1>1, <1>5 DEF OpenBlobFile, Goto, TypeOK
  <2>2. InHand(h, req[h].key)'
    BY <2>1 DEF InHand, SetsBlob
  <2> QED
    BY <1>4, <2>1, <2>2
<1>6. CASE CheckBlobFile(h)
  <2>1. files[row[h].path] # NoFile
    BY <1>1, <1>6 DEF ClientOK, FileWritten, CheckBlobFile
  <2>2. pc'[h] = "writeFile" /\ req' = req /\ files' = files
    BY <1>1, <1>6, <2>1 DEF CheckBlobFile, Goto, TypeOK
  <2>3. InHand(h, req[h].key)'
    BY <2>2 DEF InHand, SetsBlob
  <2> QED
    BY <1>4, <2>2, <2>3
<1>7. CASE WriteBlobFile(h)
  <2>1. files[row[h].path] # NoFile /\ files[row[h].path].data = Torn /\ h \in Writers(row[h].path)
    BY <1>1, <1>7 DEF ClientOK, FileWritten, WriteBlobFile
  <2>2. files' = [files EXCEPT ![row[h].path] =
                        [data |-> req[h].val, writers |-> Writers(row[h].path) \ {h}]]
    BY <1>7, <2>1 DEF WriteBlobFile
  <2>3. /\ \A p \in Paths \ {row[h].path} : files'[p] = files[p]
        /\ files'[row[h].path] = [data |-> req[h].val, writers |-> Writers(row[h].path) \ {h}]
    BY <1>1, <1>2, <2>2 DEF TypeOK
  <2>4. Writers(row[h].path) \in SUBSET Handles
    BY <1>1, <1>2 DEF Writers, TypeOK, File
  <2>5. files'[row[h].path] \in File /\ files'[row[h].path].data = req[h].val
    BY <1>1, <2>3, <2>4 DEF File, Contents
  <2> QED
    BY <1>1, <1>4, <2>3, <2>5, ConstantsAssumption
<1> QED
  BY <1>5, <1>6, <1>7

\* set_int64 removes the file of the key it retypes, and of no other.
LEMMA UnlinkFiles ==
    ASSUME OneHandle, SingleInv, FilesKept, NEW h \in Handles, ~SetsBlob(h),
           \A j, k \in Keys : PathOf[j] = PathOf[k] => j = k,
           UnlinkBlobFile(h)
    PROVE  FilesKept'
<1>1. /\ TypeOK /\ HandleOK(h) /\ ClientOK(h) /\ req[h].key \in Keys /\ pc[h] = "unlink"
      /\ \A k \in db.keyInfo : RowComplete(db, k)
      /\ UNCHANGED <<db, req>>
  BY SingleFacts DEF UnlinkBlobFile, Return
<1>2. /\ Retyping(h) /\ row[h].path \in Paths
      /\ \A v \in db.values : v.type = "Blob" /\ v.id = row[h].id => v.val = row[h].path
  BY <1>1 DEF HandleOK, ControlOK, ClientOK, FileGone
<1>3. \A k \in db.keyInfo : k.key \in Keys
  BY <1>1 DEF TypeOK, Tables, KeyRow
<1>4. \A k \in db.keyInfo, v \in db.values : v.type = "Blob" /\ v.id = k.id =>
        /\ v.val = PathOf[k.key]
        /\ files[v.val] # NoFile /\ files[v.val].data # Torn
  BY <1>1, NothingInHand DEF WriteLabels
<1>5. row[h].path = PathOf[req[h].key]
  <2>1. PICK k \in db.keyInfo : k.key = req[h].key /\ k.id = row[h].id /\ k.type = "Blob"
    BY <1>1, <1>2 DEF ClientOK, SeenTrue, Retyping
  <2>2. PICK v \in db.values : v.type = "Blob" /\ v.id = k.id
    BY <1>1, <2>1 DEF RowComplete
  <2> QED
    BY <1>2, <1>4, <2>1, <2>2
<1>6. CASE files[row[h].path] = NoFile
  <2>1. files' = files
    BY <1>6 DEF UnlinkBlobFile
  <2> QED
    BY <1>1, <1>4, <2>1 DEF FilesKept
<1>7. CASE files[row[h].path] # NoFile
  <2>1. /\ files' = [files EXCEPT ![row[h].path] = NoFile] /\ row' = row
        /\ pc'[h] = "deleteValue"
    BY <1>1, <1>7 DEF UnlinkBlobFile, Goto, TypeOK
  <2>2. InHand(h, req[h].key)'
    BY <1>1, <1>2, <2>1 DEF InHand, Retyping, WriteLabels
  <2>3. SUFFICES ASSUME NEW k \in db.keyInfo, NEW v \in db.values, v.type = "Blob", v.id = k.id
                 PROVE  /\ v.val = PathOf[k.key]
                        /\ \/ files'[v.val] # NoFile /\ files'[v.val].data # Torn
                           \/ InHand(h, k.key)'
    BY <1>1 DEF FilesKept
  <2>4. CASE k.key = req[h].key
    BY <1>1, <1>4, <2>2, <2>3, <2>4
  <2>5. CASE k.key # req[h].key
    <3>1. v.val # row[h].path
      BY <1>1, <1>3, <1>4, <1>5, <2>3, <2>5
    <3>2. v.val \in Paths
      BY <1>3, <1>4, <2>3, ConstantsAssumption
    <3>3. files'[v.val] = files[v.val]
      BY <1>1, <2>1, <3>1, <3>2 DEF TypeOK
    <3> QED
      BY <1>4, <2>3, <3>3
  <2> QED
    BY <2>4, <2>5
<1> QED
  BY <1>6, <1>7

\* Up to COMMIT the blob that is being dropped stays in hand.
LEMMA StatementFiles ==
    ASSUME OneHandle, SingleInv, FilesKept, NEW h \in Handles, WriteStatements(h), ~Commit(h)
    PROVE  FilesKept'
<1>1. TypeOK
  BY SingleFacts
<1>2. UNCHANGED <<db, files, req>> /\ pc[h] \in WriteLabels
  BY DEF WriteStatements, DeleteValue, DeleteKey, InsertKey, InsertKeyRefused, InsertValue,
        UpdateValue, CommitBusy, WriteStep, WriteLabels
<1>3. row'[h].type = row[h].type
  BY <1>1 DEF WriteStatements, DeleteValue, DeleteKey, InsertKey, InsertKeyRefused, InsertValue,
        UpdateValue, CommitBusy, Know, TypeOK
<1>4. pc'[h] \in WriteLabels
  BY <1>1, <1>2 DEF WriteStatements, DeleteValue, DeleteKey, InsertKey, InsertKeyRefused, InsertValue,
        UpdateValue, CommitBusy, WriteStep, Goto, WriteLabels, TypeOK
<1>5. pc[h] \notin {"checkFile", "writeFile"}
  BY <1>2 DEF WriteLabels
<1>6. \A key \in Keys : InHand(h, key) => InHand(h, key)'
  BY <1>2, <1>3, <1>4, <1>5 DEF InHand, Retyping
<1> QED
  BY <1>1, <1>2, <1>6, FilesLeftAlone

\* The rows of the other keys are those that were there, with their files; the blob
\* row that was added names the file set_blob wrote.
LEMMA CommitFiles ==
    ASSUME OneHandle, SingleInv, FilesKept, NEW h \in Handles, req[h].op = "set",
           Commit(h) \/ CommitAborts(h)
    PROVE  FilesKept'
<1>1. /\ HandleOK(h) /\ ClientOK(h) /\ CleanTables(db) /\ Keyed(db)
      /\ pc[h] = "commit" /\ db' = dirty /\ files' = files /\ req[h].val \in Data
  BY SingleFacts DEF Commit, CommitAborts, Request
<1>2. DirtyClean(h) /\ DirtyOK(h)
  BY <1>1 DEF HandleOK, ControlOK, ClientOK
<1>3. Keyed(dirty) /\ \A k \in db.keyInfo : \E n \in dirty.keyInfo : n.key = k.key /\ n.id = k.id
  BY <1>1, <1>2 DEF DirtyOK
<1>4. SUFFICES ASSUME NEW k \in dirty.keyInfo, NEW v \in dirty.values, v.type = "Blob", v.id = k.id
               PROVE  v.val = PathOf[k.key] /\ files[v.val] # NoFile /\ files[v.val].data # Torn
  BY <1>1 DEF FilesKept
<1>5. CASE v.id = row[h].id
  <2>1. PICK n \in dirty.keyInfo :
            /\ n.key = req[h].key /\ n.id = row[h].id /\ n.type = req[h].type
            /\ [type |-> n.type, id |-> n.id, val |-> Stored(h)] \in dirty.values
    BY <1>1, <1>2 DEF DirtyClean
  <2>2. n = k
    BY <1>3, <1>4, <1>5, <2>1 DEF Keyed
  <2>3. v = [type |-> n.type, id |-> n.id, val |-> Stored(h)]
    BY <1>2, <1>4, <1>5, <2>1 DEF DirtyClean, CleanTables
  <2>4. SetsBlob(h) /\ v.val = row[h].path
    BY <1>4, <2>1, <2>3 DEF SetsBlob, Stored
  <2> QED
    BY <1>1, <2>1, <2>2, <2>4, ConstantsAssumption DEF ClientOK, FileWritten, WriteLabels
<1>6. CASE v.id # row[h].id
  <2>1. v \in db.values
    BY <1>2, <1>4, <1>6 DEF DirtyClean
  <2>2. PICK old \in db.keyInfo : old.id = v.id /\ old.type = v.type
    BY <1>1, <2>1 DEF CleanTables
  <2>3. old.key = k.key
    BY <1>3, <1>4, <2>2 DEF Keyed
  <2>4. \A g \in Handles : ~InHand(g, old.key)
    <3>1. SUFFICES ASSUME InHand(h, old.key)  PROVE FALSE
      BY DEF OneHandle
    <3>2. Retyping(h) /\ old.key = req[h].key
      BY <1>1, <3>1 DEF InHand
    <3>3. PICK seen \in db.keyInfo : seen.key = req[h].key /\ seen.id = row[h].id
      BY <1>1, <3>2 DEF ClientOK, SeenTrue, Retyping
    <3> QED
      BY <1>1, <1>6, <2>2, <3>2, <3>3 DEF Keyed
  <2> QED
    BY <1>4, <2>1, <2>2, <2>3, <2>4 DEF FilesKept
<1> QED
  BY <1>5, <1>6

LEMMA FilesNext ==
    ASSUME OneHandle, FaultKinds = {}, MaxCrashes = 0,
           \A j, k \in Keys : PathOf[j] = PathOf[k] => j = k,
           SingleInv, FilesKept, [Next]_vars
    PROVE  FilesKept'
<1>1. ASSUME NEW h \in Handles, Step(h)
      PROVE  FilesKept'
  <2>1. ~SelectBusy(h)
    BY DEF OneHandle, SelectBusy, CanRead
  <2>2. CASE SetBlob(h)
    <3>1. SetsBlob(h) /\ req[h].op = "set"
      BY <2>2 DEF SetBlob, SetsBlob
    <3> QED
      BY <2>1, <2>2, <3>1, WritingFiles, QuietFiles, StatementFiles, CommitFiles DEF SetBlob
  <2>3. CASE SetInt64(h) \/ SetDouble(h) \/ SetString(h)
    <3>1. req[h].op = "set" /\ ~SetsBlob(h)
      BY <2>3 DEF SetInt64, SetDouble, SetString, Serves, SetsBlob
    <3>2. ScalarSetter(h) \/ RemoveReferencedBlobFile(h)
      BY <2>3 DEF SetInt64, SetDouble, SetString
    <3> QED
      BY <2>1, <3>1, <3>2, UnlinkFiles, QuietFiles, StatementFiles, CommitFiles
         DEF ScalarSetter, RemoveReferencedBlobFile
  <2>4. CASE ~(SetInt64(h) \/ SetDouble(h) \/ SetString(h) \/ SetBlob(h))
    BY <1>1, <2>1, <2>4, QuietFiles DEF Step, GetInt64, GetDouble, GetString, GetBlob, GetType,
          EnumKeys, Getter
  <2> QED
    BY <2>2, <2>3, <2>4
<1>2. ASSUME NEW h \in Handles, \E r \in Requests : Call(h, r)
      PROVE  FilesKept'
  BY <1>2, QuietFiles
<1>3. ASSUME NEW h \in Handles
      PROVE  ~(StatementFails(h) \/ OutOfMemory(h) \/ FileFails(h) \/ RemoveFails(h) \/ CommitFails(h))
  BY DEF StatementFails, OutOfMemory, FileFails, RemoveFails, CommitFails, Fault
<1>4. ASSUME NEW h \in Handles
      PROVE  ~Kill(h)
  BY SingleFacts DEF Kill, TypeOK
<1>5. CASE Finished \/ UNCHANGED vars
  BY <1>5 DEF Finished, vars, FilesKept, InHand, SetsBlob, Retyping
<1> QED
  BY <1>1, <1>2, <1>3, <1>4, <1>5 DEF Next

\* database.h:24-27 for a client alone whose keys have files of their own: while no
\* call runs, the file of every blob row is there and whole.  Any kind of fault and a
\* kill can take a file away, and two keys with one path share it.
THEOREM SingleBlobsHaveFiles ==
    ASSUME OneHandle, FaultKinds = {}, MaxCrashes = 0,
           \A j, k \in Keys : PathOf[j] = PathOf[k] => j = k
    PROVE  Spec => []BlobRowHasFile
<1>1. Init => FilesKept
  BY DEF Init, FilesKept
<1>2. SingleInv /\ FilesKept /\ [Next]_vars => FilesKept'
  BY FilesNext
<1>3. ASSUME SingleInv, FilesKept
      PROVE  BlobRowHasFile
  <2>1. SUFFICES ASSUME Idle, NEW v \in db.values, v.type = "Blob"
                 PROVE  files[v.val] # NoFile /\ files[v.val].data # Torn
    BY DEF BlobRowHasFile
  <2>2. PICK k \in db.keyInfo : k.id = v.id
    BY <1>3 DEF SingleInv, CleanTables
  <2>3. \A h \in Handles : ~InHand(h, k.key)
    BY <2>1 DEF Idle, InHand, WriteLabels
  <2> QED
    BY <1>3, <2>1, <2>2, <2>3 DEF FilesKept
<1> QED
  BY <1>1, <1>2, <1>3, SingleInvariantHolds, PTL DEF Spec
=============================================================================
