------------------------------ MODULE Database ------------------------------
(***************************************************************************)
(* The registry's store: server/database.c on top of one SQLite file and a *)
(* directory of blob files.  Several handles (one per client process, each *)
(* opened with database_open) work on the same file.  A call of a handle   *)
(* is a sequence of SQL statements and file operations; each of them is    *)
(* one action here, because another handle may run between any two.        *)
(*                                                                         *)
(* SQLite is external: its rollback-journal locking (SHARED, RESERVED,     *)
(* PENDING) and its constraint checks are modelled from how database.c     *)
(* uses them.  The code's `while(42)` loops retry a write statement or a   *)
(* COMMIT until it succeeds: a statement that would be refused is simply   *)
(* not enabled here, so spinning is stuttering.                            *)
(*                                                                         *)
(* Calls that the argument checks refuse (NULL and empty arguments, NaN)   *)
(* return before anything happens and are left out.                        *)
(***************************************************************************)
EXTENDS Naturals

CONSTANTS
    Handles,      \* the open database handles
    Keys,         \* the (domain, key) pairs, all non-empty strings
    Data,         \* what clients store: an integer, a double, a string, a blob's bytes
    Paths,        \* blob files below blob-path
    PathOf,       \* the file set_blob picks for a key; ' ' and '/' become '_'
    Requests,     \* the calls the clients make, a subset of Request
    FaultKinds,   \* which faults the environment may inject
    MaxCalls,     \* bound: calls made in a behaviour
    MaxFaults,    \* bound: faults injected in a behaviour
    MaxCrashes,   \* bound: processes killed in a behaviour
    NoPath,       \* no blob file is known
    NoFile,       \* what is at a path without a file
    Torn          \* content of a file that is truncated, partly or twice written

Types == {"Int64", "Double", "String", "Blob"}
Request == [op : {"set", "get", "get_type", "enum_keys"}, key : Keys, type : Types, val : Data]
Contents == Data \cup {Torn}
\* A file and the handles whose open descriptor is this file: one that was removed
\* and created again is another file, which they do not write to.
File == [data : Contents, writers : SUBSET Handles]

ASSUME ConstantsAssumption ==
    /\ PathOf \in [Keys -> Paths]
    /\ Requests \subseteq Request
    /\ FaultKinds \subseteq {"error", "memory", "io", "commit"}
    /\ MaxCalls \in Nat /\ MaxFaults \in Nat /\ MaxCrashes \in Nat
    /\ Torn \notin Data /\ NoFile \notin File

VARIABLES
    db,       \* the committed tables: KeyInfo, the four Value tables, sqlite_sequence
    dirty,    \* the tables as the transaction holding RESERVED sees them
    lock,     \* the lock each handle holds on the database file
    files,    \* the blob directory
    pc,       \* the next statement of each handle's call
    req,      \* the arguments of the call
    row,      \* its locals: id and datatype of the KeyInfo row, path of the blob file
    res,      \* what the call returned or is about to return
    calls, faults, crashes

vars == <<db, dirty, lock, files, pc, req, row, res, calls, faults, crashes>>
bounds == <<calls, faults, crashes>>

KeyRow == [id : Nat, key : Keys, type : Types]
ValueRow == [type : Types \ {"Blob"}, id : Nat, val : Data] \cup [type : {"Blob"}, id : Nat, val : Paths]
Tables == [keyInfo : SUBSET KeyRow, values : SUBSET ValueRow, seq : Nat]
WriteLabels == {"deleteValue", "deleteKey", "insertKey", "insertValue", "update", "commit"}
Labels == WriteLabels \cup
    {"idle", "openFile", "checkFile", "writeFile", "lookup", "looked", "findFile", "foundFile", "unlink",
     "select", "selected", "readFile"}
Codes == {"NONE", "OK", "INVALID", "MEMORY", "IO", "NO_SUCH_KEY", "ABORTED", "KILLED"}
NoRow == [id |-> 0, type |-> "none", path |-> NoPath]
NoResult == [code |-> "NONE", out |-> {}]

TypeOK ==
    /\ db \in Tables
    /\ dirty \in Tables
    /\ lock \in [Handles -> {"none", "shared", "reserved", "pending"}]
    /\ files \in [Paths -> File \cup {NoFile}]
    /\ pc \in [Handles -> Labels]
    /\ req \in [Handles -> Request]
    /\ row \in [Handles -> [id : Nat, type : Types \cup {"none"}, path : Paths \cup {NoPath}]]
    /\ res \in [Handles -> [code : Codes,
                            out : SUBSET (Contents \cup Types \cup Keys)]]
    /\ calls \in Nat /\ faults \in Nat /\ crashes \in Nat

(***************************************************************************)
(* database-init.sql: the one row it inserts, blob-path under domain NULL, *)
(* has id 1 and is matched by no `domain = :dom`, so it is left out.       *)
(***************************************************************************)
Init ==
    /\ db = [keyInfo |-> {}, values |-> {}, seq |-> 1]
    /\ dirty = db
    /\ lock = [h \in Handles |-> "none"]
    /\ files = [p \in Paths |-> NoFile]
    /\ pc = [h \in Handles |-> "idle"]
    /\ \E r \in Requests : req = [h \in Handles |-> r]    \* read only after a Call
    /\ row = [h \in Handles |-> NoRow]
    /\ res = [h \in Handles |-> NoResult]
    /\ calls = 0 /\ faults = 0 /\ crashes = 0

----------------------------------------------------------------------------
(* SQLite's file locks.  EXCLUSIVE is taken and given back inside Commit. *)

Writing(h) == lock[h] \in {"reserved", "pending"}
CanRead(h) == \A g \in Handles \ {h} : lock[g] # "pending"
\* Mutant: no RESERVED lock, two transactions write at once.
CanWriteAlways(h) == TRUE

CanWrite(h) == Writing(h) \/ \A g \in Handles \ {h} : ~Writing(g)
CanCommit(h) == Writing(h) /\ \A g \in Handles \ {h} : lock[g] = "none"
Image(h) == IF Writing(h) THEN dirty ELSE db

\* Mutant: an error path without its rollback.
ReleaseNothing(h) == UNCHANGED <<lock, dirty>>

\* The end of a transaction without effect: ROLLBACK, or COMMIT after reads only.
Release(h) ==
    /\ lock' = [lock EXCEPT ![h] = "none"]
    /\ dirty' = IF Writing(h) THEN db ELSE dirty

----------------------------------------------------------------------------
(* Control flow of a call. *)

Goto(h, label) == pc' = [pc EXCEPT ![h] = label]

\* What the call knows of the KeyInfo row and of the blob file.
Know(h, id, type, path) ==
    row' = [row EXCEPT ![h] = [id |-> id, type |-> type, path |-> path]]

Return(h, code, out) ==
    /\ Goto(h, "idle")
    /\ res' = [res EXCEPT ![h] = [code |-> code, out |-> out]]
    /\ row' = [row EXCEPT ![h] = NoRow]
    /\ UNCHANGED req

SetsBlob(h) == req[h].op = "set" /\ req[h].type = "Blob"

\* set_blob's error paths remove the file they wrote.
RemoveWritten(h) ==
    files' = IF SetsBlob(h) THEN [files EXCEPT ![row[h].path] = NoFile] ELSE files

Call(h, r) ==
    /\ pc[h] = "idle"
    /\ calls < MaxCalls
    /\ calls' = calls + 1
    /\ req' = [req EXCEPT ![h] = r]
    /\ res' = [res EXCEPT ![h] = NoResult]
    /\ IF r.op # "set"
       THEN Goto(h, "select") /\ UNCHANGED row
       ELSE IF r.type # "Blob"
            THEN Goto(h, "lookup") /\ UNCHANGED row
            ELSE Goto(h, "openFile") /\ Know(h, row[h].id, row[h].type, PathOf[r.key])
    /\ UNCHANGED <<db, dirty, lock, files, faults, crashes>>

----------------------------------------------------------------------------
(* set_blob writes the file first: fopen "wb" truncates what was there. *)

Writers(p) == IF files[p] = NoFile THEN {} ELSE files[p].writers

OpenBlobFile(h) ==
    LET p == row[h].path IN
    /\ pc[h] = "openFile"
    /\ files' = [files EXCEPT ![p] = [data |-> Torn, writers |-> Writers(p) \cup {h}]]
    /\ Goto(h, "checkFile")
    /\ UNCHANGED <<db, dirty, lock, req, row, res, bounds>>

\* check_blob_path: realpath finds no file when another handle removed it.
CheckBlobFile(h) ==
    /\ pc[h] = "checkFile"
    /\ IF files[row[h].path] = NoFile
       THEN Return(h, "INVALID", {})
       ELSE Goto(h, "writeFile") /\ UNCHANGED <<req, row, res>>
    /\ UNCHANGED <<db, dirty, lock, files, bounds>>

\* Mutant: fclose before the bytes are written.
WriteBlobFileShort(h) ==
    /\ pc[h] = "writeFile"
    /\ Goto(h, "lookup")
    /\ UNCHANGED <<db, dirty, lock, files, req, row, res, bounds>>

\* fwrite and fclose.  Bytes that another handle wrote to the same file since it was
\* truncated may be left behind the new ones.
WriteBlobFile(h) ==
    LET p == row[h].path IN
    /\ pc[h] = "writeFile"
    /\ IF h \in Writers(p)
       THEN \E data \in {req[h].val} \cup (IF files[p].data = Torn THEN {} ELSE {Torn}) :
              files' = [files EXCEPT ![p] = [data |-> data, writers |-> Writers(p) \ {h}]]
       ELSE UNCHANGED files
    /\ Goto(h, "lookup")
    /\ UNCHANGED <<db, dirty, lock, req, row, res, bounds>>

----------------------------------------------------------------------------
(* SELECT id, datatype FROM KeyInfo: what the rest of the setter relies on. *)

\* Mutant: the setter does not compare the datatype of the row it found.
BranchOfAnyType(h, type) == IF type = "none" THEN "insertKey" ELSE "update"

\* The branch of the setter for a row of datatype `type` ("none": no row).
BranchOf(h, type) ==
    CASE type = "none"      -> "insertKey"
      [] type = req[h].type -> "update"
      [] OTHER              -> "deleteValue"

\* set_blob goes on inside the transaction of the SELECT; the other setters
\* commit it, in EndLookup, before they act on what it found.
Lookup(h) ==
    /\ pc[h] = "lookup"
    /\ CanRead(h)
    /\ lock' = [lock EXCEPT ![h] = "shared"]
    /\ \/ /\ \A k \in db.keyInfo : k.key # req[h].key
          /\ Goto(h, IF SetsBlob(h) THEN BranchOf(h, "none") ELSE "looked")
          /\ UNCHANGED row
       \/ \E k \in db.keyInfo :
          /\ k.key = req[h].key
          /\ Goto(h, IF SetsBlob(h) THEN BranchOf(h, k.type) ELSE "looked")
          /\ Know(h, k.id, k.type, row[h].path)
    /\ UNCHANGED <<db, dirty, files, req, res, bounds>>

\* A SELECT that meets a PENDING lock returns SQLITE_BUSY, and no SELECT loop
\* of database.c retries that: the call ends.
SelectBusy(h) ==
    /\ pc[h] \in {"lookup", "findFile", "select"}
    /\ ~CanRead(h)
    /\ Return(h, "INVALID", {})
    /\ RemoveWritten(h)
    /\ UNCHANGED <<db, dirty, lock, bounds>>

\* Mutant: the file of a retyped blob is not looked for.
EndLookupKeepsFile(h) ==
    /\ pc[h] = "looked"
    /\ Release(h)
    /\ Goto(h, BranchOf(h, row[h].type))
    /\ UNCHANGED <<db, files, req, row, res, bounds>>

\* Of the three, only set_int64 looks for the file of a key that was a blob; the same
\* lines stand in the branches of set_double and set_string that found their own type.
DeletesFile(h) == row[h].type = "Blob" /\ req[h].type = "Int64"

EndLookup(h) ==
    /\ pc[h] = "looked"
    /\ Release(h)
    /\ Goto(h, IF DeletesFile(h) THEN "findFile" ELSE BranchOf(h, row[h].type))
    /\ UNCHANGED <<db, files, req, row, res, bounds>>

----------------------------------------------------------------------------
(* removeReferencedBlobFile, called by set_int64 before the transaction     *)
(* that deletes the ValueBlob row.                                          *)

BlobRows(k) ==
    {v \in db.values : v.type = "Blob" /\ \E i \in db.keyInfo :
                           i.key = k /\ i.type = "Blob" /\ i.id = v.id}

FindBlobFile(h) ==
    /\ pc[h] = "findFile"
    /\ CanRead(h)
    /\ lock' = [lock EXCEPT ![h] = "shared"]
    /\ \/ BlobRows(req[h].key) = {} /\ UNCHANGED row
       \/ \E v \in BlobRows(req[h].key) : Know(h, row[h].id, row[h].type, v.val)
    /\ Goto(h, "foundFile")
    /\ UNCHANGED <<db, dirty, files, req, res, bounds>>

EndFindBlobFile(h) ==
    /\ pc[h] = "foundFile"
    /\ Release(h)
    /\ IF row[h].path = NoPath
       THEN Return(h, "NO_SUCH_KEY", {})
       ELSE Goto(h, "unlink") /\ UNCHANGED <<req, row, res>>
    /\ UNCHANGED <<db, files, bounds>>

\* stat and remove; a path without a file ends the setter with an error.
UnlinkBlobFile(h) ==
    /\ pc[h] = "unlink"
    /\ IF files[row[h].path] = NoFile
       THEN Return(h, "INVALID", {}) /\ UNCHANGED files
       ELSE /\ files' = [files EXCEPT ![row[h].path] = NoFile]
            /\ Goto(h, "deleteValue")
            /\ UNCHANGED <<req, row, res>>
    /\ UNCHANGED <<db, dirty, lock, bounds>>

----------------------------------------------------------------------------
(* The write statements.  The first of a transaction takes RESERVED; all    *)
(* later ones run on the uncommitted tables.                                *)

WriteStep(h, next, tables) ==
    /\ CanWrite(h)
    /\ lock' = [lock EXCEPT ![h] = "reserved"]
    /\ dirty' = tables
    /\ Goto(h, next)
    /\ UNCHANGED <<db, files, req, res, bounds>>

\* What the Value table of the call's type stores: a blob's file, else the value.
Stored(h) == IF req[h].type = "Blob" THEN row[h].path ELSE req[h].val

\* Mutant: DELETE from the table of the new type.
DeleteValueOfNewType(h) ==
    /\ pc[h] = "deleteValue"
    /\ WriteStep(h, "deleteKey", [Image(h) EXCEPT !.values =
            {v \in @ : v.type # req[h].type \/ v.id # row[h].id}])
    /\ UNCHANGED row

\* Mutant: no BEGIN before it, so that the DELETE commits by itself.
DeleteValueAutocommit(h) ==
    /\ pc[h] = "deleteValue"
    /\ CanWrite(h)
    /\ db' = [db EXCEPT !.values = {v \in @ : v.type # row[h].type \/ v.id # row[h].id}]
    /\ Goto(h, "deleteKey")
    /\ UNCHANGED <<dirty, lock, files, req, row, res, bounds>>

DeleteValue(h) ==
    /\ pc[h] = "deleteValue"
    /\ WriteStep(h, "deleteKey", [Image(h) EXCEPT !.values =
            {v \in @ : v.type # row[h].type \/ v.id # row[h].id}])
    /\ UNCHANGED row

\* Mutant: the DELETE of the KeyInfo row matches nothing.
DeleteKeyNothing(h) ==
    /\ pc[h] = "deleteKey"
    /\ WriteStep(h, "insertKey", Image(h))
    /\ UNCHANGED row

DeleteKey(h) ==
    /\ pc[h] = "deleteKey"
    /\ WriteStep(h, "insertKey", [Image(h) EXCEPT !.keyInfo = {k \in @ : k.id # row[h].id}])
    /\ UNCHANGED row

\* Mutant: a retyped key gets a fresh id.
KeyIdFresh(h) == Image(h).seq + 1

\* AUTOINCREMENT: an id above every id ever used, unless the row had one.
KeyId(h) == IF row[h].type = "none" THEN Image(h).seq + 1 ELSE row[h].id

\* UNIQUE(domain, key) and PRIMARY KEY(id) of KeyInfo.
KeyInfoAccepts(tables, id, key) == \A k \in tables.keyInfo : k.key # key /\ k.id # id

InsertKey(h) ==
    LET id == KeyId(h) IN
    /\ pc[h] = "insertKey"
    /\ KeyInfoAccepts(Image(h), id, req[h].key)
    /\ WriteStep(h, "insertValue", [Image(h) EXCEPT
            !.keyInfo = @ \cup {[id |-> id, key |-> req[h].key, type |-> req[h].type]},
            !.seq = IF id > @ THEN id ELSE @])
    /\ Know(h, id, row[h].type, row[h].path)

\* SQLITE_CONSTRAINT is none of the codes the loop stops at.  The statement is
\* tried again for ever, and the RESERVED lock it took stays taken.
InsertKeyRefused(h) ==
    /\ pc[h] = "insertKey"
    /\ ~Writing(h)
    /\ ~KeyInfoAccepts(Image(h), KeyId(h), req[h].key)
    /\ WriteStep(h, "insertKey", db)
    /\ UNCHANGED row

\* PRIMARY KEY(id) of the Value tables.
InsertValue(h) ==
    /\ pc[h] = "insertValue"
    /\ \A v \in Image(h).values : v.type # req[h].type \/ v.id # row[h].id
    /\ WriteStep(h, "commit", [Image(h) EXCEPT !.values =
            @ \cup {[type |-> req[h].type, id |-> row[h].id, val |-> Stored(h)]}])
    /\ UNCHANGED row

\* Mutant: an UPDATE without its WHERE.
UpdateEveryValue(h) ==
    /\ pc[h] = "update"
    /\ WriteStep(h, "commit", [Image(h) EXCEPT !.values =
            {IF v.type = req[h].type THEN [v EXCEPT !.val = Stored(h)] ELSE v : v \in @}])
    /\ UNCHANGED row

\* Mutant: the id of the UPDATE is not bound, so that no row matches.
UpdateNoValue(h) ==
    /\ pc[h] = "update"
    /\ WriteStep(h, "commit", Image(h))
    /\ UNCHANGED row

\* UPDATE Value<type> ... WHERE id: no row with that id is no error.
UpdateValue(h) ==
    /\ pc[h] = "update"
    /\ WriteStep(h, "commit", [Image(h) EXCEPT !.values =
            {IF v.type = req[h].type /\ v.id = row[h].id THEN [v EXCEPT !.val = Stored(h)] ELSE v :
                v \in @}])
    /\ UNCHANGED row

\* COMMIT needs the file for itself; while a reader is left it keeps PENDING
\* and is retried.
Commit(h) ==
    /\ pc[h] = "commit"
    /\ CanCommit(h)
    /\ db' = dirty
    /\ lock' = [lock EXCEPT ![h] = "none"]
    /\ Return(h, "OK", {})
    /\ UNCHANGED <<dirty, files, bounds>>

CommitBusy(h) ==
    /\ pc[h] = "commit"
    /\ lock[h] = "reserved"
    /\ ~CanCommit(h)
    /\ lock' = [lock EXCEPT ![h] = "pending"]
    /\ UNCHANGED <<db, dirty, files, pc, req, row, res, bounds>>

\* set_blob frees `path` twice when it changes a key's type to Blob: before and
\* after the last INSERT is stepped.  The allocator may end the process there.
FreesTwice(h) ==
    /\ SetsBlob(h) /\ row[h].type \notin {"none", "Blob"}
    /\ pc[h] \in {"insertValue", "commit"}

Aborting(h) == IF FreesTwice(h) THEN {"ABORTED"} ELSE {}

CommitAborts(h) ==
    /\ pc[h] = "commit"
    /\ FreesTwice(h)
    /\ CanCommit(h)
    /\ db' = dirty
    /\ lock' = [lock EXCEPT ![h] = "none"]
    /\ Return(h, "ABORTED", {})
    /\ UNCHANGED <<dirty, files, bounds>>

----------------------------------------------------------------------------
(* The functions that read: one SELECT in a transaction of its own. *)

\* KeyInfo INNER JOIN Value<type> WHERE datatype = <type>: a key of another type has no
\* row in it, so that the getters' test of sqlite3_column_type never meets one.
ValuesOf(k, type) ==
    {v.val : v \in {w \in db.values : w.type = type /\ \E i \in db.keyInfo :
                                   i.key = k /\ i.type = type /\ i.id = w.id}}

TypesOf(k) == {i.type : i \in {j \in db.keyInfo : j.key = k}}

\* The names GLOB '*' matches; a pattern only selects among them.
KeyNames == {i.key : i \in db.keyInfo}

\* SELECT and what the call will return; the transaction stays open.
SelectStep(h, code, out, path) ==
    /\ pc[h] = "select"
    /\ CanRead(h)
    /\ lock' = [lock EXCEPT ![h] = "shared"]
    /\ res' = [res EXCEPT ![h] = [code |-> code, out |-> out]]
    /\ Know(h, row[h].id, row[h].type, path)
    /\ Goto(h, "selected")
    /\ UNCHANGED <<db, dirty, files, req, bounds>>

Found(out) == IF out = {} THEN "NO_SUCH_KEY" ELSE "OK"

SelectValue(h) ==
    LET out == ValuesOf(req[h].key, req[h].type) IN SelectStep(h, Found(out), out, NoPath)

SelectPath(h) ==
    IF BlobRows(req[h].key) = {}
    THEN SelectStep(h, "NO_SUCH_KEY", {}, NoPath)
    ELSE \E v \in BlobRows(req[h].key) : SelectStep(h, "OK", {}, v.val)

SelectType(h) == LET out == TypesOf(req[h].key) IN SelectStep(h, Found(out), out, NoPath)

SelectKeys(h) == SelectStep(h, "OK", KeyNames, NoPath)

EndSelect(h) ==
    /\ pc[h] = "selected"
    /\ Release(h)
    /\ IF row[h].path = NoPath
       THEN Return(h, res[h].code, res[h].out)
       ELSE Goto(h, "readFile") /\ UNCHANGED <<req, row, res>>
    /\ UNCHANGED <<db, files, bounds>>

ReadBlobFile(h) ==
    /\ pc[h] = "readFile"
    /\ IF files[row[h].path] = NoFile
       THEN Return(h, "INVALID", {})
       ELSE Return(h, "OK", {files[row[h].path].data})
    /\ UNCHANGED <<db, dirty, lock, files, bounds>>

----------------------------------------------------------------------------
(* One action per function of the interface: all the steps of its calls. *)

Serves(h, op, type) == req[h].op = op /\ req[h].type = type

WriteStatements(h) ==
    \/ DeleteValue(h) \/ DeleteKey(h) \/ InsertKey(h) \/ InsertKeyRefused(h)
    \/ InsertValue(h) \/ UpdateValue(h) \/ Commit(h) \/ CommitBusy(h)

ScalarSetter(h) ==
    \/ Lookup(h) \/ SelectBusy(h) \/ EndLookup(h)
    \/ WriteStatements(h)

RemoveReferencedBlobFile(h) == FindBlobFile(h) \/ EndFindBlobFile(h) \/ UnlinkBlobFile(h)

Getter(h) == SelectValue(h) \/ SelectBusy(h) \/ EndSelect(h)

SetInt64(h)  == Serves(h, "set", "Int64")  /\ (ScalarSetter(h) \/ RemoveReferencedBlobFile(h))
SetDouble(h) == Serves(h, "set", "Double") /\ ScalarSetter(h)
SetString(h) == Serves(h, "set", "String") /\ ScalarSetter(h)
SetBlob(h) ==
    /\ SetsBlob(h)
    /\ \/ OpenBlobFile(h) \/ CheckBlobFile(h) \/ WriteBlobFile(h) \/ Lookup(h) \/ SelectBusy(h)
       \/ WriteStatements(h) \/ CommitAborts(h)

GetInt64(h)  == Serves(h, "get", "Int64")  /\ Getter(h)
GetDouble(h) == Serves(h, "get", "Double") /\ Getter(h)
GetString(h) == Serves(h, "get", "String") /\ Getter(h)
GetBlob(h) ==
    /\ Serves(h, "get", "Blob")
    /\ SelectPath(h) \/ SelectBusy(h) \/ EndSelect(h) \/ ReadBlobFile(h)
GetType(h)  == req[h].op = "get_type"  /\ (SelectType(h) \/ SelectBusy(h) \/ EndSelect(h))
EnumKeys(h) == req[h].op = "enum_keys" /\ (SelectKeys(h) \/ SelectBusy(h) \/ EndSelect(h))

Step(h) ==
    \/ SetInt64(h) \/ SetDouble(h) \/ SetString(h) \/ SetBlob(h)
    \/ GetInt64(h) \/ GetDouble(h) \/ GetString(h) \/ GetBlob(h)
    \/ GetType(h) \/ EnumKeys(h)

----------------------------------------------------------------------------
(* Faults.  Every error path rolls back, removes the file set_blob wrote    *)
(* and returns an error; the exceptions are named.                          *)

Fault(h, kind) ==
    /\ kind \in FaultKinds
    /\ faults < MaxFaults
    /\ faults' = faults + 1
    /\ UNCHANGED <<db, calls, crashes>>

\* prepare, bind, step (SQLITE_ERROR, SQLITE_MISUSE), reset or finalize fails; not
\* while COMMIT is retried.
StatementFails(h) ==
    /\ pc[h] \in WriteLabels \cup
            {"lookup", "looked", "findFile", "foundFile", "select", "selected"}
    /\ lock[h] # "pending"
    /\ Fault(h, "error")
    /\ Release(h)
    /\ \E code \in {"INVALID"} \cup Aborting(h) : Return(h, code, {})
    /\ RemoveWritten(h)

\* requestMemory fails.  set_string's UPDATE branch returns its unset `error`, 0.
MemoryCode(h) == IF pc[h] = "update" /\ req[h].type = "String" THEN "OK" ELSE "MEMORY"

\* All memory for a refused statement has been requested before it is retried.
OutOfMemory(h) ==
    /\ pc[h] \in (WriteLabels \ {"commit"}) \cup
            {"openFile", "lookup", "findFile", "foundFile", "select", "readFile"}
    /\ ~(pc[h] = "insertKey" /\ row[h].type = "none" /\ Writing(h))
    /\ Fault(h, "memory")
    /\ Release(h)
    /\ Return(h, MemoryCode(h), {})
    /\ IF pc[h] = "openFile" THEN UNCHANGED files ELSE RemoveWritten(h)

\* mkdir, fopen, realpath, fwrite, fclose, stat or fread fails.  get_blob frees the
\* caller's pointer after a failed fread.
FileCodes(h) ==
    CASE pc[h] \in {"openFile", "writeFile"} -> {"IO"}
      [] pc[h] \in {"checkFile", "unlink"}   -> {"INVALID"}
      [] pc[h] = "readFile"                  -> {"INVALID", "IO", "ABORTED"}

FileFails(h) ==
    /\ pc[h] \in {"openFile", "checkFile", "writeFile", "unlink", "readFile"}
    /\ Fault(h, "io")
    /\ \E code \in FileCodes(h) : Return(h, code, {})
    /\ IF pc[h] = "checkFile" THEN RemoveWritten(h) ELSE UNCHANGED files
    /\ UNCHANGED <<dirty, lock>>

\* remove fails: removeReferencedBlobFile does not look at its result.
RemoveFails(h) ==
    /\ pc[h] = "unlink"
    /\ files[row[h].path] # NoFile
    /\ Fault(h, "io")
    /\ Goto(h, "deleteValue")
    /\ UNCHANGED <<dirty, lock, files, req, row, res>>

\* COMMIT ends with an error (disk full, I/O): SQLite rolls back, commit() says
\* so, and no setter looks at what commit() returned.
CommitFails(h) ==
    /\ pc[h] = "commit"
    /\ Fault(h, "commit")
    /\ Release(h)
    /\ \E code \in {"OK"} \cup Aborting(h) : Return(h, code, {})
    /\ UNCHANGED files

\* The process of a handle is killed in a call: its locks and its uncommitted
\* changes go, the blob directory stays.  A new process opens the file again.
Kill(h) ==
    /\ pc[h] # "idle"
    /\ crashes < MaxCrashes
    /\ crashes' = crashes + 1
    /\ Release(h)
    /\ Return(h, "KILLED", {})
    /\ UNCHANGED <<db, files, calls, faults>>

\* All the calls the bound allows have returned.
Finished == calls = MaxCalls /\ (\A h \in Handles : pc[h] = "idle") /\ UNCHANGED vars

Next ==
    \/ \E h \in Handles :
        \/ \E r \in Requests : Call(h, r)
        \/ Step(h)
        \/ StatementFails(h) \/ OutOfMemory(h) \/ FileFails(h) \/ RemoveFails(h)
        \/ CommitFails(h) \/ Kill(h)
    \/ Finished

Spec == Init /\ [][Next]_vars

\* The calling thread runs the call to its end.
FairSpec == Spec /\ \A h \in Handles : WF_vars(Step(h))

----------------------------------------------------------------------------
(* Properties. *)

Idle == \A h \in Handles : pc[h] = "idle"

RowComplete(tables, k) == \E v \in tables.values : v.type = k.type /\ v.id = k.id

\* Whoever opens the file finds, for every key, a value of the key's type:
\* retyping a key takes four statements and none of its halves may be visible,
\* also when a setter acted on a lookup that is no longer true.
KeyHasValue == \A k \in db.keyInfo : RowComplete(db, k)

\* database.h:28-30: the value is in the table of the key's type and in no other.
KeptClean ==
    \A k \in db.keyInfo :
        /\ RowComplete(db, k)
        /\ \A v \in db.values : v.id = k.id => v.type = k.type

\* database.h:24-27 for blobs: between calls, whatever failed before, the file of
\* every ValueBlob row is there and whole.
BlobRowHasFile ==
    Idle => \A v \in db.values :
        v.type = "Blob" => files[v.val] # NoFile /\ files[v.val].data # Torn

\* The blob rows a step removes, without one that still names the file.
BlobFilesDropped ==
    {p \in Paths : /\ \E v \in db.values : v.type = "Blob" /\ v.val = p
                   /\ ~ \E v \in db'.values : v.type = "Blob" /\ v.val = p}

\* database.h:31, when the row of a blob has been removed so has its file: for set_int64,
\* whose transaction comes well after it removed the file.  set_double and set_string
\* never look for the file (DeletesFile).
Int64LeavesNoFile ==
    [][\A h \in Handles : pc[h] = "commit" /\ pc'[h] = "idle" /\ req[h].type = "Int64" =>
            \A p \in BlobFilesDropped : files'[p] = NoFile]_vars

\* The step in which a setter reports success leaves what it was given in the store.
SetReturns(h) ==
    /\ pc[h] # "idle" /\ pc'[h] = "idle"
    /\ req[h].op = "set" /\ res'[h].code = "OK"

StoredNow(h) ==
    \E k \in db.keyInfo, v \in db.values :
        /\ k.key = req[h].key /\ k.type = req[h].type
        /\ v.type = k.type /\ v.id = k.id
        /\ IF k.type = "Blob" THEN files[v.val] # NoFile /\ files[v.val].data = req[h].val
           ELSE v.val = req[h].val

AcknowledgedSetIsStored == [][\A h \in Handles : SetReturns(h) => StoredNow(h)']_vars

\* database.h:34-35: a blob file that cannot be removed is ignored, so a scalar
\* setter whose statements all succeed sets the value, whatever became of the file.
MissingFileIsIgnored ==
    [][\A h \in Handles :
        /\ pc[h] # "idle" /\ pc'[h] = "idle"
        /\ req[h].op = "set" /\ req[h].type # "Blob"
        /\ faults' = faults /\ crashes' = crashes
        => res'[h].code = "OK"]_vars

\* database.h:167-169, and the same for the other getters: NO_SUCH_KEY is said of a pair
\* that does not exist, TYPE_MISMATCH of a key with a value of another type.
MismatchIsTold ==
    [][\A h \in Handles :
        /\ pc[h] = "select" /\ pc'[h] = "selected"
        /\ req[h].op = "get" /\ res'[h].code = "NO_SUCH_KEY"
        => \A k \in db.keyInfo : k.key # req[h].key]_vars

\* No call makes a key disappear or gives it another id: what another handle has
\* looked up stays the id of that key.
KeysPersist ==
    [][\A k \in db.keyInfo : \E n \in db'.keyInfo : n.key = k.key /\ n.id = k.id]_vars

\* A setter whose statement will be refused for ever: the key exists by now, or a value
\* row that an earlier race left under its id is in the way.
Refused(h) ==
    \/ pc[h] = "insertKey" /\ ~KeyInfoAccepts(Image(h), KeyId(h), req[h].key)
    \/ /\ pc[h] = "insertValue"
       /\ \E v \in Image(h).values : v.type = req[h].type /\ v.id = row[h].id

\* set_blob keeps SHARED from its SELECT and asks for RESERVED, which another
\* setter holds that cannot commit before the SHARED lock is gone.
UpgradeDeadlock ==
    \E h, g \in Handles :
        h # g /\ pc[h] \in WriteLabels /\ lock[h] = "shared" /\ Writing(g)

Wedged == UpgradeDeadlock \/ \E h \in Handles : Refused(h)

\* A client that has the database for itself gets an answer to every call.
CallsReturn == \A h \in Handles : pc[h] # "idle" ~> pc[h] = "idle"

\* Every call returns; the only ways to spin for ever are a refused statement and
\* the lock upgrade of set_blob.
CallsReturnUnlessWedged ==
    \A h \in Handles : pc[h] # "idle" ~> (pc[h] = "idle" \/ Wedged)

----------------------------------------------------------------------------
(* Why KeyHasValue and KeysPersist hold: their inductive strengthening. *)

SingleWriter == \A g, h \in Handles : Writing(g) /\ Writing(h) => g = h

\* UNIQUE(domain, key) and PRIMARY KEY(id) of KeyInfo.
Keyed(tables) == \A j, k \in tables.keyInfo : j.key = k.key \/ j.id = k.id => j = k

\* A transaction writes from its second statement on, and a call that is not
\* running knows nothing.
ControlOK(h) ==
    /\ pc[h] \in {"deleteKey", "insertValue", "commit"} => Writing(h)
    /\ pc[h] = "insertKey" /\ row[h].type # "none" => Writing(h)
    /\ Writing(h) => pc[h] \in {"deleteKey", "insertKey", "insertValue", "commit"}
    /\ pc[h] \in {"findFile", "foundFile", "unlink", "deleteValue", "deleteKey"}
            => row[h].type # "none"
    /\ pc[h] = "idle" => row[h].type = "none"
    /\ pc[h] \in {"readFile", "unlink"} \/ (SetsBlob(h) /\ pc[h] # "idle")
            => row[h].path \in Paths

\* What a setter looked up stays the id of its key.
LookupOK(h) ==
    row[h].type # "none" => \E k \in db.keyInfo : k.key = req[h].key /\ k.id = row[h].id

\* The uncommitted tables miss only what the next statement will add.
DirtyOK(h) ==
    /\ Keyed(dirty)
    /\ \A k \in dirty.keyInfo :
        \/ RowComplete(dirty, k)
        \/ pc[h] \in {"deleteKey", "insertValue"} /\ k.id = row[h].id
    /\ pc[h] = "insertValue" =>
            \A k \in dirty.keyInfo : k.id = row[h].id => k.type = req[h].type
    /\ \A k \in db.keyInfo :
        \/ \E n \in dirty.keyInfo : n.key = k.key /\ n.id = k.id
        \/ /\ pc[h] = "insertKey" /\ row[h].type # "none"
           /\ k.key = req[h].key /\ k.id = row[h].id

HandleOK(h) == ControlOK(h) /\ LookupOK(h) /\ (Writing(h) => DirtyOK(h))

IInv ==
    /\ TypeOK
    /\ SingleWriter
    /\ Keyed(db)
    /\ KeyHasValue
    /\ \A h \in Handles : HandleOK(h)

----------------------------------------------------------------------------
(* A client that has the database for itself: why KeptClean and what it is   *)
(* promised about its files hold.                                           *)

OneHandle == \A g, h \in Handles : g = h

\* Every value row belongs to a key and is of the key's type, and no key has two.
CleanTables(tables) ==
    /\ \A k \in tables.keyInfo : k.id <= tables.seq
    /\ \A v \in tables.values : \E k \in tables.keyInfo : k.id = v.id /\ k.type = v.type
    /\ \A v, w \in tables.values : v.id = w.id => v = w

\* What the setter looked up is still so.
SeenTrue(h) ==
    /\ row[h].type # "none" => \E k \in db.keyInfo :
            k.key = req[h].key /\ k.id = row[h].id /\ k.type = row[h].type
    /\ pc[h] \in {"looked", "insertKey"} /\ row[h].type = "none"
            => ~Writing(h) /\ \A k \in db.keyInfo : k.key # req[h].key
    /\ pc[h] = "update" => row[h].type = req[h].type

\* Between the two deletions and the two insertions the key has no value at all.
DirtyClean(h) ==
    /\ CleanTables(dirty)
    /\ pc[h] \in {"deleteKey", "insertKey", "insertValue"} => \A v \in dirty.values : v.id # row[h].id
    /\ {v \in dirty.values : v.id # row[h].id} = {v \in db.values : v.id # row[h].id}
    /\ row[h].type = "none" => \A v \in db.values : v.id # row[h].id
    /\ pc[h] \in {"insertValue", "commit"} => \E k \in dirty.keyInfo :
            /\ k.key = req[h].key /\ k.id = row[h].id /\ k.type = req[h].type
            /\ pc[h] = "commit" => [type |-> k.type, id |-> k.id, val |-> Stored(h)] \in dirty.values

\* The file of a set_blob is open until it is written, and then stays as written.
FileWritten(h) ==
    SetsBlob(h) =>
        /\ pc[h] # "idle" => row[h].path = PathOf[req[h].key]
        /\ pc[h] \in {"checkFile", "writeFile"} =>
                files[row[h].path] # NoFile /\ files[row[h].path].data = Torn /\ h \in Writers(row[h].path)
        /\ pc[h] \in {"lookup"} \cup WriteLabels =>
                files[row[h].path] # NoFile /\ files[row[h].path].data = req[h].val

\* set_int64 on a key that was a blob: the file it found, and then removed.
Retyping(h) == req[h].op = "set" /\ req[h].type = "Int64" /\ row[h].type = "Blob"

FileGone(h) ==
    /\ pc[h] \in {"findFile", "foundFile", "unlink"} => Retyping(h)
    /\ Retyping(h) =>
        /\ pc[h] \in {"foundFile", "unlink"} \cup WriteLabels =>
                \A v \in db.values : v.type = "Blob" /\ v.id = row[h].id => v.val = row[h].path
        /\ pc[h] \in WriteLabels /\ "io" \notin FaultKinds => files[row[h].path] = NoFile

SingleInv ==
    /\ IInv
    /\ CleanTables(db)
    /\ \A h \in Handles :
        /\ req[h] \in Requests
        /\ SeenTrue(h)
        /\ Writing(h) => DirtyClean(h)
        /\ FileWritten(h)
        /\ FileGone(h)

\* While the client's call replaces or drops a blob its file may be torn or missing.
InHand(h, key) ==
    /\ req[h].key = key
    /\ \/ SetsBlob(h) /\ pc[h] \in {"checkFile", "writeFile"}
       \/ Retyping(h) /\ pc[h] \in WriteLabels

FilesKept ==
    \A k \in db.keyInfo, v \in db.values : v.type = "Blob" /\ v.id = k.id =>
        /\ v.val = PathOf[k.key]
        /\ \/ files[v.val] # NoFile /\ files[v.val].data # Torn
           \/ \E h \in Handles : InHand(h, k.key)

=============================================================================
