--------------------------- MODULE DatabaseHandle ---------------------------
(***************************************************************************)
(* One handle of server/database.c from database_open to database_close,   *)
(* as SQLite's connection sees it: the BEGIN, SELECT, write and COMMIT     *)
(* statements of each call in their order, the transaction they leave open *)
(* or not, and the statements nobody finalizes.                            *)
(*                                                                         *)
(* begin(), commit() and rollback() return without finalizing when their   *)
(* statement fails, no caller looks at what they return, and the loops     *)
(* around write statements run them again after every result but ERROR and *)
(* MISUSE.  What the rows say is module Database's subject; here a write   *)
(* is only told from the others.                                           *)
(***************************************************************************)
EXTENDS Naturals, Sequences

CONSTANTS
    MaxCalls,     \* bound: calls of getters and setters in a behaviour
    MaxOpens,     \* bound: calls of database_open
    MaxFaults     \* bound: failures of SQLite itself

ASSUME ConstantsAssumption == MaxCalls \in Nat /\ MaxOpens \in Nat /\ MaxFaults \in Nat

VARIABLES
    handle,    \* "none", "opening", "open", or "closing" in database_close
    script,    \* the steps the running call has still to take
    code,      \* what it returned or is about to return
    txn,       \* the connection has left autocommit mode
    leaked,    \* statements of the connection that nobody will finalize
    lost,      \* some connection was given up without being closed
    blobpath,  \* the string database_open found
    history,   \* of each set: its number of writes, the blob-path it stores, its result
    dirty,     \* the writes of the open transaction
    kept,      \* the writes in the file
    outside,   \* history: the calls that ran a write outside a transaction
    broken,    \* history: what SQLite failed at
    calls, opens, faults

vars == <<handle, script, code, txn, leaked, lost, blobpath, history, dirty, kept, outside,
          broken, calls, opens, faults>>
connection == <<txn, leaked, lost, dirty, kept, outside>>
bounds == <<calls, opens, faults>>

\* Strings a row `blob-path` may hold: the one of database-init.sql, another absolute
\* directory, or anything else.
BlobPaths == {"configured", "directory", "junk"}
NoPath == "none"

Steps == {"begin", "select", "write", "update", "commit", "rollback", "file", "check", "close"}
Codes == {"NONE", "OK", "FAILED", "DATABASE_OPEN", "MEMORY"}
Write == (1 .. MaxCalls) \X (1 .. 4)
NotRun == [writes |-> 0, path |-> NoPath, code |-> "NONE"]

TypeOK ==
    /\ handle \in {"none", "opening", "open", "closing"}
    /\ script \in Seq(Steps)
    /\ code \in Codes
    /\ txn \in BOOLEAN /\ leaked \in Nat /\ lost \in BOOLEAN
    /\ blobpath \in BlobPaths \cup {NoPath}
    /\ history \in [1 .. MaxCalls -> [writes : 0 .. 4, path : BlobPaths \cup {NoPath}, code : Codes]]
    /\ dirty \subseteq Write /\ kept \subseteq Write
    /\ outside \subseteq 1 .. MaxCalls
    /\ broken \subseteq {"begin", "commit", "rollback", "rolledBack", "update"}
    /\ calls \in Nat /\ opens \in Nat /\ faults \in Nat

Init ==
    /\ handle = "none" /\ script = <<>> /\ code = "NONE"
    /\ txn = FALSE /\ leaked = 0 /\ lost = FALSE
    /\ blobpath = NoPath
    /\ history = [c \in 1 .. MaxCalls |-> NotRun]
    /\ dirty = {} /\ kept = {} /\ outside = {} /\ broken = {}
    /\ calls = 0 /\ opens = 0 /\ faults = 0

Idle == script = <<>>
At(step) == script # <<>> /\ Head(script) = step
Advance == script' = Tail(script)

----------------------------------------------------------------------------
(* The statements of each call, for every row its first SELECT may find.   *)

Lookup == <<"begin", "select", "commit">>
Writes(n) == [i \in 1 .. n |-> "write"]
InTransaction(n) == <<"begin">> \o Writes(n) \o <<"commit">>

\* get_type, enum_keys and the four getters.
Getter == [script |-> Lookup, writes |-> 0, path |-> NoPath]
Setter(steps, n) == [script |-> steps, writes |-> n, path |-> NoPath]

\* Mutant: the row is inserted into KeyInfo twice.
InsertTwice ==
    {[script |-> Lookup \o InTransaction(3), writes |-> 2, path |-> NoPath]}

\* An insert of key `blob-path` is a set_string like any other, of any domain.
Insert == {[script |-> Lookup \o InTransaction(2), writes |-> 2, path |-> p] :
               p \in {NoPath, "directory", "junk"}}

\* Mutant: the transaction of the lookup is not ended before the next one begins.
SetInt64Nested ==
    {Setter(Lookup \o InTransaction(1), 1),
     Setter(Lookup \o <<"begin", "commit">> \o InTransaction(4), 4),
     Setter(Lookup \o <<"begin">> \o Lookup \o <<"file">> \o InTransaction(4), 4)}

\* The same type, another one, and a blob, whose file is looked up and removed first.
SetInt64 ==
    {Setter(Lookup \o InTransaction(1), 1),
     Setter(Lookup \o <<"begin", "commit">> \o InTransaction(4), 4),
     Setter(Lookup \o <<"begin", "commit">> \o Lookup \o <<"file">> \o InTransaction(4), 4)}

\* set_double and set_string end and begin a transaction for the same type instead.
SetDouble ==
    {Setter(Lookup \o <<"begin", "commit">> \o InTransaction(1), 1),
     Setter(Lookup \o InTransaction(4), 4)}

SetString ==
    {Setter(Lookup \o <<"begin", "commit", "begin", "update", "commit">>, 1),
     Setter(Lookup \o InTransaction(4), 4)}

SetBlob == {Setter(<<"begin", "select">> \o Writes(n) \o <<"commit">>, n) : n \in {1, 2, 4}}

Call ==
    /\ handle = "open" /\ Idle
    /\ calls < MaxCalls /\ calls' = calls + 1
    /\ \E c \in {Getter} \cup Insert \cup SetInt64 \cup SetDouble \cup SetString \cup SetBlob :
        /\ script' = c.script
        /\ history' = [history EXCEPT ![calls'] = [writes |-> c.writes, path |-> c.path, code |-> "OK"]]
    /\ code' = "OK"
    /\ UNCHANGED <<handle, connection, blobpath, broken, opens, faults>>

----------------------------------------------------------------------------
(* begin(), commit(), rollback(): outside or inside a transaction that is  *)
(* not there, SQLite refuses the statement and it is leaked.               *)

Begin ==
    /\ At("begin") /\ Advance
    /\ txn' = TRUE
    /\ leaked' = IF txn THEN leaked + 1 ELSE leaked
    /\ UNCHANGED <<handle, code, lost, blobpath, history, dirty, kept, outside, broken, bounds>>

End(effective) ==
    /\ Advance
    /\ txn' = FALSE /\ dirty' = {}
    /\ kept' = IF effective THEN kept \cup dirty ELSE kept
    /\ leaked' = IF txn THEN leaked ELSE leaked + 1
    /\ UNCHANGED <<handle, code, lost, blobpath, history, outside, broken, bounds>>

\* Mutant: commit() returns without finalizing when its step succeeds, too.
CommitLeaks ==
    /\ At("commit") /\ Advance
    /\ txn' = FALSE /\ dirty' = {} /\ kept' = kept \cup dirty
    /\ leaked' = leaked + 1
    /\ UNCHANGED <<handle, code, lost, blobpath, history, outside, broken, bounds>>

Commit == At("commit") /\ End(TRUE)
Rollback == At("rollback") /\ End(FALSE)

\* The call ends with an error: its own statement is finalized, then rollback(); and
\* database_open closes the connection.
FailsWith(result) ==
    /\ code' = result
    /\ history' = IF handle = "open" THEN [history EXCEPT ![calls].code = result] ELSE history
Cleanup == IF handle = "opening" THEN <<"rollback", "close">> ELSE <<"rollback">>

----------------------------------------------------------------------------
(* The statements of the calls themselves. *)

\* Mutant: the query does not join the key to its value.
StoredPathsByKey ==
    {"configured"} \cup
    {history[c].path : c \in {c \in 1 .. MaxCalls : history[c].path # NoPath /\ <<c, 1>> \in kept}}

StoredPaths ==
    {"configured"} \cup
    {history[c].path : c \in {c \in 1 .. MaxCalls :
        history[c].path # NoPath /\ {c} \X (1 .. history[c].writes) \subseteq kept}}

\* The query of database_open asks for key `blob-path` of any domain and takes the first
\* row it gets.
Select ==
    /\ At("select") /\ Advance
    /\ IF handle = "opening" THEN blobpath' \in StoredPaths ELSE UNCHANGED blobpath
    /\ UNCHANGED <<handle, code, connection, history, broken, bounds>>

\* No row, a row of the wrong type, BUSY, no memory, or a failing prepare or bind.
SelectFails ==
    /\ At("select")
    /\ FailsWith("FAILED")
    /\ script' = Cleanup
    /\ UNCHANGED <<handle, connection, blobpath, broken, bounds>>

\* removeReferencedBlobFile after its commit: the path is removed or refused.
RemoveFile ==
    /\ At("file")
    /\ \/ Advance /\ UNCHANGED <<code, history>>
       \/ script' = <<>> /\ FailsWith("FAILED")
    /\ UNCHANGED <<handle, connection, blobpath, broken, bounds>>

AtWrite == At("write") \/ At("update")

\* The writes of a call are numbered; only its COMMIT comes after the last.
WriteNumber == <<calls, history[calls].writes - Len(script) + 2>>

\* Mutant: each write ends its own transaction.
RunWriteAlone ==
    /\ AtWrite /\ Advance
    /\ kept' = kept \cup dirty \cup {WriteNumber} /\ dirty' = {}
    /\ UNCHANGED <<handle, code, txn, leaked, lost, blobpath, history, outside, broken, bounds>>

\* In autocommit mode a write commits by itself.
RunWrite ==
    /\ AtWrite /\ Advance
    /\ IF txn
       THEN dirty' = dirty \cup {WriteNumber} /\ UNCHANGED <<kept, outside>>
       ELSE kept' = kept \cup {WriteNumber} /\ outside' = outside \cup {calls} /\ UNCHANGED dirty
    /\ UNCHANGED <<handle, code, txn, leaked, lost, blobpath, history, broken, bounds>>

\* Mutant: the error path of a write returns OK.
WriteRefusedSilently ==
    /\ AtWrite
    /\ script' = Cleanup
    /\ UNCHANGED <<handle, code, connection, blobpath, history, broken, bounds>>

\* ERROR, MISUSE, no memory, or a failing prepare or bind.
WriteRefused ==
    /\ AtWrite
    /\ FailsWith("FAILED")
    /\ script' = Cleanup
    /\ UNCHANGED <<handle, connection, blobpath, broken, bounds>>

----------------------------------------------------------------------------
(* Failures: SQLite finds no memory, a full disk or a broken file, or the    *)
(* process no memory.                                                      *)

Fault(what) ==
    /\ faults < MaxFaults /\ faults' = faults + 1
    /\ broken' = broken \cup {what}
    /\ UNCHANGED <<calls, opens>>

\* Nothing is leaked if the prepare failed, the statement if its step did.
BeginFails ==
    /\ At("begin") /\ Advance /\ Fault("begin")
    /\ leaked' \in {leaked, leaked + 1}
    /\ UNCHANGED <<handle, code, txn, lost, blobpath, history, dirty, kept, outside>>

\* A COMMIT or ROLLBACK that fails in its step may have rolled back all the same.
EndFails ==
    /\ At("commit") \/ At("rollback")
    /\ Advance /\ Fault(Head(script))
    /\ \/ leaked' \in {leaked, leaked + 1} /\ UNCHANGED <<txn, dirty>>
       \/ leaked' = leaked + 1 /\ txn' = FALSE /\ dirty' = {}
    /\ UNCHANGED <<handle, code, lost, blobpath, history, kept, outside>>

\* FULL, IOERR or NOMEM of a step may undo the whole transaction.  A SELECT then ends
\* the call with a rollback() of nothing; a write is stepped again, in autocommit mode.
RolledBack ==
    /\ txn /\ (At("select") \/ AtWrite)
    /\ Fault("rolledBack")
    /\ txn' = FALSE /\ dirty' = {}
    /\ IF At("select") THEN FailsWith("FAILED") /\ script' = Cleanup
       ELSE UNCHANGED <<script, code, history>>
    /\ UNCHANGED <<handle, leaked, lost, blobpath, kept, outside>>

\* set_string has no memory for its UPDATE statement: it rolls back and returns OK.
UpdateWithoutMemory ==
    /\ At("update") /\ Fault("update")
    /\ script' = Cleanup
    /\ UNCHANGED <<handle, code, connection, blobpath, history>>

----------------------------------------------------------------------------
(* Opening and closing. *)

\* What database_open makes of a path before its transaction: stat, the handle's memory,
\* sqlite3_open_v2, and the metadata of ten columns.  The rows of DataTypes and the
\* uniqueness of (domain, key) are not looked at.
OpenCode ==
    [missing |-> "DATABASE_OPEN", irregular |-> "DATABASE_OPEN", noMemory |-> "MEMORY",
     unreadable |-> "DATABASE_OPEN", badColumn |-> "FAILED", valid |-> "OK"]

database_open ==
    /\ handle = "none"
    /\ opens < MaxOpens /\ opens' = opens + 1
    /\ \E path \in DOMAIN OpenCode :
        /\ code' = OpenCode[path]
        /\ IF path = "valid"
           THEN handle' = "opening" /\ script' = Lookup \o <<"check">>
           ELSE UNCHANGED <<handle, script>>
    /\ txn' = FALSE /\ leaked' = 0 /\ dirty' = {}
    /\ UNCHANGED <<lost, blobpath, history, kept, outside, broken, calls, faults>>

\* stat, directory, absolute.
CheckBlobPath ==
    /\ At("check")
    /\ IF blobpath \in {"configured", "directory"}
       THEN handle' = "open" /\ script' = <<>> /\ UNCHANGED code
       ELSE code' = "FAILED" /\ script' = <<"close">> /\ UNCHANGED handle
    /\ UNCHANGED <<connection, blobpath, history, broken, bounds>>

\* sqlite3_close refuses a connection with a statement: database_open does not look.
CloseFailedOpen ==
    /\ At("close") /\ Advance
    /\ handle' = "none"
    /\ lost' = (lost \/ leaked > 0)
    /\ txn' = FALSE /\ leaked' = 0 /\ dirty' = {}
    /\ UNCHANGED <<code, blobpath, history, kept, outside, broken, bounds>>

database_close ==
    /\ handle = "open" /\ Idle
    /\ handle' = "closing"
    /\ UNCHANGED <<script, code, connection, blobpath, history, broken, bounds>>

\* The loop around sqlite3_close ends when no statement is left; an open transaction is
\* rolled back.
SqliteClose ==
    /\ handle = "closing" /\ leaked = 0
    /\ handle' = "none" /\ txn' = FALSE /\ dirty' = {}
    /\ UNCHANGED <<script, code, leaked, lost, blobpath, history, kept, outside, broken, bounds>>

----------------------------------------------------------------------------
Run ==
    \/ Begin \/ Commit \/ Rollback \/ Select \/ RunWrite \/ RemoveFile
    \/ CheckBlobPath \/ CloseFailedOpen \/ SqliteClose

Refusal == SelectFails \/ WriteRefused
Failure == BeginFails \/ EndFails \/ RolledBack \/ UpdateWithoutMemory

Finished ==
    /\ handle = "none" /\ opens = MaxOpens
    /\ UNCHANGED vars

\* sqlite3_close is called for ever.
Hanging == handle = "closing" /\ leaked > 0 /\ UNCHANGED vars

Next ==
    database_open \/ database_close \/ Call \/ Run \/ Refusal \/ Failure \/ Finished \/ Hanging

\* The thread that made a call keeps running it.
Fairness == WF_vars(Run \/ Refusal)

Spec == Init /\ [][Next]_vars
FairSpec == Spec /\ Fairness
----------------------------------------------------------------------------
(* Properties. *)

WritesOf(c) == {c} \X (1 .. history[c].writes)

\* Whatever a statement of a call says (no row, an error, BUSY, no memory), its error path
\* leaves no transaction open and no statement behind: only SQLite's own failures of BEGIN,
\* COMMIT or ROLLBACK, or a transaction it rolled back by itself, can do that.
Balanced ==
    broken \subseteq {"update"} => leaked = 0 /\ ~lost /\ outside = {} /\ (Idle => ~txn)

\* database.h:24-26, "rollback any changes if one of the queries fails": of the writes of
\* a set all are in the file or none, unless it ran one of them outside a transaction or
\* a ROLLBACK failed: then the next call's COMMIT takes half a set with it.  A COMMIT that
\* fails can not break it, whatever later calls do.
AllOrNothing ==
    "rollback" \notin broken =>
        \A c \in (1 .. MaxCalls) \ outside : WritesOf(c) \cap kept \in {{}, WritesOf(c)}

\* After a set that reported success its writes are in the file, after one that reported
\* an error none of them is; also once SQLite rolled back other calls by itself.  The
\* exceptions are a COMMIT or ROLLBACK that fails, whose result is not looked at, so that the
\* next call's COMMIT or ROLLBACK decides, and set_string without memory for its UPDATE.
ReportIsTrue ==
    Idle /\ broken \cap {"commit", "rollback", "update"} = {} =>
        \A c \in (1 .. calls) \ outside :
            WritesOf(c) \cap kept = IF history[c].code = "OK" THEN WritesOf(c) ELSE {}

\* A blob directory other than the configured one comes from a set_string that reported
\* success: half a set, which SQLite's failures can leave, moves no handle's directory.
\* database.h:17-18 wants domain NULL, the query of database_open takes any domain.
BlobPathWasAcknowledged ==
    handle = "open" /\ blobpath # "configured" =>
        \E c \in 1 .. calls : history[c].path = blobpath /\ history[c].code = "OK"

\* Every call returns, database_close among them, unless SQLite failed and left a
\* statement: then database_close calls sqlite3_close for ever.
ReturnsUnlessLeaked ==
    (~Idle \/ handle = "closing") ~>
        (Idle /\ handle # "closing") \/ (leaked > 0 /\ broken # {})
=============================================================================
