---------------------------- MODULE DatabaseStore ----------------------------
(***************************************************************************)
(* Database implements KeyValueStore.  The history variable overtaken      *)
(* remembers which calls saw their key change under them; everything else  *)
(* of the abstract state is read off the concrete one.                     *)
(***************************************************************************)
EXTENDS Database

CONSTANT Absent

ASSUME AbsentAssumption == Absent \notin [type : Types, val : Data \cup Paths]

VARIABLE overtaken

\* The rows of the tables, as one value for each key.
StoreOf(tables) ==
    [k \in Keys |->
        IF \E i \in tables.keyInfo : i.key = k
        THEN LET i == CHOOSE i \in tables.keyInfo : i.key = k
                 v == CHOOSE v \in tables.values : v.type = i.type /\ v.id = i.id
             IN  [type |-> i.type, val |-> v.val]
        ELSE Absent]

Store == StoreOf(db)

RowOf(r) == [type |-> r.type, val |-> IF r.type = "Blob" THEN PathOf[r.key] ELSE r.val]

\* get_blob has looked at the store when it knows the path; what it reads from
\* the file is not a matter of the rows.
Answer(h) ==
    IF req[h].op = "get" /\ req[h].type = "Blob" /\ res[h].code = "OK"
    THEN [code |-> "OK", out |-> {PathOf[req[h].key]}]
    ELSE res[h]

HistoryInit == Init /\ overtaken = {}

Started(h) == pc[h] = "idle" /\ pc'[h] # "idle"

Overtaking ==
    overtaken' = {h \in Handles :
        ~Started(h) /\ (h \in overtaken \/ Store'[req[h].key] # Store[req[h].key])}

HistoryNext == Next /\ Overtaking

HistorySpec == HistoryInit /\ [][HistoryNext]_<<vars, overtaken>>

KVS == INSTANCE KeyValueStore WITH
    ValueOf <- RowOf,
    store <- Store,
    calling <- {h \in Handles : pc[h] # "idle"},
    asked <- req,
    overtaken <- overtaken,
    answer <- [h \in Handles |-> Answer(h)]

\* Every call of every handle takes effect on the rows at one instant or not at
\* all, although a setter is a chain of statements and two transactions.
ImplementsKeyValueStore == KVS!KVSpec

\* The two faults after which a setter reports success and has stored nothing.
Forgets(h) ==
    /\ \/ CommitFails(h)
       \/ OutOfMemory(h) /\ pc[h] = "update" /\ req[h].type = "String"
    /\ res'[h].code = "OK"

\* With these two left open, the same of every instance: nothing else than such a
\* fault comes between what the store promises and what the calls do.
OnlyFaultsForget ==
    KVS!KVInit /\ [][KVS!KVNext \/ \E h \in Handles : Forgets(h)]_(KVS!kvVars)

----------------------------------------------------------------------------
(* Why: the inductive strengthening of Database's IInv. *)

\* PRIMARY KEY(id) of the Value tables.
ValuesKeyed(tables) == \A v, w \in tables.values : v.type = w.type /\ v.id = w.id => v = w

\* AUTOINCREMENT: no id was used that is above the sequence.
SeqAbove(tables) ==
    /\ \A k \in tables.keyInfo : k.id <= tables.seq
    /\ \A v \in tables.values : v.id <= tables.seq

\* Also a blob row that is left of an earlier type names the file of its key.
PathsKept ==
    \A k \in db.keyInfo, v \in db.values :
        v.type = "Blob" /\ v.id = k.id => v.val = PathOf[k.key]

\* What a call has of its result and its locals at each statement.
CallOK(h) ==
    /\ req[h] \in Requests
    /\ pc[h] # "idle" => (pc[h] \in {"select", "selected", "readFile"} <=> req[h].op # "set")
    /\ pc[h] \notin {"idle", "selected", "readFile"} => res[h] = NoResult
    /\ pc[h] = "selected" => res[h].code \in {"OK", "NO_SUCH_KEY"}
    /\ pc[h] = "readFile" \/ (pc[h] = "selected" /\ row[h].path # NoPath)
            => req[h].op = "get" /\ req[h].type = "Blob" /\ res[h].code = "OK"
    /\ SetsBlob(h) /\ pc[h] # "idle" => row[h].path = PathOf[req[h].key]
    /\ pc[h] = "update" => row[h].type = req[h].type

\* The datatype a setter looked up is still that of the key, or it was overtaken.
SeenOK(h) ==
    row[h].type # "none" =>
        h \in overtaken \/ \E k \in db.keyInfo : k.key = req[h].key /\ k.type = row[h].type

\* The setter's value is all that the transaction changes of the store, or the
\* transaction changes nothing that a key leads to, because the call was overtaken.
EffectOK(h) ==
    \/ StoreOf(dirty) = [Store EXCEPT ![req[h].key] = RowOf(req[h])]
    \/ StoreOf(dirty) = Store /\ h \in overtaken

\* The transaction touches the rows of one key and one id, and no others.
ChangeOK(h) ==
    /\ ValuesKeyed(dirty) /\ SeqAbove(dirty)
    /\ {k \in dirty.keyInfo : k.key # req[h].key} = {k \in db.keyInfo : k.key # req[h].key}
    /\ {v \in dirty.values : v.id # row[h].id} = {v \in db.values : v.id # row[h].id}
    /\ \A v \in dirty.values : v.type = "Blob" /\ v.id = row[h].id => v.val = PathOf[req[h].key]
    /\ row[h].type = "none" => KeyInfoAccepts(db, row[h].id, req[h].key)
    /\ pc[h] \in {"insertValue", "commit"} =>
            \E k \in dirty.keyInfo : k.key = req[h].key /\ k.id = row[h].id
    /\ pc[h] = "commit" => EffectOK(h)

\* A refused INSERT has changed nothing.
WritingOK(h) ==
    IF pc[h] = "insertKey" /\ row[h].type = "none" THEN dirty = db ELSE ChangeOK(h)

SetterOK(h) == CallOK(h) /\ SeenOK(h) /\ (Writing(h) => WritingOK(h))

StoreInv ==
    /\ IInv
    /\ ValuesKeyed(db) /\ SeqAbove(db)
    /\ PathsKept
    /\ overtaken \subseteq Handles
    /\ \A h \in Handles : SetterOK(h)
=============================================================================
