---------------------------- MODULE KeyValueStore ----------------------------
(***************************************************************************)
(* What the calls of server/database.c do to the rows of the store, and no *)
(* more: every call acts on the whole store at one instant between its     *)
(* beginning and its end, or not at all when it fails.  The content of     *)
(* blob files is not part of it: for a blob the store holds the file's     *)
(* path.                                                                   *)
(*                                                                         *)
(* In one answer this is not what server/database.h promises: it has       *)
(* ERROR_DATABASE_TYPE_MISMATCH for a getter of a key whose value is of    *)
(* another type (168-169, 207-208, 246-247, 286-287), where the getters    *)
(* say ERROR_DATABASE_NO_SUCH_KEY.                                         *)
(***************************************************************************)
CONSTANTS Handles, Keys, Requests, Absent,
          ValueOf(_)    \* what a set request stores: its type with its value or path

VARIABLES
    store,      \* the type and value of each key, or Absent
    calling,    \* the handles with a call in progress
    asked,      \* the arguments of each handle's last call
    overtaken,  \* the calls during which another call changed the key they are about
    answer      \* what each handle's last call returns

kvVars == <<store, calling, asked, overtaken, answer>>

Pending == [code |-> "NONE", out |-> {}]

KVInit ==
    /\ store = [k \in Keys |-> Absent]
    /\ calling = {}
    /\ \E r \in Requests : asked = [h \in Handles |-> r]
    /\ overtaken = {}
    /\ answer = [h \in Handles |-> Pending]

Begin(h, r) ==
    /\ h \notin calling
    /\ calling' = calling \cup {h}
    /\ asked' = [asked EXCEPT ![h] = r]
    /\ overtaken' = overtaken \ {h}
    /\ answer' = [answer EXCEPT ![h] = Pending]
    /\ UNCHANGED store

Present == {k \in Keys : store[k] # Absent}

\* What a reading call finds in the store as it is.  A getter joins KeyInfo with the
\* table of its own type and so finds nothing under a key of another one.
Looked(r) ==
    CASE r.op = "enum_keys" -> Present
      [] r.op = "get_type"  -> {store[k].type : k \in Present \cap {r.key}}
      [] OTHER -> {store[k].val : k \in {j \in Present \cap {r.key} : store[j].type = r.type}}

\* NO_SUCH_KEY stands for both: no such key, and a key of another type, for which the
\* header has TYPE_MISMATCH (Database's MismatchIsTold).
Look(h) ==
    LET r == asked[h]  found == Looked(r) IN
    /\ h \in calling
    /\ r.op # "set"
    /\ answer[h] = Pending
    /\ answer' = [answer EXCEPT ![h] =
            [code |-> IF found = {} /\ r.op # "enum_keys" THEN "NO_SUCH_KEY" ELSE "OK",
             out  |-> found]]
    /\ UNCHANGED <<store, calling, asked, overtaken>>

\* A reading call returns what it found, once it has looked.
EndLook(h) ==
    /\ h \in calling
    /\ answer[h] # Pending
    /\ calling' = calling \ {h}
    /\ UNCHANGED <<store, asked, overtaken, answer>>

\* The setter's change and its return are one step.
Set(h) ==
    /\ h \in calling
    /\ asked[h].op = "set"
    /\ store' = [store EXCEPT ![asked[h].key] = ValueOf(asked[h])]
    /\ calling' = calling \ {h}
    /\ \E code \in {"OK", "ABORTED"} : answer' = [answer EXCEPT ![h] = [code |-> code, out |-> {}]]
    /\ overtaken' = overtaken \cup
            {g \in Handles : store'[asked[g].key] # store[asked[g].key]}
    /\ UNCHANGED asked

\* The setter succeeds and nothing changes: its value was overwritten, by a call
\* that came in between, before anyone could have seen it.
SetOverwritten(h) ==
    /\ h \in calling \cap overtaken
    /\ asked[h].op = "set"
    /\ calling' = calling \ {h}
    /\ answer' = [answer EXCEPT ![h] = [code |-> "OK", out |-> {}]]
    /\ UNCHANGED <<store, asked, overtaken>>

\* A call that fails changes no row.
Fail(h) ==
    /\ h \in calling
    /\ calling' = calling \ {h}
    /\ \E code \in {"INVALID", "MEMORY", "IO", "NO_SUCH_KEY", "ABORTED", "KILLED"} :
          answer' = [answer EXCEPT ![h] = [code |-> code, out |-> {}]]
    /\ UNCHANGED <<store, asked, overtaken>>

KVNext ==
    \E h \in Handles :
        \/ \E r \in Requests : Begin(h, r)
        \/ Look(h) \/ EndLook(h)
        \/ Set(h) \/ SetOverwritten(h)
        \/ Fail(h)

KVSpec == KVInit /\ [][KVNext]_kvVars
=============================================================================
