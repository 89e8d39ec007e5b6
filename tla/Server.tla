------------------------------- MODULE Server -------------------------------
(***************************************************************************)
(* The packets of the registry and what server/server.c makes of one: a    *)
(* request packet leads to one call of database.c, and that call's outcome *)
(* to one response packet.  A packet is its type and its bpack fields;     *)
(* domain and key are left out, as nothing here depends on them.           *)
(***************************************************************************)
EXTENDS Naturals, Sequences

CONSTANTS
    Values    \* integers, doubles, strings, blobs, value types and lists of keys

Getters == {"GET_INT", "GET_DOUBLE", "GET_STRING", "GET_BLOB", "GET_VALUE_TYPE"}
Setters == {"SET_INT", "SET_DOUBLE", "SET_STRING", "SET_BLOB"}
RequestTypes == Getters \cup Setters \cup {"GET_ENUM", "SHUTDOWN"}
ResponseTypes == {"OK", "ERROR", "INT", "DOUBLE", "STRING", "BLOB", "ENUM", "TYPE"}

\* What a function of database.h may return; enum_keys never says NO_SUCH_KEY.  UNKNOWN
\* also stands for invalid arguments: clients report both alike.
DatabaseErrors ==
    {"UNKNOWN", "MEMORY", "INVALID", "NO_SUCH_KEY", "IO", "TYPE_MISMATCH", "TYPE_UNKNOWN"}

\* The number of keys enum_keys found: all that matters is whether there are any.
Counts == {"zero", "some"}

Request == [type : RequestTypes, fields : Seq(Values)]
Response == [type : ResponseTypes, fields : Seq(Values \cup Counts \cup DatabaseErrors)]
Outcome == [code : DatabaseErrors \cup {"OK"}, out : Seq(Values \cup Counts)]

\* What the database may answer to a request: external here, see module Database.
Found(type) ==
    IF type \in Setters THEN {<<>>}
    ELSE IF type = "GET_ENUM" THEN {<<"zero">>} \cup {<<"some", v>> : v \in Values}
    ELSE {<<v>> : v \in Values}

DatabaseOutcomes(type) ==
    [code : {"OK"}, out : Found(type)] \cup
    [code : DatabaseErrors \ (IF type \in Getters THEN {} ELSE {"NO_SUCH_KEY"}), out : {<<>>}]

\* The packet type each case of server_process answers with.
AnswerType ==
    [t \in RequestTypes |->
        CASE t = "GET_INT" -> "INT"
          [] t = "GET_DOUBLE" -> "DOUBLE"
          [] t = "GET_STRING" -> "STRING"
          [] t = "GET_BLOB" -> "BLOB"
          [] t = "GET_ENUM" -> "ENUM"
          [] t = "GET_VALUE_TYPE" -> "TYPE"
          [] OTHER -> "OK"]

ErrorPacket(code) == [type |-> "ERROR", fields |-> <<code>>]

\* server_process after the database call.  GET_ENUM packs the list of keys only if
\* there is one, after their number.
ResponseTo(type, outcome) ==
    IF outcome.code = "OK" THEN [type |-> AnswerType[type], fields |-> outcome.out]
    ELSE ErrorPacket(outcome.code)
=============================================================================
