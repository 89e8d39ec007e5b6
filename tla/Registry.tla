------------------------------ MODULE Registry ------------------------------
(***************************************************************************)
(* The client library, registry/registry.c, over its channel: open, close, *)
(* the ten calls, and a caller that also uses registry_get_channel to      *)
(* write a request to the channel itself and read the response later.      *)
(*                                                                         *)
(* One thread owns a handle, so calls do not overlap; what can go wrong is *)
(* that a failure half way up or down the chain, or a response nobody      *)
(* read, puts requests and responses out of step for every later call.     *)
(***************************************************************************)
EXTENDS Channels

CONSTANTS
    Identifiers,    \* what registry_open is called with, a subset of Identifier
    MaxCalls        \* bound: calls in a behaviour

VARIABLES
    open,     \* the handle exists
    calls

vars == <<channelVars, open, calls>>

\* "scheme://arg" parts separated by '|'.  NoKey is an empty arg.
Part == [scheme : {"file", "hmac", "other"}, arg : Stages]
Identifier == [parts : Seq(Part) \ {<<>>}, delimited : BOOLEAN, short : BOOLEAN]

ASSUME ConstantsAssumption ==
    /\ Identifiers \subseteq Identifier
    /\ NoKey \notin HmacKeys
    /\ NoMessage \notin Message
    /\ MaxFaults \in Nat /\ MaxCalls \in Nat

Labels == {"idle", "sign", "connect", "fetch", "verify", "serve", "reply", "wrote",
           "take", "signBack", "store", "collect", "verifyBack", "read", "unpack", "aborted"}
OpenErrors == {"UNKNOWN_IDENTIFIER", "INVALID_ARGUMENTS", "DATABASE_OPEN", "DATABASE_INVALID", "MEMORY", "UNKNOWN"}
Codes == OpenErrors \cup {"NONE", "OK", "BUSY", "CHANNEL_FAILED", "REGISTRY_NO_SUCH_KEY", "REGISTRY_INVALID_STATE"}
Callers == {"none", "registry", "channel", "reader"}

NoRequest == [type |-> "GET_INT", fields |-> <<>>]
NoOutcome == [code |-> "UNKNOWN", out |-> <<>>]
CallBy(caller, request) ==
    [by |-> caller, request |-> request, executed |-> 0, outcome |-> NoOutcome]

TypeOK ==
    /\ chain \in Seq(Stages)
    /\ server \in {"none", "running", "freed"}
    /\ slot \in Slot
    /\ conn \in [server_bytes : Slot, client_bytes : Slot]
    /\ pc \in Labels
    /\ at \in 0 .. Top
    /\ buf \in Slot
    /\ call \in [by : Callers, request : Request, executed : Nat, outcome : Outcome]
    /\ result \in [code : Codes, out : Seq(Values \cup Counts \cup DatabaseErrors)]
    /\ owed \in BOOLEAN /\ open \in BOOLEAN
    /\ faults \in Nat /\ calls \in Nat

Closed ==
    /\ open' = FALSE
    /\ chain' = <<>> /\ server' = "none" /\ slot' = NoMessage /\ owed' = FALSE
    /\ conn' = [server_bytes |-> NoMessage, client_bytes |-> NoMessage]

Init ==
    /\ open = FALSE
    /\ chain = <<>> /\ server = "none" /\ slot = NoMessage /\ owed = FALSE
    /\ conn = [server_bytes |-> NoMessage, client_bytes |-> NoMessage]
    /\ pc = "idle" /\ at = 0 /\ buf = NoMessage
    /\ call = CallBy("none", NoRequest)
    /\ result = [code |-> "NONE", out |-> <<>>]
    /\ faults = 0 /\ calls = 0

Finish(code, out) == Returns("idle", code, out)

----------------------------------------------------------------------------
(* Opening and closing. *)

Begin(caller, request) ==
    /\ pc = "idle" /\ calls < MaxCalls
    /\ calls' = calls + 1
    /\ call' = CallBy(caller, request)

\* What registry_open makes of an identifier; `database` is what database_open returned.
OpenCode(id, database) ==
    CASE id.short -> "UNKNOWN_IDENTIFIER"
      [] ~id.short /\ Head(id.parts).scheme # "file" -> "UNKNOWN_IDENTIFIER"
      [] ~id.short /\ Head(id.parts).scheme = "file" /\ Head(id.parts).arg = NoKey -> "INVALID_ARGUMENTS"
      [] OTHER ->
            IF database # "OK" THEN database
            ELSE IF id.delimited \/ \E i \in 2 .. Len(id.parts) : id.parts[i].scheme # "hmac"
            THEN "UNKNOWN_IDENTIFIER" ELSE "OK"

registry_open ==
    /\ ~open
    /\ Begin("none", NoRequest)
    /\ \E id \in Identifiers, database \in {"OK", "DATABASE_OPEN", "DATABASE_INVALID", "MEMORY", "UNKNOWN"} :
        LET code == OpenCode(id, database) IN
        /\ Finish(code, <<>>)
        /\ IF code = "OK"
           THEN /\ open' = TRUE /\ server' = "running"
                /\ chain' = [i \in 1 .. Len(id.parts) - 1 |-> id.parts[i + 1].arg]
                /\ UNCHANGED <<slot, conn, owed>>
           ELSE UNCHANGED <<open, server, chain, slot, conn, owed>>

\* Every channel built so far is freed; only a connector that has no memory for its
\* data frees itself through a pointer it has not set.
OpenFails ==
    /\ ~open
    /\ \/ /\ Begin("none", NoRequest)
          /\ Finish("MEMORY", <<>>)
          /\ UNCHANGED <<chain, server, slot, conn, owed, open>>
       \/ /\ pc = "idle" /\ calls < MaxCalls /\ calls' = calls + 1
          /\ Abort /\ UNCHANGED open

\* The channels free each other down to S, which shuts the server down a second time
\* if a packet has done so before.
registry_close ==
    /\ open
    /\ Begin("none", NoRequest)
    /\ Finish("OK", <<>>)
    /\ Closed

CloseAfterShutdown ==
    /\ open /\ server = "freed"
    /\ pc = "idle" /\ calls < MaxCalls /\ calls' = calls + 1
    /\ Abort /\ UNCHANGED open

----------------------------------------------------------------------------
(* The ten calls: pack the request and write it until the channel is not   *)
(* BUSY, read until it is not BUSY, unpack.                                *)

Invoke(type, arguments) ==
    /\ open
    /\ \E fields \in arguments :
        LET request == [type |-> type, fields |-> fields] IN
        Begin("registry", request) /\ Send(request)
    /\ UNCHANGED <<chain, server, slot, conn, result, owed, open>>

NoArgument == {<<>>}
OneArgument == {<<v>> : v \in Values}

registry_get_int64 == Invoke("GET_INT", NoArgument)
registry_set_int64 == Invoke("SET_INT", OneArgument)
registry_get_double == Invoke("GET_DOUBLE", NoArgument)
registry_set_double == Invoke("SET_DOUBLE", OneArgument)
registry_get_string == Invoke("GET_STRING", NoArgument)
registry_set_string == Invoke("SET_STRING", OneArgument)
registry_get_blob == Invoke("GET_BLOB", NoArgument)
registry_set_blob == Invoke("SET_BLOB", OneArgument)
registry_enum_keys == Invoke("GET_ENUM", NoArgument)
registry_key_get_value_type == Invoke("GET_VALUE_TYPE", NoArgument)

RegistryCall ==
    \/ registry_get_int64 \/ registry_set_int64
    \/ registry_get_double \/ registry_set_double
    \/ registry_get_string \/ registry_set_string
    \/ registry_get_blob \/ registry_set_blob
    \/ registry_enum_keys \/ registry_key_get_value_type

\* Packing runs out of memory; the buffer may be freed uninitialised.
PackFails ==
    /\ open
    /\ \/ /\ \E type \in RequestTypes \ {"SHUTDOWN"} :
                Begin("registry", [type |-> type, fields |-> <<>>])
          /\ Finish("UNKNOWN", <<>>)
          /\ UNCHANGED <<chain, server, slot, conn, owed, open>>
       \/ /\ pc = "idle" /\ calls < MaxCalls /\ calls' = calls + 1
          /\ Abort /\ UNCHANGED open

\* Mutant: the response is read even if the request could not be written.
WrittenOrNot ==
    /\ pc = "wrote" /\ call.by = "registry"
    /\ \/ result.code = "BUSY" /\ Send(call.request)
       \/ result.code # "BUSY" /\ Receive
    /\ UNCHANGED <<chain, server, slot, conn, call, result, owed, open, calls>>

\* `while(... == ERROR_CHANNEL_BUSY);` sends the same bytes again.
Written ==
    /\ pc = "wrote" /\ call.by = "registry"
    /\ \/ result.code = "BUSY" /\ Send(call.request) /\ UNCHANGED result
       \/ result.code = "OK" /\ Receive /\ UNCHANGED result
       \/ result.code \notin {"BUSY", "OK"} /\ Finish("UNKNOWN", <<>>)
    /\ UNCHANGED <<chain, server, slot, conn, call, owed, open, calls>>

\* The same loop around the read.
ReadDone ==
    /\ pc = "read" /\ call.by = "registry"
    /\ IF result.code = "BUSY" THEN Receive /\ UNCHANGED result
       ELSE IF result.code = "OK" THEN pc' = "unpack" /\ UNCHANGED <<at, buf, result>>
       ELSE Finish("UNKNOWN", <<>>)
    /\ UNCHANGED <<chain, server, slot, conn, call, owed, open, calls>>

\* The code a call makes of the one in an error packet.
ErrorCode(type, code) ==
    IF type \in Setters
    THEN IF code = "INVALID" THEN "REGISTRY_INVALID_STATE" ELSE "UNKNOWN"
    ELSE IF code = "NO_SUCH_KEY" THEN "REGISTRY_NO_SUCH_KEY" ELSE "UNKNOWN"

\* The packet type each call takes for an answer.
Expected ==
    [t \in RequestTypes |->
        CASE t = "GET_INT" -> "INT"
          [] t = "GET_DOUBLE" -> "DOUBLE"
          [] t = "GET_STRING" -> "STRING"
          [] t = "GET_BLOB" -> "BLOB"
          [] t = "GET_ENUM" -> "ENUM"
          [] t = "GET_VALUE_TYPE" -> "TYPE"
          [] OTHER -> "OK"]

\* enum_keys reads the list of keys only if their number is positive.
Readable(type, fields) == type = "GET_ENUM" /\ fields[1] = "some" => Len(fields) > 1

Unpack ==
    /\ pc = "unpack"
    /\ LET type == call.request.type
           response == buf.packet IN
       IF response.type = "ERROR" THEN Finish(ErrorCode(type, response.fields[1]), <<>>)
       ELSE IF response.type = Expected[type] /\ Readable(type, response.fields)
       THEN Finish("OK", response.fields) ELSE Finish("UNKNOWN", <<>>)
    /\ UNCHANGED <<chain, server, slot, conn, call, owed, open, calls>>

UnpackFails ==
    \/ /\ pc = "unpack" /\ Finish("UNKNOWN", <<>>)
       /\ UNCHANGED <<chain, server, slot, conn, call, owed, open, calls>>
    \/ pc = "unpack" /\ Abort /\ UNCHANGED <<open, calls>>

----------------------------------------------------------------------------
(* A caller that took the channel with registry_get_channel. *)

DirectWrite ==
    /\ open
    /\ \E type \in RequestTypes :
        \E fields \in (IF type \in Setters THEN OneArgument ELSE NoArgument) :
            LET request == [type |-> type, fields |-> fields] IN
            Begin("channel", request) /\ Send(request)
    /\ UNCHANGED <<chain, server, slot, conn, result, owed, open>>

DirectRead ==
    /\ open
    /\ Begin("reader", NoRequest) /\ Receive
    /\ UNCHANGED <<chain, server, slot, conn, result, owed, open>>

DirectReturn ==
    /\ \/ pc = "wrote" /\ call.by = "channel" /\ Finish(result.code, <<>>)
       \/ pc = "read" /\ call.by = "reader"
          /\ Finish(result.code, IF result.code = "OK" THEN buf.packet.fields ELSE <<>>)
    /\ UNCHANGED <<chain, server, slot, conn, call, owed, open, calls>>

----------------------------------------------------------------------------
Start ==
    \/ registry_open \/ registry_close \/ CloseAfterShutdown
    \/ RegistryCall \/ DirectWrite \/ DirectRead

Run ==
    \/ ChannelStep /\ UNCHANGED <<open, calls>>
    \/ Written \/ ReadDone \/ Unpack \/ DirectReturn

Failure ==
    \/ ChannelFault /\ UNCHANGED <<open, calls>>
    \/ OpenFails \/ PackFails \/ UnpackFails

Finished == (pc = "aborted" \/ (pc = "idle" /\ calls = MaxCalls)) /\ UNCHANGED vars

Next == ((Start \/ Run) /\ NoFault) \/ (Failure /\ Fault) \/ Finished

\* The thread that made a call keeps running it.
Fairness == WF_vars(Run /\ NoFault)

Spec == Init /\ [][Next]_vars
FairSpec == Spec /\ Fairness

----------------------------------------------------------------------------
(* What holds between the steps of a call: the inductive invariant. *)

WriteLabels == {"sign", "connect", "fetch", "verify", "serve"}
BackLabels == {"signBack", "store", "collect", "verifyBack"}

\* The message on its way, wherever it is.
Hand ==
    CASE pc = "fetch" -> conn.server_bytes
      [] pc = "collect" -> conn.client_bytes
      [] pc \in {"wrote", "take"} -> slot
      [] OTHER -> buf

ConnectorOK ==
    /\ conn.server_bytes # NoMessage <=> pc = "fetch"
    /\ conn.client_bytes # NoMessage <=> pc = "collect"

StageOK ==
    /\ pc \in {"sign", "verify", "signBack", "verifyBack"} => at > 0
    /\ pc \in {"connect", "fetch", "store", "collect"} => at = 0 /\ Top > 0

CallerOK ==
    /\ pc \in WriteLabels \cup {"reply", "wrote"} => call.by \in {"registry", "channel"}
    /\ pc \in BackLabels \cup {"take", "read"} => call.by \in {"registry", "reader"}
    /\ pc = "unpack" => call.by = "registry"
    /\ pc = "read" /\ result.code = "BUSY" => call.by = "reader"
    /\ call.by = "registry" => call.request.type # "SHUTDOWN"

\* The digests on a message are those of the stages it passed, the last one's last.
Carries(m, n) ==
    /\ Len(m.digests) = n
    /\ \A j \in 1 .. n : m.digests[j] = chain[Top + 1 - j]

DigestsOK ==
    /\ slot # NoMessage => slot.digests = <<>>
    /\ pc = "reply" => buf.digests = <<>>
    /\ pc \in {"sign", "connect", "fetch", "signBack", "store", "collect"} => Carries(Hand, Top - at)
    /\ pc \in {"verify", "verifyBack"} => Carries(buf, Top + 1 - at)

\* The call holds a response: not if its write or read ended with an error.
Answered ==
    \/ pc \in BackLabels \cup {"reply", "unpack"}
    \/ pc = "take" /\ call.by = "registry"
    \/ pc = "wrote" /\ result.code = "OK"
    \/ pc = "read" /\ result.code = "OK"

HandOK ==
    /\ pc \in WriteLabels => Hand # NoMessage /\ Hand.packet = call.request
    /\ Answered => Hand # NoMessage /\ Hand.packet \in Response

SlotOK ==
    /\ slot # NoMessage => slot.packet \in Response
    /\ slot # NoMessage <=>
        owed \/ (call.by = "registry" /\ (pc = "take" \/ (pc = "wrote" /\ result.code = "OK")))
    /\ pc \in BackLabels \cup {"reply", "read", "unpack"} => slot = NoMessage
    /\ pc = "wrote" /\ result.code = "OK" => (owed <=> call.by = "channel")
    /\ pc = "take" /\ call.by = "registry" => ~owed

ExecutedOK ==
    /\ call.executed <= 1
    /\ call.by \in {"none", "reader"} => call.executed = 0
    /\ pc \in WriteLabels => call.executed = 0
    /\ pc \in {"wrote", "read", "idle"} /\ result.code = "BUSY" => call.executed = 0

\* What a response says of the call it answers.
Answers(response) ==
    /\ response.type # "ERROR" =>
        /\ call.executed = 1 /\ call.outcome.code = "OK"
        /\ response.type = AnswerType[call.request.type]
        /\ response.fields = call.outcome.out
    /\ response.type = "ERROR" /\ response.fields[1] \in {"NO_SUCH_KEY", "INVALID"} =>
        call.executed = 1 /\ call.outcome.code = response.fields[1]

AnswerOK ==
    server = "running" /\ call.by = "registry" /\ Answered => Answers(Hand.packet)

\* Without faults nothing but an unread response keeps a call from its answer.
ArrivalOK ==
    faults = 0 /\ server = "running" /\ call.by = "registry" /\ ~owed =>
        /\ pc \in {"wrote", "read"} => result.code = "OK"
        /\ Answered =>
            /\ call.executed = 1 /\ call.outcome \in DatabaseOutcomes(call.request.type)
            /\ Hand.packet = ResponseTo(call.request.type, call.outcome)

----------------------------------------------------------------------------
(* Properties. *)

\* Between calls C's two buffers are empty, and S's slot holds a response exactly if
\* somebody wrote to the channel directly and has not read: no failure anywhere in the
\* chain leaves a response behind that a later call would take for its own.
SlotsInStep ==
    pc = "idle" =>
        /\ conn = [server_bytes |-> NoMessage, client_bytes |-> NoMessage]
        /\ slot # NoMessage <=> owed

\* A registry call that reports anything but UNKNOWN was executed by the database
\* exactly once, and reports what the database said of this very execution: in spite of
\* the BUSY loop, the shared slot and failures, no answer is another call's.
AnswerIsGenuine ==
    pc = "idle" /\ call.by = "registry" /\ result.code # "UNKNOWN" /\ server = "running" =>
        /\ call.executed = 1
        /\ result.code = "OK" => call.outcome = [code |-> "OK", out |-> result.out]
        /\ result.code = "REGISTRY_NO_SUCH_KEY" => call.outcome.code = "NO_SUCH_KEY"
        /\ result.code = "REGISTRY_INVALID_STATE" => call.outcome.code = "INVALID"

\* The loops that write again while the channel is BUSY never run a request twice, and a
\* write to the channel that was refused as BUSY has not run at all.
AtMostOnce ==
    /\ call.executed <= 1
    /\ pc = "idle" /\ result.code = "BUSY" => call.executed = 0

\* Without a failing allocation, an unread response or a shutdown, what the database
\* answered arrives: no stage rejects what another stage wrote, and client and server
\* agree on the packet of each call.
AnswerArrives ==
    pc = "idle" /\ call.by = "registry" /\ faults = 0 /\ ~owed /\ server = "running" =>
        /\ call.executed = 1
        /\ call.outcome.code = "OK" => result.code = "OK"
        /\ call.outcome.code = "NO_SUCH_KEY" => result.code = "REGISTRY_NO_SUCH_KEY"

\* The inductive invariant: at each step the message in transit belongs to the running
\* call and carries the digests of the stages it has passed, the buffers hold what the
\* step says and nothing else, and no call is executed twice.
IInv ==
    /\ TypeOK
    /\ ConnectorOK /\ StageOK /\ CallerOK /\ DigestsOK /\ HandOK /\ SlotOK /\ ExecutedOK
    /\ AnswerOK /\ ArrivalOK
    /\ AnswerIsGenuine /\ AnswerArrives

\* An unread response is not overwritten: as long as it is owed the slot does not change.
OwedResponseKept == [][owed /\ owed' => slot' = slot]_vars

\* Every call returns, except a registry call over S alone while a response is owed: it
\* spins on BUSY and nobody else can read.
CallsReturnUnlessOwed ==
    pc # "idle" ~> pc \in {"idle", "aborted"} \/ (owed /\ Top = 0 /\ call.by = "registry")

\* registry.h:6-8: INVALID_STATE if and only if the error packet says DATABASE_INVALID.
InvalidStateIffDatabaseInvalid ==
    pc = "idle" /\ call.by = "registry" /\ call.executed = 1 /\ faults = 0 =>
        (result.code = "REGISTRY_INVALID_STATE" <=> call.outcome.code = "INVALID")
=============================================================================
