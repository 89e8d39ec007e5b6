------------------------ MODULE RegistryRemoteProofs ------------------------
(***************************************************************************)
(* Registry implements RemoteCall for every chain of stages, every set of  *)
(* keys and values and every bound: each step is a step of the abstract    *)
(* call or changes nothing that its caller can see.                        *)
(***************************************************************************)
EXTENDS RegistryRemote, RegistryProofs

\* What each step has to show.
Good == ResponseOK' /\ (Remote!RemoteNext \/ UNCHANGED Remote!remoteVars)

LEMMA ResponsesAre ==
    Remote!Responses =
        {ErrorPacket(code) : code \in IF Up THEN {"MEMORY", "UNKNOWN"} ELSE DatabaseErrors} \cup
        (IF LastCall.executed = 1
         THEN {ResponseTo(LastCall.request.type, LastCall.outcome)} ELSE {})
  BY DEF Remote!Responses, Remote!ErrorPacket, ErrorPacket, Remote!DatabaseErrors, DatabaseErrors,
         Remote!ResponseTo, ResponseTo, Remote!AnswerType, AnswerType,
         Remote!RequestTypes, RequestTypes, Remote!Setters, Setters, Remote!Getters, Getters

LEMMA ResponsesStay ==
    ASSUME Alive, Alive', UNCHANGED <<server, call>>
    PROVE  Remote!Responses' = Remote!Responses
<1>1. LastCall' = LastCall /\ Up' = Up
  BY DEF LastCall, Up
<1> QED
  BY <1>1 DEF Remote!Responses

LEMMA InitMaps == Init => Remote!RemoteInit
  BY DEF Init, Remote!RemoteInit, Remote!NoCall, Remote!CallBy, Remote!Says, CallBy, Alive, Up,
         Running, LastCall, Unread, LastAnswer, Returned, ReturnedOut

LEMMA InitResponse == Init => ResponseOK
  BY DEF Init, ResponseOK, Answered, BackLabels, CallBy

----------------------------------------------------------------------------
(* The ways a step may go. *)

LEMMA Stutters ==
    ASSUME Running, Running', UNCHANGED <<server, call, open>>, Unread' = Unread
    PROVE  UNCHANGED Remote!remoteVars
  BY DEF Remote!remoteVars, Running, Alive, Up, LastCall, LastAnswer

\* The request goes on.
LEMMA DownGood ==
    ASSUME pc \in WriteLabels, pc' \in WriteLabels, UNCHANGED <<server, call, open, owed, slot>>
    PROVE  Good
<1>1. Running /\ Running' /\ Unread' = Unread
  BY DEF Running, Alive, Returned, Unread, WriteLabels, BackLabels
<1>2. ResponseOK'
  BY DEF ResponseOK, Answered, WriteLabels, BackLabels
<1> QED
  BY <1>1, <1>2, Stutters DEF Good

\* The response goes on.
LEMMA BackGood ==
    ASSUME ResponseOK, pc \in BackLabels, pc' \in BackLabels, Hand'.packet = Hand.packet,
           UNCHANGED <<server, call, open, owed, slot>>
    PROVE  Good
<1>1. Running /\ Running' /\ Alive /\ Alive'
  BY DEF Running, Alive, Returned, BackLabels
<1>2. Unread' = Unread
  BY <1>1 DEF Unread
<1>3. ResponseOK'
  <2>1. Answered /\ pc' # "reply" /\ (call.by = "registry" => Hand.packet \in Remote!Responses)
    BY DEF ResponseOK, Answered, BackLabels
  <2> QED
    BY <1>1, <2>1, ResponsesStay DEF ResponseOK
<1> QED
  BY <1>1, <1>2, <1>3, Stutters DEF Good

\* The write ends with an error.
LEMMA WriteErrorGood ==
    ASSUME IInv, pc \in WriteLabels \cup {"reply"}, pc' = "wrote",
           NEW code \in WriteErrors, result' = [code |-> code, out |-> <<>>],
           code = "BUSY" => owed,
           UNCHANGED <<server, call, open, owed, slot>>
    PROVE  Good
<1>1. call.by \in {"registry", "channel"}
  BY DEF IInv, CallerOK
<1>2. Running /\ Alive /\ Alive' /\ Unread' = Unread
  BY DEF Running, Alive, Returned, Unread, WriteLabels, BackLabels
<1>3. ResponseOK'
  BY DEF ResponseOK, Answered, BackLabels, WriteErrors
<1>4. CASE call.by = "registry"
  <2>1. Running'
    BY <1>4 DEF Running, Alive, Returned
  <2> QED
    BY <1>2, <1>3, <2>1, Stutters DEF Good
<1>5. CASE call.by = "channel"
  <2>1. ~Running' /\ LastAnswer' = [code |-> code, out |-> <<>>]
    BY <1>5 DEF Running, Alive, Returned, LastAnswer, ReturnedOut
  <2>2. LastCall = call /\ LastCall' = LastCall
    BY <1>2 DEF LastCall
  <2>3. code = "BUSY" => Unread # {}
    BY <1>2 DEF Unread
  <2>4. Remote!WriteReturns
    BY <1>2, <1>5, <2>1, <2>2, <2>3 DEF Remote!WriteReturns, Remote!Return, Up
  <2> QED
    BY <1>3, <2>4 DEF Good, Remote!RemoteNext
<1> QED
  BY <1>1, <1>4, <1>5

\* The read of a response ends with an error.
LEMMA ReadErrorGood ==
    ASSUME IInv, pc \in BackLabels, pc' = "read",
           NEW code \in ReadErrors, result' = [code |-> code, out |-> <<>>],
           UNCHANGED <<server, call, open, owed, slot>>
    PROVE  Good
<1>1. call.by \in {"registry", "reader"} /\ ~owed
  BY DEF IInv, CallerOK, SlotOK
<1>2. Running /\ Alive /\ Alive' /\ Unread' = {}
  BY <1>1 DEF Running, Alive, Returned, Unread, BackLabels
<1>3. ResponseOK'
  BY DEF ResponseOK, Answered, BackLabels, ReadErrors
<1>4. CASE call.by = "registry"
  <2>1. Running' /\ Unread = {}
    BY <1>1, <1>2, <1>4 DEF Running, Alive, Returned, Unread
  <2> QED
    BY <1>2, <1>3, <2>1, Stutters DEF Good
<1>5. CASE call.by = "reader"
  <2>1. ~Running' /\ LastAnswer' = [code |-> code, out |-> <<>>]
    BY <1>5 DEF Running, Alive, Returned, LastAnswer, ReturnedOut, ReadErrors
  <2>2. LastCall = call /\ LastCall' = LastCall
    BY <1>2 DEF LastCall
  <2>3. Unread # {}
    BY <1>1, <1>2, <1>5 DEF Unread
  <2>4. Remote!ReadReturns
    BY <1>2, <1>5, <2>1, <2>2, <2>3 DEF Remote!ReadReturns, Remote!Return, Up
  <2> QED
    BY <1>3, <2>4 DEF Good, Remote!RemoteNext
<1> QED
  BY <1>1, <1>4, <1>5

LEMMA CrashGood ==
    ASSUME Alive, pc' = "aborted", UNCHANGED <<server, open>>
    PROVE  Good
<1>1. /\ ~Alive' /\ ~Running' /\ Unread' = {} /\ LastAnswer' = PendingAnswer
      /\ LastCall' = CallBy("none", NoRequest)
  BY DEF Alive, Running, Returned, Unread, LastAnswer, LastCall
<1>2. Remote!Crash
  BY <1>1 DEF Remote!Crash, Remote!NoCall, Remote!CallBy, CallBy, Up
<1>3. ResponseOK'
  BY DEF ResponseOK, Answered, BackLabels
<1> QED
  BY <1>2, <1>3 DEF Good, Remote!RemoteNext

\* A call of the library returns without an answer.
LEMMA GiveUpGood ==
    ASSUME IInv, Running, call.by = "registry", pc' = "idle",
           result' = [code |-> "UNKNOWN", out |-> <<>>],
           UNCHANGED <<server, call, open, owed, slot>>
    PROVE  Good
<1>1. Alive /\ Alive' /\ ~Running' /\ LastAnswer' = [code |-> "UNKNOWN", out |-> <<>>]
  BY DEF Running, Alive, Returned, LastAnswer, ReturnedOut
<1>2. LastCall = call /\ LastCall' = LastCall /\ Unread' = Unread
  BY <1>1 DEF LastCall, Unread, BackLabels
<1>3. Remote!GiveUp
  BY <1>1, <1>2 DEF Remote!GiveUp, Remote!Return, Up
<1>4. ResponseOK'
  BY DEF ResponseOK, Answered, BackLabels
<1> QED
  BY <1>3, <1>4 DEF Good, Remote!RemoteNext

----------------------------------------------------------------------------
(* The stages and the connector. *)

LEMMA SignGood ==
    ASSUME IInv, ResponseOK, ch_client_write_bytes \/ ch_server_write_bytes,
           UNCHANGED <<open, calls, faults>>
    PROVE  Good
<1>1. CASE ch_client_write_bytes
  BY <1>1, DownGood DEF ch_client_write_bytes, Goto, WriteLabels
<1>2. CASE ch_server_write_bytes
  <2>1. pc = "signBack" /\ at \in 1 .. Top /\ buf \in Message /\ Hand = buf
    BY <1>2 DEF ch_server_write_bytes, IInv, TypeOK, StageOK, HandOK, Answered, BackLabels, Hand, Slot
  <2>2. /\ pc' \in {"store", "signBack"} /\ buf' = Signed(buf, chain[at])
        /\ UNCHANGED <<server, slot, call, owed>>
    BY <1>2 DEF ch_server_write_bytes, Goto
  <2>3. Hand' = buf'
    BY <2>2 DEF Hand
  <2>4. buf'.packet = buf.packet
    BY <2>1, <2>2, SignedMessage DEF IInv
  <2> QED
    BY <2>1, <2>2, <2>3, <2>4, BackGood DEF BackLabels
<1> QED
  BY <1>1, <1>2

LEMMA ServerReadGood ==
    ASSUME IInv, ch_server_read_bytes, UNCHANGED <<open, calls, faults>>
    PROVE  Good
<1>1. pc = "verify" /\ UNCHANGED <<server, slot, call, owed>>
  BY DEF ch_server_read_bytes
<1>2. CASE Genuine(buf, chain[at])
  <2>1. pc' \in {"serve", "verify"}
    BY <1>2 DEF ch_server_read_bytes, Goto
  <2> QED
    BY <1>1, <2>1, DownGood DEF WriteLabels
<1>3. CASE ~Genuine(buf, chain[at])
  <2>1. pc' = "wrote" /\ result' = [code |-> "UNKNOWN", out |-> <<>>]
    BY <1>3 DEF ch_server_read_bytes, WriteFails, Returns, Goto
  <2> QED
    BY <1>1, <2>1, WriteErrorGood DEF WriteLabels, WriteErrors
<1> QED
  BY <1>2, <1>3

LEMMA VerifyFailsGood ==
    ASSUME IInv, VerifyFails, UNCHANGED <<open, calls>>
    PROVE  Good
<1>1. CASE Abort
  BY <1>1, CrashGood DEF VerifyFails, Abort, Alive
<1>2. CASE ~Abort
  <2>1. PICK code \in {"MEMORY", "UNKNOWN"} :
            /\ IF pc = "verify" THEN WriteFails(0, code) /\ LeaveConnector
               ELSE ReadFails(code) /\ UNCHANGED conn
            /\ UNCHANGED <<chain, server, slot, call, owed>>
    BY <1>2 DEF VerifyFails
  <2>2. CASE pc = "verify"
    <3>1. PICK c \in {"MEMORY", "UNKNOWN"} : pc' = "wrote" /\ result' = [code |-> c, out |-> <<>>]
      BY <2>1, <2>2 DEF WriteFails, Returns, Goto
    <3> QED
      BY <2>1, <2>2, <3>1, WriteErrorGood DEF WriteLabels, WriteErrors
  <2>3. CASE pc = "verifyBack"
    <3>1. pc' = "read" /\ result' = [code |-> code, out |-> <<>>]
      BY <2>1, <2>3 DEF ReadFails, Returns, Goto
    <3> QED
      BY <2>1, <2>3, <3>1, ReadErrorGood DEF BackLabels, ReadErrors
  <2> QED
    BY <2>2, <2>3 DEF VerifyFails
<1> QED
  BY <1>1, <1>2

LEMMA SignFailsGood ==
    ASSUME IInv, SignFails, UNCHANGED <<open, calls>>
    PROVE  Good
<1>1. CASE Abort
  BY <1>1, CrashGood DEF SignFails, Abort, Alive
<1>2. CASE pc = "sign" /\ WriteFails(at, "MEMORY") /\ UNCHANGED <<chain, server, slot, conn, call, owed>>
  <2>1. PICK c \in {"MEMORY", "UNKNOWN"} : pc' = "wrote" /\ result' = [code |-> c, out |-> <<>>]
    BY <1>2 DEF WriteFails, Returns, Goto
  <2> QED
    BY <1>2, <2>1, WriteErrorGood DEF WriteLabels, WriteErrors
<1>3. CASE pc = "signBack" /\ WriteBackFails(at, "MEMORY") /\ UNCHANGED <<chain, server, slot, conn, call, owed>>
  <2>1. PICK c \in {"MEMORY", "UNKNOWN"} : pc' = "read" /\ result' = [code |-> c, out |-> <<>>]
    BY <1>3 DEF WriteBackFails, ReadFails, Returns, Goto
  <2> QED
    BY <1>3, <2>1, ReadErrorGood DEF BackLabels, ReadErrors
<1> QED
  BY <1>1, <1>2, <1>3 DEF SignFails

LEMMA ConnectorFailsGood ==
    ASSUME IInv, ConnectorFails, UNCHANGED <<open, calls>>
    PROVE  Good
<1>1. UNCHANGED <<server, slot, call, owed>>
  BY DEF ConnectorFails
<1>2. CASE pc = "connect" /\ WriteFails(0, "MEMORY")
  <2>1. PICK c \in {"MEMORY", "UNKNOWN"} : pc' = "wrote" /\ result' = [code |-> c, out |-> <<>>]
    BY <1>2 DEF WriteFails, Returns, Goto
  <2> QED
    BY <1>1, <1>2, <2>1, WriteErrorGood DEF WriteLabels, WriteErrors
<1>3. CASE pc = "store" /\ WriteBackFails(0, "MEMORY")
  <2>1. PICK c \in {"MEMORY", "UNKNOWN"} : pc' = "read" /\ result' = [code |-> c, out |-> <<>>]
    BY <1>3 DEF WriteBackFails, ReadFails, Returns, Goto
  <2> QED
    BY <1>1, <1>3, <2>1, ReadErrorGood DEF BackLabels, ReadErrors
<1> QED
  BY <1>2, <1>3 DEF ConnectorFails

\* C's buffers are never full when a message comes.
LEMMA ConnectorGood ==
    ASSUME IInv, ResponseOK, UNCHANGED <<open, calls, faults>>,
           cec_client_write_bytes \/ cec_server_read_bytes \/ cec_server_write_bytes \/ Collect
    PROVE  Good
<1>1. ConnectorOK
  BY DEF IInv
<1>2. CASE cec_client_write_bytes
  <2>1. pc = "connect" /\ pc' = "fetch" /\ UNCHANGED <<server, slot, call, owed>>
    BY <1>1, <1>2 DEF cec_client_write_bytes, ConnectorOK, Goto
  <2> QED
    BY <2>1, DownGood DEF WriteLabels
<1>3. CASE cec_server_read_bytes
  <2>1. pc = "fetch" /\ pc' = "verify" /\ UNCHANGED <<server, slot, call, owed>>
    BY <1>1, <1>3 DEF cec_server_read_bytes, ConnectorOK, Goto
  <2> QED
    BY <2>1, DownGood DEF WriteLabels
<1>4. CASE cec_server_write_bytes
  <2>1. /\ pc = "store" /\ pc' = "collect" /\ UNCHANGED <<server, slot, call, owed>>
        /\ conn' = [conn EXCEPT !.client_bytes = buf]
    BY <1>1, <1>4 DEF cec_server_write_bytes, ConnectorOK, Goto
  <2>2. conn'.client_bytes = buf
    BY <2>1 DEF IInv, TypeOK
  <2>3. Hand' = Hand
    BY <2>1, <2>2 DEF Hand
  <2> QED
    BY <2>1, <2>3, BackGood DEF BackLabels
<1>5. CASE Collect
  <2>1. /\ pc = "collect" /\ pc' = "verifyBack" /\ UNCHANGED <<server, slot, call, owed>>
        /\ buf' = conn.client_bytes
    BY <1>5 DEF Collect, Goto
  <2>2. Hand' = Hand
    BY <2>1 DEF Hand
  <2> QED
    BY <2>1, <2>2, BackGood DEF BackLabels
<1> QED
  BY <1>2, <1>3, <1>4, <1>5

\* The last stage on the way back hands the response to the registry, or to the reader whose
\* read returns with it.
LEMMA TakenGood ==
    ASSUME IInv, ResponseOK, pc' = "read", result' = [code |-> "OK", out |-> <<>>],
           buf'.packet = Hand.packet, ~owed', UNCHANGED <<server, call, open>>,
           \/ pc \in BackLabels /\ UNCHANGED <<slot, owed>>
           \/ pc = "take" /\ slot # NoMessage
    PROVE  Good
<1>1. call.by \in {"registry", "reader"} /\ Alive /\ Alive' /\ Running
  BY DEF IInv, CallerOK, Alive, Running, Returned, BackLabels
<1>2. LastCall = call /\ LastCall' = LastCall /\ Up' = Up
  BY <1>1 DEF LastCall, Up
<1>3. Unread' = {}
  BY <1>1 DEF Unread, BackLabels
<1>4. CASE call.by = "registry"
  <2>1. Running' /\ Unread = {}
    BY <1>1, <1>4 DEF Running, Alive, Returned, Unread, IInv, SlotOK
  <2>2. Hand' = buf'
    BY DEF Hand
  <2>3. Hand.packet \in Remote!Responses
    BY <1>4 DEF ResponseOK, Answered
  <2>4. ResponseOK'
    BY <1>1, <2>2, <2>3, ResponsesStay DEF ResponseOK
  <2> QED
    BY <1>1, <1>3, <2>1, <2>4, Stutters DEF Good
<1>5. CASE call.by = "reader"
  <2>1. ~Running' /\ LastAnswer' = [code |-> "OK", out |-> Hand.packet.fields]
    BY <1>5 DEF Running, Alive, Returned, LastAnswer, ReturnedOut
  <2>2. Unread = {Hand.packet}
    BY <1>1, <1>5 DEF Unread, Hand, IInv, SlotOK
  <2>3. Remote!ReadReturns
    BY <1>1, <1>2, <1>3, <1>5, <2>1, <2>2 DEF Remote!ReadReturns, Remote!Return, Alive
  <2>4. ResponseOK'
    BY <1>5 DEF ResponseOK
  <2> QED
    BY <2>3, <2>4 DEF Good, Remote!RemoteNext
<1> QED
  BY <1>1, <1>4, <1>5

LEMMA ClientReadGood ==
    ASSUME IInv, ResponseOK, ch_client_read_bytes, UNCHANGED <<open, calls, faults>>
    PROVE  Good
<1>1. pc = "verifyBack" /\ at \in 1 .. Top /\ buf \in Message /\ Hand = buf
      /\ UNCHANGED <<server, slot, call, owed>>
  BY DEF ch_client_read_bytes, IInv, TypeOK, StageOK, HandOK, Answered, BackLabels, Hand, Slot
<1>2. CASE ~Genuine(buf, chain[at])
  <2>1. pc' = "read" /\ result' = [code |-> "UNKNOWN", out |-> <<>>]
    BY <1>2 DEF ch_client_read_bytes, ReadFails, Returns, Goto
  <2> QED
    BY <1>1, <2>1, ReadErrorGood DEF BackLabels, ReadErrors
<1>3. CASE Genuine(buf, chain[at])
  <2>1. buf' = Stripped(buf, chain[at]) /\ buf'.packet = buf.packet
    BY <1>1, <1>3, StrippedMessage DEF ch_client_read_bytes, Goto, IInv
  <2>2. CASE at = Top
    <3>1. pc' = "read" /\ result' = [code |-> "OK", out |-> <<>>]
      BY <1>3, <2>2 DEF ch_client_read_bytes
    <3>2. ~owed'
      BY <1>1 DEF IInv, SlotOK, BackLabels
    <3> QED
      BY <1>1, <2>1, <3>1, <3>2, TakenGood DEF BackLabels
  <2>3. CASE at # Top
    <3>1. pc' = "verifyBack"
      BY <1>3, <2>3 DEF ch_client_read_bytes, Goto
    <3>2. Hand' = buf'
      BY <3>1 DEF Hand
    <3>3. Hand'.packet = Hand.packet
      BY <1>1, <2>1, <3>2
    <3>4. pc \in BackLabels /\ pc' \in BackLabels
      BY <1>1, <3>1 DEF BackLabels
    <3> QED
      BY <1>1, <3>3, <3>4, BackGood
  <2> QED
    BY <2>2, <2>3
<1> QED
  BY <1>2, <1>3

----------------------------------------------------------------------------
(* The channel with server. *)

\* The request becomes a response.
LEMMA ReplyGood ==
    ASSUME pc \in WriteLabels \cup {"reply"}, pc' = "reply", Hand'.packet \in Remote!Responses,
           UNCHANGED <<server, call, open, owed, slot>>
    PROVE  Good
<1>1. Running /\ Running' /\ Alive /\ Alive' /\ Unread' = Unread
  BY DEF Running, Alive, Returned, Unread, WriteLabels, BackLabels
<1>2. ResponseOK'
  BY <1>1, ResponsesStay DEF ResponseOK
<1> QED
  BY <1>1, <1>2, Stutters DEF Good

LEMMA BusyGood ==
    ASSUME IInv, cs_client_write_bytes, UNCHANGED <<open, calls, faults>>
    PROVE  Good
<1>1. pc = "serve" /\ slot # NoMessage /\ UNCHANGED <<server, slot, call, owed>>
  BY DEF cs_client_write_bytes, SlotFull
<1>2. owed
  BY <1>1 DEF IInv, SlotOK
<1>3. PICK c \in {"BUSY", "UNKNOWN"} : pc' = "wrote" /\ result' = [code |-> c, out |-> <<>>]
  BY DEF cs_client_write_bytes, WriteFails, Returns, Goto
<1> QED
  BY <1>1, <1>2, <1>3, WriteErrorGood DEF WriteLabels, WriteErrors

LEMMA ServerShutdownGood ==
    ASSUME IInv, server_shutdown, UNCHANGED <<open, calls, faults>>
    PROVE  Good
<1>1. /\ pc = "serve" /\ slot = NoMessage /\ server = "running" /\ server' = "freed"
      /\ buf.packet.type = "SHUTDOWN" /\ UNCHANGED <<slot, call, owed>>
  BY DEF server_shutdown, SlotFull
<1>2. PICK c \in {"CHANNEL_FAILED", "UNKNOWN"} : pc' = "wrote" /\ result' = [code |-> c, out |-> <<>>]
  BY DEF server_shutdown, WriteFails, Returns, Goto
<1>3. call.by = "channel" /\ call.request.type = "SHUTDOWN"
  <2>1. Hand = buf /\ buf.packet = call.request
    BY <1>1 DEF IInv, HandOK, WriteLabels, Hand
  <2> QED
    BY <1>1, <2>1 DEF IInv, CallerOK, WriteLabels
<1>4. ~owed
  BY <1>1 DEF IInv, SlotOK
<1>5. /\ Running /\ ~Running' /\ Alive /\ Alive' /\ Up /\ ~Up' /\ Unread = {} /\ Unread' = {}
      /\ LastCall = call /\ LastCall' = call /\ LastAnswer' = [code |-> c, out |-> <<>>]
  BY <1>1, <1>2, <1>3, <1>4 DEF Running, Alive, Up, Returned, Unread, BackLabels, LastCall,
     LastAnswer, ReturnedOut
<1>6. Remote!Shutdown
  BY <1>3, <1>5 DEF Remote!Shutdown, Remote!Return, WriteErrors
<1>7. ResponseOK'
  BY <1>1, <1>2, <1>3 DEF ResponseOK
<1> QED
  BY <1>6, <1>7 DEF Good, Remote!RemoteNext

\* The one run of a request.
LEMMA ProcessGood ==
    ASSUME IInv, server_process, UNCHANGED <<open, calls, faults>>
    PROVE  Good
<1>1. /\ pc = "serve" /\ slot = NoMessage /\ server = "running"
      /\ buf.packet.type # "SHUTDOWN" /\ UNCHANGED <<server, slot, owed>>
  BY DEF server_process, SlotFull
<1>2. PICK outcome \in DatabaseOutcomes(buf.packet.type) :
        /\ call' = [call EXCEPT !.executed = @ + 1, !.outcome = outcome]
        /\ pc' = "reply" /\ buf' = [packet |-> ResponseTo(buf.packet.type, outcome), digests |-> <<>>]
  BY DEF server_process, Goto
<1>3. buf.packet = call.request
  BY <1>1 DEF IInv, HandOK, WriteLabels, Hand
<1>4. ~owed /\ call.executed = 0 /\ call.by \in {"registry", "channel"}
  BY <1>1 DEF IInv, SlotOK, ExecutedOK, CallerOK, WriteLabels
<1>5. /\ call' = [call EXCEPT !.executed = 1, !.outcome = outcome]
      /\ call'.executed = 1 /\ call'.outcome = outcome /\ call'.request = call.request
  BY <1>2, <1>4 DEF IInv, TypeOK
<1>6. /\ Running /\ Running' /\ Alive /\ Alive' /\ Up /\ Up' /\ Unread = {} /\ Unread' = {}
      /\ LastCall = call /\ LastCall' = call' /\ LastAnswer = PendingAnswer /\ LastAnswer' = PendingAnswer
  BY <1>1, <1>2, <1>4 DEF Running, Alive, Up, Returned, Unread, BackLabels, LastCall, LastAnswer
<1>7. Remote!DatabaseOutcomes(call.request.type) = DatabaseOutcomes(call.request.type)
  BY DEF Remote!DatabaseOutcomes, DatabaseOutcomes, Remote!Found, Found, Remote!Setters, Setters,
         Remote!Getters, Getters, Remote!DatabaseErrors, DatabaseErrors
<1>8. Remote!Execute
  <2>1. UNCHANGED <<Alive, open, Up, Running, Unread, LastAnswer>>
    BY <1>1, <1>2, <1>6 DEF Alive, Up, Running, Returned
  <2>2. outcome \in Remote!DatabaseOutcomes(LastCall.request.type) /\ LastCall.request.type # "SHUTDOWN"
    BY <1>1, <1>3, <1>6, <1>7
  <2>3. LastCall' = [LastCall EXCEPT !.executed = 1, !.outcome = outcome]
    BY <1>5, <1>6
  <2> QED
    BY <1>4, <1>6, <2>1, <2>2, <2>3 DEF Remote!Execute
<1>9. ResponseOK'
  <2>1. Remote!Responses' = ({Remote!ErrorPacket(code) : code \in {"MEMORY", "UNKNOWN"}} \cup
            {Remote!ResponseTo(call.request.type, outcome)})
    BY <1>5, <1>6 DEF Remote!Responses
  <2>2. Remote!ResponseTo(call.request.type, outcome) = ResponseTo(call.request.type, outcome)
    BY DEF Remote!ResponseTo, ResponseTo, Remote!ErrorPacket, ErrorPacket, Remote!AnswerType, AnswerType,
           Remote!RequestTypes, RequestTypes, Remote!Setters, Setters, Remote!Getters, Getters
  <2>3. Hand'.packet = ResponseTo(call.request.type, outcome)
    BY <1>2, <1>3 DEF Hand
  <2> QED
    BY <2>1, <2>2, <2>3 DEF ResponseOK
<1> QED
  BY <1>8, <1>9 DEF Good, Remote!RemoteNext

LEMMA UseAfterShutdownGood ==
    ASSUME IInv, UseAfterShutdown, UNCHANGED <<open, calls, faults>>
    PROVE  Good
<1>1. pc = "serve" /\ server = "freed"
  BY DEF UseAfterShutdown
<1>2. CASE Abort
  BY <1>1, <1>2, CrashGood DEF Abort, Alive
<1>3. CASE WriteFails(0, "CHANNEL_FAILED") /\ UNCHANGED <<chain, server, slot, conn, call, owed>>
  <2>1. PICK c \in {"CHANNEL_FAILED", "UNKNOWN"} : pc' = "wrote" /\ result' = [code |-> c, out |-> <<>>]
    BY <1>3 DEF WriteFails, Returns, Goto
  <2> QED
    BY <1>1, <1>3, <2>1, WriteErrorGood DEF WriteLabels, WriteErrors
<1>4. CASE \E code \in DatabaseErrors :
            /\ Goto("reply", 0, [packet |-> ErrorPacket(code), digests |-> <<>>])
            /\ UNCHANGED <<chain, server, slot, conn, call, result, owed>>
  <2>1. PICK code \in DatabaseErrors :
            /\ pc' = "reply" /\ buf' = [packet |-> ErrorPacket(code), digests |-> <<>>]
            /\ UNCHANGED <<server, slot, call, owed>>
    BY <1>4 DEF Goto
  <2>2. Hand'.packet = ErrorPacket(code)
    BY <2>1 DEF Hand
  <2>3. ErrorPacket(code) \in Remote!Responses
    BY <1>1, ResponsesAre DEF Up
  <2> QED
    BY <1>1, <2>1, <2>2, <2>3, ReplyGood DEF WriteLabels
<1> QED
  BY <1>2, <1>3, <1>4 DEF UseAfterShutdown

LEMMA ErrorsOfServer ==
    ASSUME NEW code \in {"MEMORY", "UNKNOWN"}
    PROVE  ErrorPacket(code) \in Remote!Responses
  BY ResponsesAre DEF DatabaseErrors

LEMMA ServeFailsGood ==
    ASSUME IInv, ServeFails, UNCHANGED <<open, calls>>
    PROVE  Good
<1>1. pc = "serve" /\ UNCHANGED <<server, slot, call, owed>>
  BY DEF ServeFails
<1>2. CASE WriteFails(0, "CHANNEL_FAILED")
  <2>1. PICK c \in {"CHANNEL_FAILED", "UNKNOWN"} : pc' = "wrote" /\ result' = [code |-> c, out |-> <<>>]
    BY <1>2 DEF WriteFails, Returns, Goto
  <2> QED
    BY <1>1, <2>1, WriteErrorGood DEF WriteLabels, WriteErrors
<1>3. CASE \E code \in {"MEMORY", "UNKNOWN"} :
            Goto("reply", 0, [packet |-> ErrorPacket(code), digests |-> <<>>])
  <2>1. PICK code \in {"MEMORY", "UNKNOWN"} :
            pc' = "reply" /\ buf' = [packet |-> ErrorPacket(code), digests |-> <<>>]
    BY <1>3 DEF Goto
  <2>2. Hand'.packet = ErrorPacket(code)
    BY <2>1 DEF Hand
  <2> QED
    BY <1>1, <2>1, <2>2, ErrorsOfServer, ReplyGood DEF WriteLabels
<1> QED
  BY <1>2, <1>3 DEF ServeFails

LEMMA ReplyFailsGood ==
    ASSUME IInv, ReplyFails, UNCHANGED <<open, calls>>
    PROVE  Good
<1>1. pc = "reply"
  BY DEF ReplyFails
<1>2. CASE Abort
  BY <1>1, <1>2, CrashGood DEF Abort, Alive
<1>3. CASE /\ Goto("reply", 0, [packet |-> ErrorPacket("UNKNOWN"), digests |-> <<>>])
           /\ UNCHANGED <<chain, server, slot, conn, call, result, owed>>
  <2>1. pc' = "reply" /\ Hand'.packet = ErrorPacket("UNKNOWN")
    BY <1>3 DEF Goto, Hand
  <2> QED
    BY <1>1, <1>3, <2>1, ErrorsOfServer, ReplyGood
<1>4. CASE /\ WriteFails(0, "CHANNEL_FAILED") \/ WriteFails(0, "MEMORY")
           /\ UNCHANGED <<chain, server, slot, conn, call, owed>>
  <2>1. PICK c \in {"CHANNEL_FAILED", "MEMORY", "UNKNOWN"} :
            pc' = "wrote" /\ result' = [code |-> c, out |-> <<>>]
    BY <1>4 DEF WriteFails, Returns, Goto
  <2> QED
    BY <1>1, <1>4, <2>1, WriteErrorGood DEF WriteErrors
<1> QED
  BY <1>2, <1>3, <1>4 DEF ReplyFails

\* The response is there: a registry call goes on, a direct write returns.
LEMMA ServerWriteGood ==
    ASSUME IInv, ResponseOK, cs_server_write_bytes, UNCHANGED <<open, calls, faults>>
    PROVE  Good
<1>1. /\ pc = "reply" /\ pc' = "wrote" /\ slot = NoMessage /\ slot' = buf
      /\ owed' = (call.by = "channel") /\ result' = [code |-> "OK", out |-> <<>>]
      /\ UNCHANGED <<server, call>>
  BY DEF cs_server_write_bytes, SlotFull, Returns, Goto
<1>2. ~owed /\ call.by \in {"registry", "channel"}
  BY <1>1 DEF IInv, SlotOK, CallerOK
<1>3. Hand = buf /\ Hand' = slot' /\ buf.packet \in Remote!Responses
  BY <1>1 DEF Hand, ResponseOK
<1>4. Running /\ Alive /\ Alive' /\ Unread = {} /\ LastCall = call /\ LastCall' = LastCall
  BY <1>1, <1>2 DEF Running, Alive, Returned, Unread, BackLabels, LastCall
<1>5. ResponseOK'
  BY <1>1, <1>3, <1>4, ResponsesStay DEF ResponseOK
<1>6. CASE call.by = "registry"
  <2>1. Running' /\ Unread' = {}
    BY <1>1, <1>6 DEF Running, Alive, Returned, Unread, BackLabels
  <2> QED
    BY <1>1, <1>4, <1>5, <2>1, Stutters DEF Good
<1>7. CASE call.by = "channel"
  <2>1. ~Running' /\ Unread' = {buf.packet} /\ LastAnswer' = [code |-> "OK", out |-> <<>>]
    BY <1>1, <1>7 DEF Running, Alive, Returned, Unread, LastAnswer, ReturnedOut
  <2>2. Remote!WriteReturns
    BY <1>1, <1>3, <1>4, <1>7, <2>1 DEF Remote!WriteReturns, Remote!Return, Up
  <2> QED
    BY <1>5, <2>2 DEF Good, Remote!RemoteNext
<1> QED
  BY <1>2, <1>6, <1>7

LEMMA TakeGood ==
    ASSUME IInv, ResponseOK, cs_client_read_bytes, UNCHANGED <<open, calls, faults>>
    PROVE  Good
<1>1. pc = "take" /\ Hand = slot /\ UNCHANGED <<server, call>> /\ call.by \in {"registry", "reader"}
      /\ conn.client_bytes = NoMessage
  BY DEF cs_client_read_bytes, Hand, IInv, CallerOK, ConnectorOK
<1>2. Running /\ Alive /\ LastCall = call
  BY <1>1 DEF Running, Alive, Returned, LastCall
<1>3. slot # NoMessage <=> owed \/ call.by = "registry"
  BY <1>1 DEF IInv, SlotOK
<1>4. CASE slot = NoMessage
  <2>1. /\ pc' = "read" /\ result' = [code |-> "BUSY", out |-> <<>>] /\ UNCHANGED <<slot, owed>>
    BY <1>4 DEF cs_client_read_bytes, ReadFails, Returns, Goto
  <2>2. call.by = "reader" /\ ~owed
    BY <1>1, <1>3, <1>4
  <2>3. /\ ~Running' /\ Alive' /\ Unread = {} /\ Unread' = {} /\ LastCall' = call
        /\ LastAnswer' = [code |-> "BUSY", out |-> <<>>]
    BY <1>1, <2>1, <2>2 DEF Running, Alive, Returned, Unread, BackLabels, LastCall, LastAnswer, ReturnedOut
  <2>4. Remote!ReadReturns
    BY <1>1, <1>2, <2>2, <2>3 DEF Remote!ReadReturns, Remote!Return, Up
  <2>5. ResponseOK'
    BY <1>1, <2>1, <2>2 DEF ResponseOK
  <2> QED
    BY <2>4, <2>5 DEF Good, Remote!RemoteNext
<1>5. CASE slot # NoMessage /\ Top = 0
  <2>1. /\ pc' = "read" /\ buf' = slot /\ result' = [code |-> "OK", out |-> <<>>] /\ ~owed'
    BY <1>1, <1>5 DEF cs_client_read_bytes
  <2> QED
    BY <1>1, <1>5, <2>1, TakenGood
<1>6. CASE slot # NoMessage /\ Top # 0
  <2>1. /\ pc' = "signBack" /\ buf' = slot /\ ~owed'
    BY <1>1, <1>6 DEF cs_client_read_bytes, Goto
  <2>2. Hand' = slot /\ Running' /\ Alive'
    BY <2>1 DEF Hand, Running, Alive, Returned
  <2>3. Unread' = Unread
    BY <1>1, <1>2, <1>3, <1>6, <2>1, <2>2 DEF Unread, BackLabels, IInv, SlotOK
  <2>4. ResponseOK'
    BY <1>1, <1>2, <2>1, <2>2, ResponsesStay DEF ResponseOK, Answered
  <2> QED
    BY <1>1, <1>2, <2>2, <2>3, <2>4, Stutters DEF Good
<1> QED
  BY <1>4, <1>5, <1>6

----------------------------------------------------------------------------
(* Opening, closing and the calls. *)

LEMMA IdleFacts ==
    ASSUME pc = "idle"
    PROVE  /\ Alive /\ ~Running /\ LastCall = call
           /\ Unread = IF owed THEN {slot.packet} ELSE {}
  BY DEF Alive, Running, Returned, LastCall, Unread, BackLabels

LEMMA IdleFactsNext ==
    ASSUME pc' = "idle"
    PROVE  /\ Alive' /\ ~Running' /\ LastCall' = call'
           /\ Unread' = (IF owed' THEN {slot'.packet} ELSE {})
           /\ LastAnswer' = [code |-> result'.code, out |-> result'.out]
           /\ ResponseOK'
  BY DEF Alive, Running, Returned, LastCall, Unread, BackLabels, LastAnswer, ReturnedOut,
         ResponseOK, Answered

LEMMA OpenGood ==
    ASSUME IInv, registry_open, NoFault
    PROVE  Good
<1>1. PICK id \in Identifiers, database \in {"OK", "DATABASE_OPEN", "DATABASE_INVALID", "MEMORY", "UNKNOWN"} :
        LET code == OpenCode(id, database) IN
        /\ Finish(code, <<>>)
        /\ IF code = "OK"
           THEN /\ open' = TRUE /\ server' = "running"
                /\ chain' = [i \in 1 .. Len(id.parts) - 1 |-> id.parts[i + 1].arg]
                /\ UNCHANGED <<slot, conn, owed>>
           ELSE UNCHANGED <<open, server, chain, slot, conn, owed>>
  BY DEF registry_open
<1> DEFINE code == OpenCode(id, database)
<1>2. code \in OpenErrors \cup {"OK"}
  BY DEF OpenCode, OpenErrors
<1> HIDE DEF code
<1>3. /\ pc = "idle" /\ ~open /\ call' = CallBy("none", NoRequest)
      /\ pc' = "idle" /\ result' = [code |-> code, out |-> <<>>] /\ UNCHANGED <<slot, owed>>
      /\ IF code = "OK" THEN open' = TRUE /\ server' = "running" ELSE UNCHANGED <<open, server>>
  BY <1>1 DEF registry_open, Begin, Finish, Returns, Goto, code
<1>4. /\ Alive /\ Alive' /\ ~Running /\ ~Running' /\ LastCall' = CallBy("none", NoRequest)
      /\ Unread' = Unread /\ LastAnswer' = [code |-> code, out |-> <<>>] /\ ResponseOK'
  BY <1>3, IdleFacts, IdleFactsNext
<1>5. Remote!Open
  BY <1>2, <1>3, <1>4 DEF Remote!Open, Remote!Idle, Remote!Return, Remote!NoCall, Remote!CallBy, CallBy, Up
<1> QED
  BY <1>4, <1>5 DEF Good, Remote!RemoteNext

LEMMA CloseGood ==
    ASSUME IInv, registry_close, NoFault
    PROVE  Good
<1>1. /\ pc = "idle" /\ open /\ call' = CallBy("none", NoRequest)
      /\ pc' = "idle" /\ result' = [code |-> "OK", out |-> <<>>]
      /\ open' = FALSE /\ server' = "none" /\ owed' = FALSE
  BY DEF registry_close, Begin, Finish, Returns, Goto, Closed
<1>2. /\ Alive /\ Alive' /\ ~Running /\ ~Running' /\ LastCall' = CallBy("none", NoRequest) /\ ~Up'
      /\ Unread' = {} /\ LastAnswer' = [code |-> "OK", out |-> <<>>] /\ ResponseOK'
  BY <1>1, IdleFacts, IdleFactsNext DEF Up
<1>3. Remote!Close
  <2>1. Up' = FALSE /\ Alive' = Alive /\ Running' = FALSE
    BY <1>1 DEF Up, Alive, Running, Returned
  <2> QED
    BY <1>1, <1>2, <2>1 DEF Remote!Close, Remote!Idle, Remote!Return, Remote!NoCall, Remote!CallBy, CallBy
<1> QED
  BY <1>2, <1>3 DEF Good, Remote!RemoteNext

\* A call begins with a write, or a reader with its read.
LEMMA BeginGood ==
    ASSUME pc = "idle", open,
           NEW by \in {"registry", "channel"}, NEW request \in Remote!Requests,
           by = "registry" => request.type # "SHUTDOWN",
           call' = CallBy(by, request), pc' \in {"serve", "sign"},
           UNCHANGED <<server, slot, owed, open>>
    PROVE  Good
<1>1. Alive /\ ~Running /\ LastCall = call /\ Unread = IF owed THEN {slot.packet} ELSE {}
  BY IdleFacts
<1>2. /\ Alive' = Alive /\ Up' = Up /\ Running' = TRUE /\ LastCall' = call' /\ Unread' = Unread
      /\ LastAnswer' = PendingAnswer
  BY <1>1 DEF Alive, Up, Running, Returned, LastCall, LastAnswer, Unread, BackLabels
<1>3. Remote!Begin(by, request)
  BY <1>1, <1>2 DEF Remote!Begin, Remote!Idle, Remote!CallBy, CallBy
<1>4. Remote!BeginSome
  BY <1>3 DEF Remote!BeginSome
<1>5. ResponseOK'
  BY DEF ResponseOK, Answered, BackLabels
<1> QED
  BY <1>4, <1>5 DEF Good, Remote!RemoteNext

LEMMA RequestsAre ==
    Remote!Requests = [type : RequestTypes, fields : {<<>>} \cup {<<v>> : v \in Values}]
  BY DEF Remote!Requests, Remote!RequestTypes, RequestTypes, Remote!Setters, Setters, Remote!Getters, Getters

LEMMA InvokeGood ==
    ASSUME IInv, NEW type \in RequestTypes \ {"SHUTDOWN"},
           NEW arguments \in {NoArgument, OneArgument}, Invoke(type, arguments), NoFault
    PROVE  Good
<1>1. PICK fields \in arguments :
        /\ Begin("registry", [type |-> type, fields |-> fields])
        /\ Send([type |-> type, fields |-> fields])
  BY DEF Invoke
<1> DEFINE request == [type |-> type, fields |-> fields]
<1>2. request \in Remote!Requests /\ request.type # "SHUTDOWN"
  BY RequestsAre DEF NoArgument, OneArgument
<1>3. /\ pc = "idle" /\ open /\ call' = CallBy("registry", request) /\ pc' \in {"serve", "sign"}
      /\ UNCHANGED <<server, slot, owed, open>>
  BY <1>1 DEF Invoke, Begin, Send, Goto
<1> HIDE DEF request
<1> QED
  BY <1>2, <1>3, BeginGood

LEMMA RegistryCallGood ==
    ASSUME IInv, RegistryCall, NoFault
    PROVE  Good
<1>1. PICK type \in RequestTypes \ {"SHUTDOWN"}, arguments \in {NoArgument, OneArgument} :
        Invoke(type, arguments)
  BY DEF RegistryCall, registry_get_int64, registry_set_int64, registry_get_double, registry_set_double,
         registry_get_string, registry_set_string, registry_get_blob, registry_set_blob,
         registry_enum_keys, registry_key_get_value_type, RequestTypes, Getters, Setters
<1> QED
  BY <1>1, InvokeGood

LEMMA DirectWriteGood ==
    ASSUME IInv, DirectWrite, NoFault
    PROVE  Good
<1>1. PICK type \in RequestTypes, fields \in NoArgument \cup OneArgument :
        /\ Begin("channel", [type |-> type, fields |-> fields])
        /\ Send([type |-> type, fields |-> fields])
  BY DEF DirectWrite
<1> DEFINE request == [type |-> type, fields |-> fields]
<1>2. request \in Remote!Requests
  BY RequestsAre DEF NoArgument, OneArgument
<1>3. /\ pc = "idle" /\ open /\ call' = CallBy("channel", request) /\ pc' \in {"serve", "sign"}
      /\ UNCHANGED <<server, slot, owed, open>>
  BY <1>1 DEF DirectWrite, Begin, Send, Goto
<1> HIDE DEF request
<1> QED
  BY <1>2, <1>3, BeginGood

LEMMA DirectReadGood ==
    ASSUME IInv, DirectRead, NoFault
    PROVE  Good
<1>1. /\ pc = "idle" /\ open /\ call' = CallBy("reader", NoRequest) /\ pc' = "take"
      /\ UNCHANGED <<server, slot, owed, open>>
  BY DEF DirectRead, Begin, Receive, Goto
<1>2. Alive /\ ~Running /\ LastCall = call /\ Unread = IF owed THEN {slot.packet} ELSE {}
  BY <1>1, IdleFacts
<1>3. /\ Alive' = Alive /\ Up' = Up /\ Running' = TRUE /\ LastCall' = call' /\ Unread' = Unread
      /\ LastAnswer' = PendingAnswer
  BY <1>1, <1>2 DEF Alive, Up, Running, Returned, LastCall, LastAnswer, Unread, BackLabels
<1>4. Remote!Begin("reader", NoRequest)
  BY <1>1, <1>2, <1>3 DEF Remote!Begin, Remote!Idle, Remote!CallBy, CallBy
<1>5. ResponseOK'
  BY <1>1 DEF ResponseOK, CallBy
<1> QED
  BY <1>4, <1>5 DEF Good, Remote!RemoteNext, Remote!BeginSome

LEMMA OpenFailsGood ==
    ASSUME IInv, OpenFails
    PROVE  Good
<1>1. CASE pc = "idle" /\ Abort /\ UNCHANGED open
  BY <1>1, CrashGood DEF Abort, Alive
<1>2. CASE Begin("none", NoRequest) /\ Finish("MEMORY", <<>>) /\ UNCHANGED <<chain, server, slot, conn, owed, open>>
  <2>1. /\ pc = "idle" /\ ~open /\ call' = CallBy("none", NoRequest) /\ pc' = "idle"
        /\ result' = [code |-> "MEMORY", out |-> <<>>] /\ UNCHANGED <<server, slot, owed, open>>
    BY <1>2 DEF OpenFails, Begin, Finish, Returns, Goto
  <2>2. /\ Alive /\ Alive' /\ ~Running /\ ~Running' /\ LastCall' = CallBy("none", NoRequest)
        /\ Unread' = Unread /\ LastAnswer' = [code |-> "MEMORY", out |-> <<>>] /\ ResponseOK'
    BY <2>1, IdleFacts, IdleFactsNext
  <2>3. Remote!Open
    BY <2>1, <2>2 DEF Remote!Open, Remote!Idle, Remote!Return, Remote!NoCall, Remote!CallBy, CallBy, Up,
       OpenErrors
  <2> QED
    BY <2>2, <2>3 DEF Good, Remote!RemoteNext
<1> QED
  BY <1>1, <1>2 DEF OpenFails

LEMMA PackFailsGood ==
    ASSUME IInv, PackFails
    PROVE  Good
<1>1. CASE pc = "idle" /\ Abort /\ UNCHANGED open
  BY <1>1, CrashGood DEF Abort, Alive
<1>2. CASE /\ \E type \in RequestTypes \ {"SHUTDOWN"} : Begin("registry", [type |-> type, fields |-> <<>>])
           /\ Finish("UNKNOWN", <<>>) /\ UNCHANGED <<chain, server, slot, conn, owed, open>>
  <2>1. PICK type \in RequestTypes \ {"SHUTDOWN"} : Begin("registry", [type |-> type, fields |-> <<>>])
    BY <1>2
  <2> DEFINE request == [type |-> type, fields |-> <<>>]
  <2>2. /\ pc = "idle" /\ open /\ call' = CallBy("registry", request) /\ pc' = "idle"
        /\ result' = [code |-> "UNKNOWN", out |-> <<>>] /\ UNCHANGED <<server, slot, owed, open>>
    BY <1>2, <2>1 DEF PackFails, Begin, Finish, Returns, Goto
  <2>3. request \in Remote!Requests /\ request.type # "SHUTDOWN"
    BY RequestsAre
  <2> HIDE DEF request
  <2>4. /\ Alive /\ Alive' /\ ~Running /\ ~Running' /\ LastCall' = CallBy("registry", request)
        /\ Unread' = Unread /\ LastAnswer' = [code |-> "UNKNOWN", out |-> <<>>] /\ ResponseOK'
    BY <2>2, IdleFacts, IdleFactsNext
  <2>5. Remote!Begin("registry", request)
    BY <2>2, <2>4 DEF Remote!Begin, Remote!Idle, Remote!Return, Remote!CallBy, CallBy, Up
  <2> QED
    BY <2>3, <2>4, <2>5 DEF Good, Remote!RemoteNext, Remote!BeginSome
<1> QED
  BY <1>1, <1>2 DEF PackFails

LEMMA WrittenGood ==
    ASSUME IInv, ResponseOK, Written, NoFault
    PROVE  Good
<1>1. pc = "wrote" /\ call.by = "registry" /\ UNCHANGED <<server, slot, call, owed, open>>
  BY DEF Written
<1>2. Running /\ Alive
  BY <1>1 DEF Running, Alive, Returned
<1>3. CASE result.code = "BUSY"
  <2>1. pc' \in {"serve", "sign"}
    BY <1>3 DEF Written, Send, Goto
  <2>2. Running' /\ Unread' = Unread /\ ResponseOK'
    BY <1>1, <1>2, <2>1 DEF Running, Alive, Returned, Unread, BackLabels, ResponseOK, Answered
  <2> QED
    BY <1>1, <1>2, <2>2, Stutters DEF Good
<1>4. CASE result.code = "OK"
  <2>1. pc' = "take"
    BY <1>4 DEF Written, Receive, Goto
  <2>2. Running' /\ Alive' /\ Unread' = Unread /\ Hand' = Hand
    BY <1>1, <1>2, <2>1 DEF Running, Alive, Returned, Unread, BackLabels, Hand
  <2>3. ResponseOK'
    BY <1>1, <1>2, <1>4, <2>1, <2>2, ResponsesStay DEF ResponseOK, Answered
  <2> QED
    BY <1>1, <1>2, <2>2, <2>3, Stutters DEF Good
<1>5. CASE result.code \notin {"BUSY", "OK"}
  <2>1. pc' = "idle" /\ result' = [code |-> "UNKNOWN", out |-> <<>>]
    BY <1>5 DEF Written, Finish, Returns, Goto
  <2> QED
    BY <1>1, <1>2, <2>1, GiveUpGood
<1> QED
  BY <1>3, <1>4, <1>5

LEMMA ReadDoneGood ==
    ASSUME IInv, ResponseOK, ReadDone, NoFault
    PROVE  Good
<1>1. pc = "read" /\ call.by = "registry" /\ UNCHANGED <<server, slot, call, owed, open>>
  BY DEF ReadDone
<1>2. Running /\ Alive
  BY <1>1 DEF Running, Alive, Returned
<1>3. result.code # "BUSY"
  BY <1>1 DEF IInv, CallerOK
<1>4. CASE result.code = "OK"
  <2>1. pc' = "unpack" /\ buf' = buf
    BY <1>4 DEF ReadDone
  <2>2. Running' /\ Alive' /\ Unread' = Unread /\ Hand' = Hand
    BY <1>1, <1>2, <2>1 DEF Running, Alive, Returned, Unread, BackLabels, Hand
  <2>3. ResponseOK'
    BY <1>1, <1>2, <1>4, <2>1, <2>2, ResponsesStay DEF ResponseOK, Answered
  <2> QED
    BY <1>1, <1>2, <2>2, <2>3, Stutters DEF Good
<1>5. CASE result.code # "OK"
  <2>1. pc' = "idle" /\ result' = [code |-> "UNKNOWN", out |-> <<>>]
    BY <1>3, <1>5 DEF ReadDone, Finish, Returns, Goto
  <2> QED
    BY <1>1, <1>2, <2>1, GiveUpGood
<1> QED
  BY <1>4, <1>5

\* The response unpacked is that of the call's own run, or an error of the server's.
LEMMA UnpackGood ==
    ASSUME IInv, ResponseOK, Unpack, NoFault
    PROVE  Good
<1> DEFINE type == call.request.type
           response == buf.packet
<1>1. pc = "unpack" /\ call.by = "registry" /\ UNCHANGED <<server, slot, call, owed, open>>
  BY DEF Unpack, IInv, CallerOK
<1>2. Running /\ Alive /\ LastCall = call
  BY <1>1 DEF Running, Alive, Returned, LastCall
<1>3. response \in Remote!Responses
  BY <1>1 DEF ResponseOK, Answered, Hand
<1>4. pc' = "idle"
  BY DEF Unpack, Finish, Returns, Goto
<1>5. /\ Alive' = Alive /\ Up' = Up /\ Running' = FALSE /\ LastCall' = LastCall /\ Unread' = Unread
      /\ LastAnswer' = [code |-> result'.code, out |-> result'.out] /\ ResponseOK'
  <2>1. Alive' = Alive /\ Up' = Up /\ Running' = FALSE
    BY <1>1, <1>4 DEF Alive, Up, Running, Returned
  <2>2. LastCall' = LastCall /\ Unread' = Unread
    BY <1>1, <1>4 DEF LastCall, Unread, Alive, BackLabels
  <2> QED
    BY <1>4, <2>1, <2>2, IdleFactsNext
<1>6. CASE \E code \in IF Up THEN {"MEMORY", "UNKNOWN"} ELSE DatabaseErrors : response = ErrorPacket(code)
  <2>1. PICK code \in IF Up THEN {"MEMORY", "UNKNOWN"} ELSE DatabaseErrors : response = ErrorPacket(code)
    BY <1>6
  <2>2. result' = [code |-> ErrorCode(type, code), out |-> <<>>] /\ code \in DatabaseErrors
    BY <2>1 DEF Unpack, Finish, Returns, ErrorPacket, DatabaseErrors
  <2>3. CASE Up
    <3>1. ErrorCode(type, code) = "UNKNOWN"
      BY <2>1, <2>3 DEF ErrorCode
    <3> QED
      BY <1>1, <1>2, <1>4, <2>2, <3>1, GiveUpGood
  <2>4. CASE ~Up
    <3>1. code # "OK"
      BY <2>2 DEF DatabaseErrors
    <3>2. ReportOf(type, Remote!Says(code)) = [code |-> ErrorCode(type, code), out |-> <<>>]
      BY <3>1 DEF ReportOf, Remote!Says
    <3>3. code \in Remote!DatabaseErrors
      BY <2>2 DEF Remote!DatabaseErrors, DatabaseErrors
    <3>4. Remote!GiveUp
      BY <1>1, <1>2, <1>5, <2>2, <2>4, <3>2, <3>3 DEF Remote!GiveUp, Remote!Return
    <3> QED
      BY <1>5, <3>4 DEF Good, Remote!RemoteNext
  <2> QED
    BY <2>3, <2>4
<1>7. CASE call.executed = 1 /\ response = ResponseTo(type, call.outcome)
  <2> DEFINE outcome == call.outcome
  <2>1. outcome \in Outcome /\ type \in RequestTypes
    BY DEF IInv, TypeOK, Request
  <2>2. outcome = [code |-> outcome.code, out |-> outcome.out]
    BY <2>1 DEF Outcome
  <2>3. CASE result' = [code |-> "UNKNOWN", out |-> <<>>]
    BY <1>1, <1>2, <1>4, <2>3, GiveUpGood
  <2>4. CASE result' # [code |-> "UNKNOWN", out |-> <<>>]
    <3>1. LastAnswer' = [code |-> ReportOf(type, outcome).code, out |-> ReportOf(type, outcome).out]
      <4>1. CASE outcome.code = "OK"
        <5>1. response = [type |-> AnswerType[type], fields |-> outcome.out]
          BY <1>7, <4>1 DEF ResponseTo
        <5>2. AnswerType[type] # "ERROR"
          BY <2>1 DEF AnswerType, RequestTypes, Getters, Setters
        <5>3. result' = [code |-> "OK", out |-> outcome.out]
          BY <2>4, <5>1, <5>2 DEF Unpack, Finish, Returns
        <5> QED
          BY <1>5, <4>1, <5>3 DEF ReportOf
      <4>2. CASE outcome.code # "OK"
        <5>1. response = [type |-> "ERROR", fields |-> <<outcome.code>>]
          BY <1>7, <4>2 DEF ResponseTo, ErrorPacket
        <5>2. result' = [code |-> ErrorCode(type, outcome.code), out |-> <<>>]
          BY <5>1 DEF Unpack, Finish, Returns
        <5> QED
          BY <1>5, <4>2, <5>2 DEF ReportOf
      <4> QED
        BY <4>1, <4>2
    <3>2. Remote!Answer
      BY <1>1, <1>2, <1>5, <1>7, <3>1 DEF Remote!Answer, Remote!Return
    <3> QED
      BY <1>5, <3>2 DEF Good, Remote!RemoteNext
  <2> QED
    BY <2>3, <2>4
<1> QED
  BY <1>2, <1>3, <1>6, <1>7, ResponsesAre

LEMMA UnpackFailsGood ==
    ASSUME IInv, UnpackFails
    PROVE  Good
<1>1. CASE pc = "unpack" /\ Abort /\ UNCHANGED <<open, calls>>
  BY <1>1, CrashGood DEF Abort, Alive
<1>2. CASE pc = "unpack" /\ Finish("UNKNOWN", <<>>) /\ UNCHANGED <<chain, server, slot, conn, call, owed, open, calls>>
  <2>1. pc' = "idle" /\ result' = [code |-> "UNKNOWN", out |-> <<>>]
    BY <1>2 DEF Finish, Returns, Goto
  <2>2. call.by = "registry" /\ Running
    BY <1>2 DEF IInv, CallerOK, Running, Alive, Returned
  <2> QED
    BY <1>2, <2>1, <2>2, GiveUpGood
<1> QED
  BY <1>1, <1>2 DEF UnpackFails

\* What the channel returned is already the answer.
LEMMA DirectReturnGood ==
    ASSUME IInv, DirectReturn, NoFault
    PROVE  Good
<1>1. /\ pc \in {"wrote", "read"} /\ call.by \in {"channel", "reader"} /\ pc' = "idle"
      /\ UNCHANGED <<server, slot, call, owed, open>>
      /\ result'.code = result.code
      /\ result'.out = IF pc = "read" /\ result.code = "OK" THEN buf.packet.fields ELSE <<>>
  BY DEF DirectReturn, Finish, Returns, Goto
<1>2. LastAnswer' = LastAnswer
  BY <1>1 DEF LastAnswer, Returned, ReturnedOut
<1>3. Alive' = Alive /\ Up' = Up /\ Running' = Running
  BY <1>1 DEF Alive, Up, Running, Returned
<1>4. LastCall' = LastCall /\ Unread' = Unread
  BY <1>1 DEF LastCall, Unread, Alive, BackLabels
<1>5. ResponseOK'
  BY <1>1, IdleFactsNext
<1> QED
  BY <1>1, <1>2, <1>3, <1>4, <1>5 DEF Good, Remote!remoteVars

LEMMA StutterGood ==
    ASSUME ResponseOK, UNCHANGED vars
    PROVE  Good
<1>1. /\ Alive' = Alive /\ Up' = Up /\ Running' = Running /\ LastCall' = LastCall
      /\ Unread' = Unread /\ LastAnswer' = LastAnswer
  BY DEF vars, channelVars, Alive, Up, Running, Returned, LastCall, Unread, Hand, LastAnswer, ReturnedOut
<1>2. Remote!Responses' = Remote!Responses
  BY <1>1 DEF Remote!Responses
<1>3. ResponseOK'
  BY <1>2 DEF vars, channelVars, ResponseOK, Hand, Answered
<1> QED
  BY <1>1, <1>3 DEF Good, Remote!remoteVars, vars

----------------------------------------------------------------------------
LEMMA StepGood ==
    ASSUME IInv, ResponseOK, [Next]_vars
    PROVE  Good
<1>1. CASE Start /\ NoFault
  <2>1. CASE CloseAfterShutdown
    BY <2>1, CrashGood DEF CloseAfterShutdown, Abort, Alive
  <2> QED
    BY <1>1, <2>1, OpenGood, CloseGood, RegistryCallGood, DirectWriteGood, DirectReadGood DEF Start
<1>2. CASE Run /\ NoFault
  <2>1. CASE ChannelStep /\ UNCHANGED <<open, calls>>
    BY <1>2, <2>1, SignGood, ServerReadGood, ClientReadGood, ConnectorGood, BusyGood, ProcessGood,
       ServerShutdownGood, UseAfterShutdownGood, ServerWriteGood, TakeGood DEF ChannelStep, NoFault
  <2> QED
    BY <1>2, <2>1, WrittenGood, ReadDoneGood, UnpackGood, DirectReturnGood DEF Run
<1>3. CASE Failure /\ Fault
  <2>1. CASE ChannelFault /\ UNCHANGED <<open, calls>>
    BY <2>1, SignFailsGood, VerifyFailsGood, ConnectorFailsGood, ServeFailsGood, ReplyFailsGood DEF ChannelFault
  <2> QED
    BY <1>3, <2>1, OpenFailsGood, PackFailsGood, UnpackFailsGood DEF Failure
<1>4. CASE UNCHANGED vars
  BY <1>4, StutterGood
<1> QED
  BY <1>1, <1>2, <1>3, <1>4 DEF Next, Finished

\* Whatever fails in the chain, a response on its way is that of the running call's one run
\* or an error packet of the server itself (server.c:243-262).
THEOREM ResponseBelongs == Spec => [](IInv /\ ResponseOK)
<1>1. Spec => []IInv
  BY RegistryInvariant
<1>2. Init => ResponseOK
  BY InitResponse
<1>3. IInv /\ ResponseOK /\ [Next]_vars => ResponseOK'
  BY StepGood DEF Good
<1> QED
  BY <1>1, <1>2, <1>3, PTL DEF Spec

\* For any chain of stages the library is, to its caller, one remote call after the other:
\* ImplementsRemoteCall (registry.c:289-330, channel-with-server.c:44-76).
THEOREM RegistryImplementsRemoteCall == Spec => ImplementsRemoteCall
<1>1. Init => Remote!RemoteInit
  BY InitMaps
<1>2. IInv /\ ResponseOK /\ [Next]_vars => [Remote!RemoteNext]_(Remote!remoteVars)
  BY StepGood DEF Good
<1>3. Spec => [](IInv /\ ResponseOK)
  BY ResponseBelongs
<1> QED
  BY <1>1, <1>2, <1>3, PTL DEF Spec, ImplementsRemoteCall, Remote!RemoteSpec
=============================================================================
