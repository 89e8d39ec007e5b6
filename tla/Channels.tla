------------------------------ MODULE Channels ------------------------------
(***************************************************************************)
(* The channels between the registry client and the server, as             *)
(* registry_open links them: S, the channel with server, alone; or, if the *)
(* identifier names hmac stages, these stages (number Len(chain) on top)   *)
(* over C, the endpoint connector, over S.  C sends what the stages wrote  *)
(* back up the same stages, now in their server role, before S sees it.    *)
(*                                                                         *)
(* All of it runs in the caller's thread.  A call is a sequence of steps   *)
(* down and up the chain, cut where a step can fail: `pc` names the next   *)
(* one, `at` the stage whose turn it is, `buf` the message in its hands.   *)
(***************************************************************************)
EXTENDS Server

CONSTANTS
    HmacKeys,     \* the keys of hmac stages
    NoKey,        \* a stage without a key passes everything on
    NoMessage,    \* a NULL pointer where a message could be
    MaxFaults     \* bound: allocations that fail in a behaviour

VARIABLES
    chain,     \* keys of the hmac stages: chain[1] is C's parent, chain[Len(chain)] on top
    server,    \* S's server_t: "none", "running", or "freed" by a shutdown packet
    slot,      \* S's client_data: the response nobody has read yet
    conn,      \* C's server_bytes and client_bytes
    pc, at, buf,
    call,      \* who called, the request, and what the database did for it
    result,    \* the code the topmost channel or the registry returned, and its data
    owed,      \* history: the response in the slot belongs to a finished direct write
    faults

channelVars == <<chain, server, slot, conn, pc, at, buf, call, result, owed, faults>>

Stages == HmacKeys \cup {NoKey}
Message == [packet : Request \cup Response, digests : Seq(Stages)]
Slot == Message \cup {NoMessage}
Top == Len(chain)

----------------------------------------------------------------------------
(* How a write or a read ends. *)

Fault == faults < MaxFaults /\ faults' = faults + 1
NoFault == UNCHANGED faults

\* Undefined behaviour after a double or an uninitialised free ended the process.
Abort == pc' = "aborted" /\ UNCHANGED <<chain, server, slot, conn, at, buf, call, result, owed>>

Goto(label, stage, message) == pc' = label /\ at' = stage /\ buf' = message

Returns(label, code, out) ==
    /\ Goto(label, 0, NoMessage)
    /\ result' = [code |-> code, out |-> out]

\* Mutant: a stage returns its child's code, BUSY included.
WriteFailsUnchanged(stage, code) == Returns("wrote", code, <<>>)

\* A write that failed in `stage` (0 for C and S): every stage above it turns
\* whatever its child returned, BUSY included, into UNKNOWN.
WriteFails(stage, code) == Returns("wrote", IF stage < Top THEN "UNKNOWN" ELSE code, <<>>)

\* A read passes its child's code through; but what the stages wrote to C on the
\* way back failed as a write.
ReadFails(code) == Returns("read", code, <<>>)
WriteBackFails(stage, code) == ReadFails(IF stage < Top THEN "UNKNOWN" ELSE code)

----------------------------------------------------------------------------
(* The hmac stages.  A digest is told by the key it was made with: nothing *)
(* between two stages changes a message.  A stage without a key appends a  *)
(* digest of no bytes.                                                     *)

\* Mutant: the digest goes in front.
SignedInFront(m, key) == [m EXCEPT !.digests = <<key>> \o @]

Signed(m, key) == [m EXCEPT !.digests = Append(@, key)]
LastDigest(m) == m.digests[Len(m.digests)]
Genuine(m, key) == key = NoKey \/ (m.digests # <<>> /\ LastDigest(m) = key)

\* `digest_size` bytes are cut off: none without a key.
Stripped(m, key) ==
    IF m.digests # <<>> /\ LastDigest(m) = key
    THEN [m EXCEPT !.digests = SubSeq(@, 1, Len(@) - 1)] ELSE m

\* channel_client_write_bytes on the topmost channel.
Send(packet) ==
    Goto(IF Top = 0 THEN "serve" ELSE "sign", Top, [packet |-> packet, digests |-> <<>>])

\* channel_client_read_bytes on the topmost channel.
Receive == Goto("take", Top, NoMessage)

ch_client_write_bytes ==
    /\ pc = "sign"
    /\ Goto(IF at = 1 THEN "connect" ELSE "sign", at - 1, Signed(buf, chain[at]))
    /\ UNCHANGED <<chain, server, slot, conn, call, result, owed>>

ch_server_write_bytes ==
    /\ pc = "signBack"
    /\ Goto(IF at = 1 THEN "store" ELSE "signBack", at - 1, Signed(buf, chain[at]))
    /\ UNCHANGED <<chain, server, slot, conn, call, result, owed>>

\* The stage's two copies: requestMemory fails cleanly, editMemory frees the message
\* that its caller then frees again.
SignFails ==
    \/ /\ pc = "sign" /\ WriteFails(at, "MEMORY")
       /\ UNCHANGED <<chain, server, slot, conn, call, owed>>
    \/ /\ pc = "signBack" /\ WriteBackFails(at, "MEMORY")
       /\ UNCHANGED <<chain, server, slot, conn, call, owed>>
    \/ pc \in {"sign", "signBack"} /\ chain[at] # NoKey /\ Abort

\* The end of C's detour through the stages: server_bytes is freed whatever came back.
LeaveConnector == conn' = [conn EXCEPT !.server_bytes = NoMessage]

ch_server_read_bytes ==
    /\ pc = "verify"
    /\ IF ~Genuine(buf, chain[at])
       THEN LeaveConnector /\ WriteFails(0, "UNKNOWN")
       ELSE /\ IF at = Top THEN Goto("serve", 0, Stripped(buf, chain[at]))
              ELSE Goto("verify", at + 1, Stripped(buf, chain[at]))
            /\ IF at = Top THEN LeaveConnector ELSE UNCHANGED conn
            /\ UNCHANGED result
    /\ UNCHANGED <<chain, server, slot, call, owed>>

ch_client_read_bytes ==
    /\ pc = "verifyBack"
    /\ IF ~Genuine(buf, chain[at])
       THEN ReadFails("UNKNOWN")
       ELSE IF at = Top
       THEN pc' = "read" /\ at' = 0 /\ buf' = Stripped(buf, chain[at])
            /\ result' = [code |-> "OK", out |-> <<>>]
       ELSE Goto("verifyBack", at + 1, Stripped(buf, chain[at])) /\ UNCHANGED result
    /\ UNCHANGED <<chain, server, slot, conn, call, owed>>

\* UNKNOWN is the verification that had no memory for its own digest.
VerifyFails ==
    /\ pc \in {"verify", "verifyBack"}
    /\ \/ \E code \in {"MEMORY"} \cup (IF chain[at] = NoKey THEN {} ELSE {"UNKNOWN"}) :
            /\ IF pc = "verify" THEN WriteFails(0, code) /\ LeaveConnector
               ELSE ReadFails(code) /\ UNCHANGED conn
            /\ UNCHANGED <<chain, server, slot, call, owed>>
       \/ chain[at] # NoKey /\ Abort

----------------------------------------------------------------------------
(* C, the endpoint connector. *)

cec_client_write_bytes ==
    /\ pc = "connect"
    /\ IF conn.server_bytes # NoMessage
       THEN WriteFails(0, "BUSY") /\ UNCHANGED conn
       ELSE /\ conn' = [conn EXCEPT !.server_bytes = buf]
            /\ Goto("fetch", 0, NoMessage)
            /\ UNCHANGED result
    /\ UNCHANGED <<chain, server, slot, call, owed>>

cec_server_read_bytes ==
    /\ pc = "fetch"
    /\ IF conn.server_bytes = NoMessage
       THEN WriteFails(0, "BUSY") /\ UNCHANGED conn
       ELSE /\ Goto("verify", 1, conn.server_bytes)
            /\ conn' = [conn EXCEPT !.server_bytes = NoMessage]
            /\ UNCHANGED result
    /\ UNCHANGED <<chain, server, slot, call, owed>>

cec_server_write_bytes ==
    /\ pc = "store"
    /\ IF conn.client_bytes # NoMessage
       THEN WriteBackFails(0, "BUSY") /\ UNCHANGED conn
       ELSE /\ conn' = [conn EXCEPT !.client_bytes = buf]
            /\ Goto("collect", 0, NoMessage)
            /\ UNCHANGED result
    /\ UNCHANGED <<chain, server, slot, call, owed>>

\* Mutant: client_bytes is handed out and not set to NULL.
CollectKeeps ==
    /\ pc = "collect"
    /\ Goto("verifyBack", 1, conn.client_bytes)
    /\ UNCHANGED <<chain, server, slot, conn, call, result, owed>>

\* The rest of cec_client_read_bytes, once the response went through the stages.
Collect ==
    /\ pc = "collect"
    /\ Goto("verifyBack", 1, conn.client_bytes)
    /\ conn' = [conn EXCEPT !.client_bytes = NoMessage]
    /\ UNCHANGED <<chain, server, slot, call, result, owed>>

ConnectorFails ==
    /\ \/ pc = "connect" /\ WriteFails(0, "MEMORY")
       \/ pc = "store" /\ WriteBackFails(0, "MEMORY")
    /\ UNCHANGED <<chain, server, slot, conn, call, owed>>

----------------------------------------------------------------------------
(* S, the channel with server, and server_process inside its write. *)

\* Mutant: the check looks at the wrong pointer.
SlotFullNever == FALSE

\* Both writes of S look whether the client still has to read a response.
SlotFull == slot # NoMessage

cs_client_write_bytes ==
    /\ pc = "serve" /\ SlotFull
    /\ WriteFails(0, "BUSY")
    /\ UNCHANGED <<chain, server, slot, conn, call, owed>>

\* The database call of server_process: its one effect on the store.
server_process ==
    /\ pc = "serve" /\ ~SlotFull
    /\ server = "running" /\ buf.packet.type # "SHUTDOWN"
    /\ \E outcome \in DatabaseOutcomes(buf.packet.type) :
        /\ call' = [call EXCEPT !.executed = @ + 1, !.outcome = outcome]
        /\ Goto("reply", 0, [packet |-> ResponseTo(buf.packet.type, outcome), digests |-> <<>>])
    /\ UNCHANGED <<chain, server, slot, conn, result, owed>>

\* server_process frees the server itself and answers nothing.
server_shutdown ==
    /\ pc = "serve" /\ ~SlotFull
    /\ server = "running" /\ buf.packet.type = "SHUTDOWN"
    /\ server' = "freed"
    /\ WriteFails(0, "CHANNEL_FAILED")
    /\ UNCHANGED <<chain, slot, conn, call, owed>>

\* S keeps its pointer to the freed server: the process ends, the memory reads as no
\* server or no database, or the closed database answers with some error.
UseAfterShutdown ==
    /\ pc = "serve" /\ ~SlotFull /\ server = "freed"
    /\ \/ Abort
       \/ /\ WriteFails(0, "CHANNEL_FAILED")
          /\ UNCHANGED <<chain, server, slot, conn, call, owed>>
       \/ \E code \in DatabaseErrors :
            /\ Goto("reply", 0, [packet |-> ErrorPacket(code), digests |-> <<>>])
            /\ UNCHANGED <<chain, server, slot, conn, call, result, owed>>

\* Before the database call: no buffer at all, or domain, key or value not unpacked.
ServeFails ==
    /\ pc = "serve" /\ ~SlotFull /\ server = "running"
    /\ \/ WriteFails(0, "CHANNEL_FAILED")
       \/ /\ \E code \in {"MEMORY", "UNKNOWN"} :
                Goto("reply", 0, [packet |-> ErrorPacket(code), digests |-> <<>>])
          /\ UNCHANGED result
    /\ UNCHANGED <<chain, server, slot, conn, call, owed>>

cs_server_write_bytes ==
    /\ pc = "reply" /\ ~SlotFull
    /\ slot' = buf
    /\ owed' = (call.by = "channel")
    /\ Returns("wrote", "OK", <<>>)
    /\ UNCHANGED <<chain, server, conn, call>>

\* Mutant: S asks its caller to try again when it has no memory for the slot.
ReplyFailsBusy ==
    /\ pc = "reply" /\ WriteFails(0, "BUSY")
    /\ UNCHANGED <<chain, server, slot, conn, call, owed>>

\* After the database call: a response that cannot be built becomes an error packet;
\* if that fails too, no response (its buffer may be freed uninitialised); or S has no
\* memory for the slot.
ReplyFails ==
    /\ pc = "reply"
    /\ \/ /\ buf.packet.type # "ERROR"
          /\ Goto("reply", 0, [packet |-> ErrorPacket("UNKNOWN"), digests |-> <<>>])
          /\ UNCHANGED <<chain, server, slot, conn, call, result, owed>>
       \/ /\ buf.packet.type = "ERROR"
          /\ WriteFails(0, "CHANNEL_FAILED")
          /\ UNCHANGED <<chain, server, slot, conn, call, owed>>
       \/ buf.packet.type = "ERROR" /\ Abort
       \/ WriteFails(0, "MEMORY") /\ UNCHANGED <<chain, server, slot, conn, call, owed>>

\* Mutant: the response is copied out and stays in the slot.
TakeCopies ==
    /\ pc = "take"
    /\ IF slot = NoMessage THEN ReadFails("BUSY") /\ UNCHANGED owed
       ELSE /\ owed' = FALSE
            /\ IF Top = 0
               THEN pc' = "read" /\ at' = 0 /\ buf' = slot
                    /\ result' = [code |-> "OK", out |-> <<>>]
               ELSE Goto("signBack", Top, slot) /\ UNCHANGED result
    /\ UNCHANGED <<chain, server, slot, conn, call>>

\* cs_client_read_bytes, below cec_client_read_bytes if there is a connector.
cs_client_read_bytes ==
    /\ pc = "take"
    /\ IF slot = NoMessage \/ (Top > 0 /\ conn.client_bytes # NoMessage)
       THEN ReadFails("BUSY") /\ UNCHANGED <<slot, owed>>
       ELSE /\ slot' = NoMessage /\ owed' = FALSE
            /\ IF Top = 0
               THEN pc' = "read" /\ at' = 0 /\ buf' = slot
                    /\ result' = [code |-> "OK", out |-> <<>>]
               ELSE Goto("signBack", Top, slot) /\ UNCHANGED result
    /\ UNCHANGED <<chain, server, conn, call>>

----------------------------------------------------------------------------
ChannelStep ==
    \/ ch_client_write_bytes \/ ch_server_write_bytes
    \/ ch_server_read_bytes \/ ch_client_read_bytes
    \/ cec_client_write_bytes \/ cec_server_read_bytes
    \/ cec_server_write_bytes \/ Collect
    \/ cs_client_write_bytes \/ server_process \/ server_shutdown \/ UseAfterShutdown
    \/ cs_server_write_bytes \/ cs_client_read_bytes

ChannelFault ==
    SignFails \/ VerifyFails \/ ConnectorFails \/ ServeFails \/ ReplyFails
=============================================================================
