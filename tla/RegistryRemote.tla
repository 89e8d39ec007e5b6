--------------------------- MODULE RegistryRemote ---------------------------
(***************************************************************************)
(* Registry implements RemoteCall.  A call of the library returns with its *)
(* last step, a write or read of the channel as soon as the topmost        *)
(* channel has; and a response that a reader is fetching is unread until   *)
(* the read returns.                                                       *)
(***************************************************************************)
EXTENDS Registry

Alive == pc # "aborted"
Up == server = "running"
Returned == pc = "idle" \/ (pc \in {"wrote", "read"} /\ call.by # "registry")
Running == Alive /\ ~Returned
LastCall == IF Alive THEN call ELSE CallBy("none", NoRequest)

Unread ==
    IF ~Alive THEN {}
    ELSE IF owed THEN {slot.packet}
    ELSE IF pc \in BackLabels /\ call.by = "reader" THEN {Hand.packet}
    ELSE {}

\* DirectReturn copies the fields of a response to its caller.
ReturnedOut ==
    IF pc = "idle" THEN result.out
    ELSE IF pc = "read" /\ result.code = "OK" THEN buf.packet.fields
    ELSE <<>>

PendingAnswer == [code |-> "PENDING", out |-> <<>>]
LastAnswer == IF Returned THEN [code |-> result.code, out |-> ReturnedOut] ELSE PendingAnswer

\* What a call reports of an outcome: the data, or ErrorCode's translation.
ReportOf(type, outcome) ==
    IF outcome.code = "OK" THEN outcome
    ELSE [code |-> ErrorCode(type, outcome.code), out |-> <<>>]

WriteErrors == {"BUSY", "UNKNOWN", "MEMORY", "CHANNEL_FAILED"}
ReadErrors == {"UNKNOWN", "MEMORY"}

Remote == INSTANCE RemoteCall WITH
    OpenCodes <- OpenErrors, WriteCodes <- WriteErrors, ReadCodes <- ReadErrors,
    Report <- ReportOf, Pending <- PendingAnswer,
    alive <- Alive, up <- Up, running <- Running,
    call <- LastCall, unread <- Unread, answer <- LastAnswer

\* A response on its way answers the running call.
ResponseOK ==
    pc = "reply" \/ (call.by = "registry" /\ Answered) => Hand.packet \in Remote!Responses

\* Seen by its caller the whole chain is one remote call after the other: each runs at most
\* once, at one instant between its start and its return, reports that run or UNKNOWN, and
\* a response written directly is neither overwritten nor handed to anyone but the next
\* reader (registry.c:289-330, channel-with-server.c:44-76).
ImplementsRemoteCall == Remote!RemoteSpec
=============================================================================
