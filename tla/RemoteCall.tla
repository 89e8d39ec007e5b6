----------------------------- MODULE RemoteCall -----------------------------
(***************************************************************************)
(* What the library promises its caller, and no more: a call runs at most  *)
(* once, at one instant, and returns what that run said or gives up; a     *)
(* response written to the channel directly is kept until it is read.      *)
(* Buffers, stages, digests, retries and translations are left to module   *)
(* Registry, which implements this one.                                    *)
(***************************************************************************)
EXTENDS Server

CONSTANTS
    OpenCodes,               \* what opening may return besides OK
    WriteCodes, ReadCodes,   \* what a failing write and read of the channel may return
    Report(_, _),            \* what the caller hears of an outcome of a request
    NoRequest, NoOutcome, Pending

VARIABLES
    alive,      \* the process has not ended inside a call
    open, up,   \* the handle exists; its server was not shut down
    running,    \* a call is in progress
    call,       \* the last call: by whom, the request, how often it ran and with what outcome
    unread,     \* the response nobody has read, if there is one
    answer      \* what the last call returned, or Pending

remoteVars == <<alive, open, up, running, call, unread, answer>>

CallBy(caller, request) ==
    [by |-> caller, request |-> request, executed |-> 0, outcome |-> NoOutcome]

NoCall == CallBy("none", NoRequest)
Says(code) == [code |-> code, out |-> <<>>]

RemoteInit ==
    /\ alive = TRUE /\ open = FALSE /\ up = FALSE /\ running = FALSE
    /\ call = NoCall
    /\ unread = {} /\ answer = Says("NONE")

Idle == alive /\ ~running
Return(code, out) == running' = FALSE /\ answer' = [code |-> code, out |-> out]

Open ==
    /\ Idle /\ ~open
    /\ call' = NoCall
    /\ \/ Return("OK", <<>>) /\ open' = TRUE /\ up' = TRUE
       \/ \E code \in OpenCodes : Return(code, <<>>) /\ UNCHANGED <<open, up>>
    /\ UNCHANGED <<alive, unread>>

Close ==
    /\ Idle /\ open
    /\ call' = NoCall /\ Return("OK", <<>>)
    /\ open' = FALSE /\ up' = FALSE /\ unread' = {}
    /\ UNCHANGED alive

Begin(caller, request) ==
    /\ Idle /\ open
    /\ call' = CallBy(caller, request)
    /\ \/ running' = TRUE /\ answer' = Pending
       \/ caller = "registry" /\ Return("UNKNOWN", <<>>)
    /\ UNCHANGED <<alive, open, up, unread>>

Requests == [type : RequestTypes, fields : {<<>>} \cup {<<v>> : v \in Values}]

BeginSome ==
    \/ \E request \in Requests : request.type # "SHUTDOWN" /\ Begin("registry", request)
    \/ \E request \in Requests : Begin("channel", request)
    \/ Begin("reader", NoRequest)

\* A request runs once, and not while another one's response is unread.
Execute ==
    /\ running /\ up /\ call.by \in {"registry", "channel"}
    /\ call.request.type # "SHUTDOWN" /\ call.executed = 0 /\ unread = {}
    /\ \E outcome \in DatabaseOutcomes(call.request.type) :
        call' = [call EXCEPT !.executed = 1, !.outcome = outcome]
    /\ UNCHANGED <<alive, open, up, running, unread, answer>>

Shutdown ==
    /\ running /\ up /\ call.by = "channel" /\ call.request.type = "SHUTDOWN" /\ unread = {}
    /\ up' = FALSE
    /\ \E code \in WriteCodes : Return(code, <<>>)
    /\ UNCHANGED <<alive, open, call, unread>>

----------------------------------------------------------------------------
(* How a call returns.  After a shutdown packet nothing is promised but    *)
(* that no call succeeds.                                                  *)

Answer ==
    /\ running /\ call.by = "registry" /\ call.executed = 1
    /\ LET said == Report(call.request.type, call.outcome) IN Return(said.code, said.out)
    /\ UNCHANGED <<alive, open, up, call, unread>>

GiveUp ==
    /\ running /\ call.by = "registry"
    /\ \/ Return("UNKNOWN", <<>>)
       \/ ~up /\ \E code \in DatabaseErrors :
            LET said == Report(call.request.type, Says(code)) IN Return(said.code, said.out)
    /\ UNCHANGED <<alive, open, up, call, unread>>

\* The response to a write is that of its run, or an error of the server's own.
Responses ==
    {ErrorPacket(code) : code \in IF up THEN {"MEMORY", "UNKNOWN"} ELSE DatabaseErrors} \cup
    (IF call.executed = 1 THEN {ResponseTo(call.request.type, call.outcome)} ELSE {})

\* BUSY says that a response is unread, and that the request has not run.
WriteReturns ==
    /\ running /\ call.by = "channel"
    /\ \/ unread = {} /\ Return("OK", <<>>) /\ \E response \in Responses : unread' = {response}
       \/ \E code \in WriteCodes :
            Return(code, <<>>) /\ UNCHANGED unread /\ (code = "BUSY" => unread # {})
    /\ UNCHANGED <<alive, open, up, call>>

\* BUSY says that there is nothing to read; any other error that the response is lost.
ReadReturns ==
    /\ running /\ call.by = "reader"
    /\ unread' = {}
    /\ \/ unread = {} /\ Return("BUSY", <<>>)
       \/ \E response \in unread : Return("OK", response.fields)
       \/ unread # {} /\ \E code \in ReadCodes : Return(code, <<>>)
    /\ UNCHANGED <<alive, open, up, call>>

\* Undefined behaviour ends the process.
Crash ==
    /\ alive /\ alive' = FALSE
    /\ running' = FALSE /\ call' = NoCall /\ unread' = {} /\ answer' = Pending
    /\ UNCHANGED <<open, up>>

RemoteNext ==
    \/ Open \/ Close \/ BeginSome \/ Execute \/ Shutdown
    \/ Answer \/ GiveUp \/ WriteReturns \/ ReadReturns \/ Crash

RemoteSpec == RemoteInit /\ [][RemoteNext]_remoteVars
=============================================================================
