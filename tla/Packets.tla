------------------------------ MODULE Packets ------------------------------
(***************************************************************************)
(* One packet from the side that packs it to the side that unpacks it:     *)
(* requests from registry/registry.c to server/server.c, responses back,   *)
(* and the messages of an application that uses bpack itself.  Each side   *)
(* has its own format strings, memory may run out at each step, and a      *)
(* channel delivers the bytes it was given, which for a user of            *)
(* registry_get_channel may be a piece of a packet or any other bytes.     *)
(*                                                                         *)
(* The bytes of an item are module Bpack's.  On the server's side `heap`   *)
(* follows what bunpack allocated until it is freed.                       *)
(***************************************************************************)
EXTENDS Bpack

CONSTANTS
    Integers64,    \* the values an application, a setter or the database has
    Doubles,
    Strings,
    Blobs,
    Formats,       \* format strings of applications
    Noise          \* the bytes that a writer other than bpack may put on the channel

ASSUME NoiseAssumption == Noise \subseteq Byte

Switches == {"<", ">"}

\* What a format string is made of; "?" stands for any other character.
Characters == Items \cup Switches \cup {"?"}

ASSUME ValuesAssumption ==
    /\ Integers64 \subseteq Values("l") /\ Doubles \subseteq Values("d")
    /\ Strings \subseteq Values("s") /\ Blobs \subseteq Values("b")
    /\ Formats \subseteq Seq(Characters)

VARIABLES
    message,    \* what is packed: for whom, its type, format and values
    step,       \* what is done next
    format,     \* what is left of the format string
    little,     \* little_endian of the running bpack or bunpack
    args,       \* the values still to be packed
    ds,         \* the data store written, then the one read
    wire,       \* the bytes on the channel
    altered,    \* history: "no", "cut" or "changed" on their way
    faulted,    \* history: memory ran out
    type,       \* the packet type read
    got,        \* the values unpacked
    heap,       \* server_process: what became of the memory of its three variables
    code        \* how the side that ran last ended

vars == <<message, step, format, little, args, ds, wire, altered, faulted, type, got, heap, code>>


\* errors.h, numbered from 0.
PacketTypes ==
    <<"INVALID", "OK", "ERROR", "INT", "GET_INT", "SET_INT", "DOUBLE", "GET_DOUBLE", "SET_DOUBLE",
      "STRING", "GET_STRING", "SET_STRING", "BLOB", "GET_BLOB", "SET_BLOB", "ENUM", "GET_ENUM",
      "TYPE", "GET_VALUE_TYPE", "SHUTDOWN">>

ASSUME TypesAssumption == Len(PacketTypes) <= Base

PacketType(byte) == IF byte < Len(PacketTypes) THEN PacketTypes[byte + 1] ELSE "other"
Number(packet) == CHOOSE byte \in 0 .. Len(PacketTypes) - 1 : PacketType(byte) = packet

Requests ==
    {"GET_INT", "SET_INT", "GET_DOUBLE", "SET_DOUBLE", "GET_STRING", "SET_STRING",
     "GET_BLOB", "SET_BLOB", "GET_ENUM", "GET_VALUE_TYPE"}
Setters == {"SET_INT", "SET_DOUBLE", "SET_STRING", "SET_BLOB"}
Responses == {"OK", "INT", "DOUBLE", "STRING", "BLOB", "ENUM", "TYPE"}

\* The third item of a request, as each function of registry.c packs it.
RequestValue ==
    [t \in Setters |-> CASE t = "SET_INT" -> "l" [] t = "SET_DOUBLE" -> "d"
                         [] t = "SET_STRING" -> "s" [] t = "SET_BLOB" -> "b"]

RequestFormat(t) == <<"s", "s">> \o (IF t \in Setters THEN <<RequestValue[t]>> ELSE <<>>)

\* What each case of server_process unpacks after "ss".
ServerFormat(t) ==
    CASE t = "SET_INT" -> <<"l">>
      [] t = "SET_DOUBLE" -> <<"d">>
      [] t = "SET_STRING" -> <<"s">>
      [] t = "SET_BLOB" -> <<"b">>
      [] OTHER -> <<>>

\* What each case of server_process packs; the list of keys only if there is one.
ResponseFormat ==
    [t \in (Responses \cup {"ERROR"}) \ {"ENUM"} |->
        CASE t = "OK" -> <<>>
          [] t \in {"INT", "TYPE", "ERROR"} -> <<"l">>
          [] t = "DOUBLE" -> <<"d">>
          [] t = "STRING" -> <<"s">>
          [] t = "BLOB" -> <<"b">>]

\* What the function of registry.c that expects one packet type unpacks.
ClientFormat(t) ==
    CASE t \in {"ERROR", "INT", "ENUM", "TYPE"} -> <<"l">>
      [] t = "DOUBLE" -> <<"d">>
      [] t = "STRING" -> <<"s">>
      [] t = "BLOB" -> <<"b">>
      [] t = "OK" -> <<>>

\* The items of a format string.
ItemsOf(layout) ==
    LET upTo[i \in 0 .. Len(layout)] ==
            IF i = 0 THEN <<>>
            ELSE IF layout[i] \in Items THEN Append(upTo[i - 1], layout[i]) ELSE upTo[i - 1]
    IN upTo[Len(layout)]

ValuesOf(item) ==
    CASE item = "l" -> Integers64 [] item = "d" -> Doubles
      [] item = "s" -> Strings [] item = "b" -> Blobs

----------------------------------------------------------------------------
(* Types. *)

Names == <<"domain", "key", "value">>
Nothing == [n \in {"domain", "key", "value"} |-> "none"]
Free(names) ==
    heap' = [n \in DOMAIN heap |->
                IF n \notin names \/ heap[n] = "none" THEN heap[n]
                ELSE IF heap[n] = "held" THEN "freed" ELSE "freed twice"]

NoMessage == [to |-> "nobody", type |-> "none", expects |-> "none",
              format |-> <<>>, reads |-> <<>>, values |-> <<>>]
BpackCodes == {"OK", "BPACK_WRITE", "BPACK_READ", "BPACK_INVALID_FORMAT_STRING",
               "BUNPACK_INVALID_DATA", "MEMORY"}
Codes == BpackCodes \cup {"NONE", "INVALID_ARGUMENTS", "UNKNOWN", "REFUSED"}

TypeOK ==
    /\ message.to \in {"nobody", "server", "client", "application"}
    /\ step \in {"idle", "stamp", "pack", "send", "type", "unpack", "response", "value", "done"}
    /\ little \in BOOLEAN
    /\ ds.bytes \in Seq(Byte) /\ ds.position \in 0 .. Len(ds.bytes)
    /\ wire \in Seq(Byte)
    /\ altered \in {"no", "cut", "changed"} /\ faulted \in BOOLEAN
    /\ type \in Range(PacketTypes) \cup {"none", "other"}
    /\ heap \in [{"domain", "key", "value"} -> {"none", "held", "freed", "freed twice"}]
    /\ code \in Codes

Init ==
    /\ message = NoMessage /\ step = "idle"
    /\ format = <<>> /\ little = TRUE /\ args = <<>>
    /\ ds = New(<<>>) /\ wire = <<>>
    /\ altered = "no" /\ faulted = FALSE
    /\ type = "none" /\ got = <<>> /\ heap = Nothing /\ code = "NONE"

----------------------------------------------------------------------------
(* The side that packs. *)

Compose(m) ==
    /\ step = "idle"
    /\ message' = m
    /\ step' = IF m.to = "application" THEN "pack" ELSE "stamp"
    /\ format' = m.format /\ args' = m.values
    /\ UNCHANGED <<little, ds, wire, altered, faulted, type, got, heap, code>>

\* The ten functions of registry.c, which refuse an empty domain or key.
ComposeRequest ==
    \E t \in Requests, domain, key \in Strings \ {<<>>} :
        \E values \in (IF t \in Setters THEN {<<v>> : v \in ValuesOf(RequestValue[t])} ELSE {<<>>}) :
            Compose([to |-> "server", type |-> t, expects |-> "none", format |-> RequestFormat(t),
                     reads |-> RequestFormat(t), values |-> <<domain, key>> \o values])

\* An answer or an error packet, for a call that expects one type.
ComposeResponse ==
    \/ \E t \in Responses \ {"ENUM"} :
        \E values \in (IF t = "OK" THEN {<<>>} ELSE {<<v>> : v \in ValuesOf(ResponseFormat[t][1])}) :
            Compose([to |-> "client", type |-> t, expects |-> t, format |-> ResponseFormat[t],
                     reads |-> ClientFormat(t), values |-> values])
    \/ \E expects \in Responses, error \in Integers64 :
        Compose([to |-> "client", type |-> "ERROR", expects |-> expects,
                 format |-> ResponseFormat["ERROR"], reads |-> ClientFormat("ERROR"),
                 values |-> <<error>>])

ComposeKeys ==
    \E keys \in Blobs, count \in Integers64 :
        /\ count >= 0
        /\ LET layout == IF count > 0 THEN <<"l", "b">> ELSE <<"l">> IN
           Compose([to |-> "client", type |-> "ENUM", expects |-> "ENUM", format |-> layout,
                    reads |-> layout, values |-> SubSeq(<<count, keys>>, 1, Len(layout))])

\* Both sides of an application agree on the format, or the reader's goes wrong at its end.
ComposeOwn ==
    \E own \in Formats, more \in {<<>>, <<"?">>} :
        LET items == ItemsOf(own) IN
        \E integer \in Integers64, double \in Doubles, string \in Strings, blob \in Blobs :
            Compose([to |-> "application", type |-> "none", expects |-> "none", format |-> own,
                     reads |-> own \o more,
                     values |-> [i \in 1 .. Len(items) |->
                                    CASE items[i] = "l" -> integer [] items[i] = "d" -> double
                                      [] items[i] = "s" -> string [] items[i] = "b" -> blob]])

At(s) == step = s /\ format # <<>>
Ended(s) == step = s /\ format = <<>>

Stamp ==
    /\ step = "stamp" /\ step' = "pack"
    /\ ds' = WriteByte(ds, Number(message.type))
    /\ UNCHANGED <<message, format, little, args, wire, altered, faulted, type, got, heap, code>>

\* One item of bpack's loop.
Pack ==
    /\ At("pack") /\ Head(format) \in Items
    /\ ds' = WriteBytes(ds, Packed(Head(format), Head(args), little))
    /\ format' = Tail(format) /\ args' = Tail(args)
    /\ UNCHANGED <<message, step, little, wire, altered, faulted, type, got, heap, code>>

\* `<` and `>`, when packing and when unpacking.
Switch ==
    /\ At("pack") \/ At("unpack")
    /\ Head(format) \in Switches
    /\ little' = (Head(format) = "<")
    /\ format' = Tail(format)
    /\ UNCHANGED <<message, step, args, ds, wire, altered, faulted, type, got, heap, code>>

Ends(result) == step' = "done" /\ code' = result

InvalidFormat ==
    /\ At("pack") \/ At("unpack")
    /\ Head(format) \notin Items \cup Switches
    /\ Ends("BPACK_INVALID_FORMAT_STRING")
    /\ UNCHANGED <<message, format, little, args, ds, wire, altered, faulted, type, got, heap>>

Fault == ~faulted /\ faulted' = TRUE

\* A byte finds no memory; what the item has written so far stays in the buffer, which
\* both programs free.
PackFails ==
    /\ At("pack") /\ Head(format) \in Items
    /\ Fault
    /\ \E n \in 0 .. Len(Packed(Head(format), Head(args), little)) - 1 :
        ds' = WriteBytes(ds, SubSeq(Packed(Head(format), Head(args), little), 1, n))
    /\ Ends("BPACK_WRITE")
    /\ UNCHANGED <<message, format, little, args, wire, altered, type, got, heap>>

\* simple_memory_buffer_get_data and get_size: channel_client_write_bytes, sendPacket.
Send ==
    /\ Ended("pack") /\ step' = "send"
    /\ wire' = ds.bytes
    /\ UNCHANGED <<message, format, little, args, ds, altered, faulted, type, got, heap, code>>

----------------------------------------------------------------------------
(* The channel of somebody who writes to it directly. *)

Cut ==
    /\ step = "send" /\ altered = "no"
    /\ \E n \in 0 .. Len(wire) - 1 : wire' = SubSeq(wire, 1, n)
    /\ altered' = "cut"
    /\ UNCHANGED <<message, step, format, little, args, ds, faulted, type, got, heap, code>>

Change ==
    /\ step = "send" /\ altered = "no"
    /\ \E i \in DOMAIN wire, byte \in Noise :
        wire[i] # byte /\ wire' = [wire EXCEPT ![i] = byte]
    /\ altered' = "changed"
    /\ UNCHANGED <<message, step, format, little, args, ds, faulted, type, got, heap, code>>

----------------------------------------------------------------------------
(* The side that unpacks. *)

\* The empty string that server_process refuses.
NoString == wire = <<>> \/ wire[1] = 0

\* The bytes are copied into a data store of the reader.
Receive ==
    /\ step = "send" /\ little' = TRUE
    /\ IF message.to = "server" /\ NoString
       THEN Ends("INVALID_ARGUMENTS") /\ UNCHANGED <<format, ds>>
       ELSE /\ ds' = New(wire) /\ UNCHANGED code
            /\ IF message.to = "application"
               THEN step' = "unpack" /\ format' = message.reads
               ELSE step' = "type" /\ UNCHANGED format
    /\ UNCHANGED <<message, args, wire, altered, faulted, type, got, heap>>

ReceiveFails ==
    /\ step = "send" /\ Fault
    /\ Ends(IF message.to = "application" THEN "MEMORY" ELSE "UNKNOWN")
    /\ UNCHANGED <<message, format, little, args, ds, wire, altered, type, got, heap>>

\* The packet type.  A client takes an error packet or the type it expects.
ReadType ==
    /\ step = "type" /\ Readable(ds, 1)
    /\ ds' = [ds EXCEPT !.position = @ + 1]
    /\ type' = PacketType(Ahead(ds, 0, 1)[1])
    /\ IF message.to = "server" THEN step' = "unpack" /\ format' = <<"s", "s">> /\ UNCHANGED code
       ELSE IF type' \in {"ERROR", message.expects}
       THEN step' = "unpack" /\ format' = ClientFormat(type') /\ UNCHANGED code
       ELSE Ends("UNKNOWN") /\ UNCHANGED format
    /\ UNCHANGED <<message, little, args, wire, altered, faulted, got, heap>>

ReadNoType ==
    /\ step = "type" /\ ~Readable(ds, 1)
    /\ Ends("UNKNOWN")
    /\ UNCHANGED <<message, format, little, args, ds, wire, altered, faulted, type, got, heap>>

Reading == At("unpack") \/ At("value")
Result == Unpacked(Head(format), ds, little)

\* enum_keys reads the list of keys if their number is positive.
Rest ==
    IF message.to = "client" /\ type = "ENUM" /\ Head(format) = "l" /\ Result.val > 0
    THEN <<"b">> ELSE Tail(format)

\* One item of bunpack's loop.
Unpack ==
    /\ Reading /\ Head(format) \in Items
    /\ Result.code = "OK"
    /\ got' = Append(got, Result.val)
    /\ ds' = [ds EXCEPT !.position = @ + Result.length]
    /\ format' = Rest
    /\ heap' = IF message.to = "server" /\ Head(format) \in {"s", "b"}
               THEN [heap EXCEPT ![Names[Len(got')]] = "held"] ELSE heap
    /\ UNCHANGED <<message, step, little, args, wire, altered, faulted, type, code>>

\* server_process frees domain and key if "ss" fails, and at its end otherwise.
GivesUp(result) ==
    /\ code' = result
    /\ IF message.to = "server" THEN Free({"domain", "key"}) ELSE UNCHANGED heap
    /\ step' = IF message.to = "server" /\ step = "unpack" THEN "response" ELSE "done"
    /\ UNCHANGED <<message, format, little, args, ds, wire, altered, type, got>>

UnpackRefused ==
    /\ Reading /\ Head(format) \in Items
    /\ Result.code # "OK"
    /\ GivesUp(Result.code)
    /\ UNCHANGED faulted

\* No memory for a string or a blob.
UnpackFails ==
    /\ Reading /\ Head(format) \in {"s", "b"}
    /\ Fault
    /\ GivesUp("MEMORY")

Unpacks ==
    /\ Ended("unpack")
    /\ IF message.to = "server" THEN step' = "response" /\ UNCHANGED code ELSE Ends("OK")
    /\ UNCHANGED <<message, format, little, args, ds, wire, altered, faulted, type, got, heap>>

----------------------------------------------------------------------------
(* The rest of server_process. *)

\* Its data store for the response exists; then what is left to unpack depends on the type.
Dispatch ==
    /\ step = "response"
    /\ IF code = "NONE" THEN step' = "value" /\ format' = ServerFormat(type)
       ELSE step' = "done" /\ UNCHANGED format
    /\ UNCHANGED <<message, little, args, ds, wire, altered, faulted, type, got, heap, code>>

\* Mutant: domain and key are left to the end of the function, which is not reached.
DispatchFailsKeeping ==
    /\ step = "response" /\ Fault
    /\ Ends("UNKNOWN")
    /\ UNCHANGED <<message, format, little, args, ds, wire, altered, type, got, heap>>

\* The way out frees domain and key, also if they were freed before.
DispatchFails ==
    /\ step = "response" /\ Fault
    /\ Free({"domain", "key"}) /\ Ends("UNKNOWN")
    /\ UNCHANGED <<message, format, little, args, ds, wire, altered, type, got>>

\* The call of database.c; a value is freed only if it succeeded.
Serve ==
    /\ Ended("value")
    /\ \/ type \in Requests /\ Free({"domain", "key", "value"}) /\ Ends("OK")
       \/ type \in Requests /\ Free({"domain", "key"}) /\ Ends("REFUSED")
       \/ type = "SHUTDOWN" /\ Free({"domain", "key"}) /\ Ends("OK")
       \/ type \notin Requests \cup {"SHUTDOWN"} /\ Free({"domain", "key"}) /\ Ends("UNKNOWN")
    /\ UNCHANGED <<message, format, little, args, ds, wire, altered, faulted, type, got>>

----------------------------------------------------------------------------
ComposeAny == ComposeRequest \/ ComposeResponse \/ ComposeKeys \/ ComposeOwn
PackStep == Stamp \/ Pack \/ Switch \/ InvalidFormat \/ Send
UnpackStep ==
    Receive \/ ReadType \/ ReadNoType \/ Unpack \/ UnpackRefused \/ Unpacks \/ Dispatch \/ Serve
Failure == PackFails \/ ReceiveFails \/ UnpackFails \/ DispatchFails
Done == step = "done" /\ UNCHANGED vars

Next == ComposeAny \/ PackStep \/ Cut \/ Change \/ UnpackStep \/ Failure \/ Done

Spec == Init /\ [][Next]_vars
----------------------------------------------------------------------------
(* Properties. *)

Known(layout) == \A i \in DOMAIN layout : layout[i] \in Items \cup Switches

\* A NaN loses its sign.
Sent ==
    [i \in DOMAIN message.values |->
        IF ItemsOf(message.format)[i] = "d" /\ message.values[i].class = "nan"
        THEN [message.values[i] EXCEPT !.negative = FALSE] ELSE message.values[i]]

\* What one side packed is what the other side unpacks, to the last byte: every integer,
\* double, string and blob, in both byte orders, and for each packet the formats of
\* registry.c and server.c agree.  A format with another character is refused on either
\* side (bpack.h:24, 73, 103).
RoundTrip ==
    step = "done" /\ altered = "no" /\ ~faulted =>
        IF Known(message.reads)
        THEN code \in {"OK", "REFUSED"} /\ got = Sent /\ ds.position = Len(wire)
        ELSE code = "BPACK_INVALID_FORMAT_STRING"

\* A packet that ends early is never taken for a whole one, wherever it ends and also if it
\* ends between two items; and each target that was set has the value that was packed, as
\* "the targets of the pointers are only changed after successfully unpacking the value"
\* (bpack.h:119-120).
CutIsNoticed ==
    /\ altered = "cut" /\ step = "done" => code \notin {"OK", "REFUSED"}
    /\ altered # "changed" => IsPrefix(got, Sent)

\* A string may end before its bytes do, and the lowest bits of a small double be rounded.
Loses(item, bytes, val) ==
    \/ item = "s" /\ \E i \in DOMAIN bytes : i > IntBytes /\ bytes[i] = 0
    \/ item = "d" /\ val.class = "finite" /\ val.exponent <= MinExp

\* There is one way to pack a value: whatever bytes arrive, those that bunpack accepts for
\* an item are the ones bpack writes for the value it returns, unless a string has a NUL
\* inside or a double is too small to keep all its bits.
OnlyPackedIsAccepted ==
    [][Unpack =>
        LET bytes == Ahead(ds, 0, Result.length) IN
        \/ Loses(Head(format), bytes, Result.val)
        \/ bytes = Packed(Head(format), Result.val, little)]_vars

\* server_process frees what bunpack allocated for it exactly once.  Two ways out do not:
\* a set that the database refuses keeps the string or blob, and if "ss" fails after the
\* domain and there is no memory for the response, the domain is freed twice.
FreedOnce ==
    step = "done" =>
        /\ heap["domain"] = "freed twice" => faulted /\ Len(got) = 1
        /\ heap["key"] # "freed twice" /\ heap["value"] # "freed twice"
        /\ heap["domain"] # "held" /\ heap["key"] # "held"
        /\ heap["value"] = "held" => code = "REFUSED" /\ type \in {"SET_STRING", "SET_BLOB"}
=============================================================================
