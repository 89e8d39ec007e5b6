--------------------------- MODULE PacketsProofs ---------------------------
(***************************************************************************)
(* For every size of bytes and numbers, all values and all format strings. *)
(*                                                                         *)
(* The heap: server_process frees what bunpack allocated for it exactly    *)
(* once, but for the two ways out that FreedOnce names.  IInv says which   *)
(* memory is held at each step.                                            *)
(*                                                                         *)
(* The bytes: what one side packs the other unpacks, a packet that ends    *)
(* early is noticed, and only what bpack writes is accepted.  PInv follows *)
(* the writer through the characters of its format and the reader through  *)
(* the same ones; BpackProofs says what each of them does to the bytes.    *)
(***************************************************************************)
EXTENDS Packets, BpackProofs

Memory == {"domain", "key", "value"}

Held(names) == [n \in Memory |-> IF n \in names THEN "held" ELSE "none"]

\* The memory that belongs to the first n values of a request.
Unpacked2(n) ==
    Held(IF n = 0 THEN {} ELSE IF n = 1 THEN {"domain"} ELSE {"domain", "key"})

\* What a server still unpacks with "ss".
SSLeft ==
    /\ format \in Seq({"s"}) /\ Len(got) + Len(format) = 2
    /\ heap = Unpacked2(Len(got))

\* Either both strings of "ss" are there or they were freed.
ResponseLeft ==
    \/ code = "NONE" /\ Len(got) = 2 /\ heap = Unpacked2(2)
    \/ code # "NONE" /\ Len(got) = 0 /\ heap = Nothing
    \/ code # "NONE" /\ Len(got) = 1 /\ heap = [Nothing EXCEPT !["domain"] = "freed"]

\* The value of a set is still to be unpacked, or is there, or there is none.
ValueLeft ==
    \/ Len(got) = 2 /\ heap = Unpacked2(2) /\ format = ServerFormat(type)
    \/ /\ format = <<>> /\ heap \in {Unpacked2(2), Held(Memory)}
       /\ heap["value"] = "held" => type \in {"SET_STRING", "SET_BLOB"}

IInv ==
    /\ \E S : got \in Seq(S)
    /\ heap \in [Memory -> {"none", "held", "freed", "freed twice"}]
    /\ step \notin {"response", "done"} => code = "NONE"
    /\ step \in {"response", "value"} => message.to = "server"
    /\ step \in {"idle", "stamp", "pack", "send", "type"} => got = <<>>
    /\ message.to # "server" \/ step \in {"idle", "stamp", "pack", "send", "type"} => heap = Nothing
    /\ message.to = "server" /\ step = "unpack" => SSLeft
    /\ step = "response" => ResponseLeft
    /\ step = "value" => ValueLeft
    /\ FreedOnce

\* The memory of one more value.
LEMMA OneMore ==
    /\ [Unpacked2(0) EXCEPT !["domain"] = "held"] = Unpacked2(1)
    /\ [Unpacked2(1) EXCEPT !["key"] = "held"] = Unpacked2(2)
    /\ [Unpacked2(2) EXCEPT !["value"] = "held"] = Held(Memory)
<1>1. Unpacked2(0) = [n \in Memory |-> "none"]
  BY DEF Unpacked2, Held
<1>2. Unpacked2(1) = [n \in Memory |-> IF n = "domain" THEN "held" ELSE "none"]
  BY DEF Unpacked2, Held
<1>3. Unpacked2(2) = [n \in Memory |-> IF n \in {"domain", "key"} THEN "held" ELSE "none"]
  BY DEF Unpacked2, Held
<1>4. Held(Memory) = [n \in Memory |-> "held"]
  BY DEF Held
<1>5. [Unpacked2(0) EXCEPT !["domain"] = "held"] = Unpacked2(1)
  BY <1>1, <1>2 DEF Memory
<1>6. [Unpacked2(1) EXCEPT !["key"] = "held"] = Unpacked2(2)
  BY <1>2, <1>3 DEF Memory
<1>7. [Unpacked2(2) EXCEPT !["value"] = "held"] = Held(Memory)
  BY <1>3, <1>4 DEF Memory
<1> QED
  BY <1>5, <1>6, <1>7

LEMMA Two ==
    /\ \A m, n \in Nat : m + n = 2 /\ n # 0 => m \in {0, 1}
    /\ \A m \in Nat : m + 0 = 2 => m = 2
  OBVIOUS

LEMMA StringsLeft ==
    ASSUME NEW f \in Seq({"s"}), f # <<>>
    PROVE  /\ Head(f) = "s" /\ Len(f) \in Nat \ {0}
           /\ Tail(f) \in Seq({"s"}) /\ Len(Tail(f)) = Len(f) - 1
<1>1. Len(f) \in Nat /\ Len(f) # 0
  OBVIOUS
<1>2. Head(f) \in {"s"}
  BY <1>1
<1> QED
  BY <1>1, <1>2

LEMMA AppendGrows ==
    ASSUME NEW S, NEW s \in Seq(S), NEW e
    PROVE  /\ Append(s, e) \in Seq(S \cup {e})
           /\ Len(Append(s, e)) = Len(s) + 1
<1>1. s \in Seq(S \cup {e})
  OBVIOUS
<1> QED
  BY <1>1

LEMMA InitHolds == Init => IInv
<1> SUFFICES ASSUME Init PROVE IInv
  OBVIOUS
<1> USE DEF Init
<1>1. got \in Seq({})
  OBVIOUS
<1>2. Nothing \in [Memory -> {"none", "held", "freed", "freed twice"}]
  BY DEF Nothing, Memory
<1> QED
  BY <1>1, <1>2 DEF IInv, FreedOnce, NoMessage

LEMMA SomeMessage ==
    ASSUME ComposeAny
    PROVE  \E m : Compose(m)
<1>1. CASE ComposeRequest
  BY <1>1 DEF ComposeRequest
<1>2. CASE ComposeResponse
  BY <1>2 DEF ComposeResponse
<1>3. CASE ComposeKeys
  BY <1>3 DEF ComposeKeys
<1>4. CASE ComposeOwn
  BY <1>4 DEF ComposeOwn
<1> QED
  BY <1>1, <1>2, <1>3, <1>4 DEF ComposeAny

\* Nothing is unpacked before the packet type.
LEMMA BeforeKeeps ==
    ASSUME IInv, ComposeAny \/ Stamp \/ Pack \/ Send \/ Cut \/ Change
    PROVE  IInv'
<1>1. /\ step \in {"idle", "stamp", "pack", "send"}
      /\ step' \in {"stamp", "pack", "send"}
      /\ UNCHANGED <<got, heap, code>>
  <2>1. CASE ComposeAny
    <3>1. PICK m : Compose(m)
      BY <2>1, SomeMessage
    <3> QED
      BY <3>1 DEF Compose
  <2>2. CASE Stamp
    BY <2>2 DEF Stamp
  <2>3. CASE Pack
    BY <2>3 DEF Pack, At
  <2>4. CASE Send
    BY <2>4 DEF Send, Ended
  <2>5. CASE Cut
    BY <2>5 DEF Cut
  <2>6. CASE Change
    BY <2>6 DEF Change
  <2> QED
    BY <2>1, <2>2, <2>3, <2>4, <2>5, <2>6
<1> QED
  BY <1>1 DEF IInv, FreedOnce

\* The side that packs, or a client or an application, ends.
LEMMA NothingKeeps ==
    ASSUME IInv, heap = Nothing, step' = "done", UNCHANGED <<got, heap>>
    PROVE  IInv'
<1>1. \E S : got' \in Seq(S)
  BY DEF IInv
<1>2. heap' \in [Memory -> {"none", "held", "freed", "freed twice"}] /\ heap' = Nothing
  BY DEF IInv
<1>3. FreedOnce'
  BY <1>2 DEF FreedOnce, Nothing
<1> QED
  BY <1>1, <1>2, <1>3 DEF IInv

LEMMA ReceiveKeeps ==
    ASSUME IInv, Receive \/ ReceiveFails
    PROVE  IInv'
<1>1. step = "send" /\ heap = Nothing /\ got = <<>> /\ UNCHANGED <<message, got, heap>>
  BY DEF Receive, ReceiveFails, IInv
<1>2. CASE step' = "done"
  BY <1>1, <1>2, NothingKeeps
<1>3. CASE step' # "done"
  <2>1. Receive /\ code' = "NONE" /\ step' = (IF message.to = "application" THEN "unpack" ELSE "type")
    BY <1>1, <1>3 DEF Receive, ReceiveFails, Ends, IInv
  <2> QED
    BY <1>1, <2>1 DEF IInv, FreedOnce
<1> QED
  BY <1>2, <1>3

LEMMA ReadTypeKeeps ==
    ASSUME IInv, ReadType \/ ReadNoType
    PROVE  IInv'
<1>1. step = "type" /\ heap = Nothing /\ got = <<>> /\ UNCHANGED <<message, got, heap>>
  BY DEF ReadType, ReadNoType, IInv
<1>2. CASE step' = "done"
  BY <1>1, <1>2, NothingKeeps
<1>3. CASE step' # "done"
  <2>1. /\ step' = "unpack" /\ code' = "NONE"
        /\ message.to = "server" => format' = <<"s", "s">>
    BY <1>1, <1>3 DEF ReadType, ReadNoType, Ends, IInv
  <2>2. Unpacked2(0) = Nothing
    BY DEF Unpacked2, Held, Nothing, Memory
  <2>3. message.to = "server" => SSLeft'
    <3> SUFFICES ASSUME message.to = "server" PROVE SSLeft'
      OBVIOUS
    <3>1. Len(got') = 0
      BY <1>1
    <3>2. <<"s", "s">> \in Seq({"s"}) /\ Len(<<"s", "s">>) = 2
      OBVIOUS
    <3>3. format' \in Seq({"s"}) /\ Len(format') = 2
      BY <2>1, <3>2
    <3>4. heap' = Unpacked2(Len(got'))
      BY <1>1, <2>2, <3>1
    <3> QED
      BY <3>1, <3>3, <3>4 DEF SSLeft
  <2> QED
    BY <1>1, <2>1, <2>3 DEF IInv, FreedOnce
<1> QED
  BY <1>2, <1>3

LEMMA SwitchKeeps ==
    ASSUME IInv, Switch \/ InvalidFormat
    PROVE  IInv'
<1>1. (step = "pack" \/ step = "unpack") /\ UNCHANGED <<message, got, heap>>
  BY DEF Switch, InvalidFormat, At
<1>2. message.to = "server" => step = "pack"
  <2> SUFFICES ASSUME message.to = "server", step = "unpack" PROVE FALSE
    BY <1>1
  <2>1. format \in Seq({"s"}) /\ format # <<>>
    BY DEF IInv, SSLeft, Switch, InvalidFormat, At
  <2>2. Head(format) = "s"
    BY <2>1
  <2> QED
    BY <2>2 DEF Switch, InvalidFormat, Switches, Items
<1>3. heap = Nothing
  BY <1>1, <1>2 DEF IInv
<1>4. CASE Switch
  BY <1>1, <1>2, <1>3, <1>4 DEF IInv, FreedOnce, Switch
<1>5. CASE InvalidFormat
  BY <1>1, <1>3, <1>5, NothingKeeps DEF InvalidFormat, Ends
<1> QED
  BY <1>4, <1>5

LEMMA PackFailsKeeps ==
    ASSUME IInv, PackFails
    PROVE  IInv'
<1>1. step = "pack" /\ step' = "done" /\ UNCHANGED <<got, heap>>
  BY DEF PackFails, At, Ends
<1> QED
  BY <1>1, NothingKeeps DEF IInv

----------------------------------------------------------------------------
LEMMA ResultCodes ==
    ASSUME NEW item \in Items, NEW data, NEW order
    PROVE  Unpacked(item, data, order).code # "NONE"
<1>1. UnpackedInt(data, order).code # "NONE"
  BY DEF UnpackedInt, Gives, Fails
<1>2. UnpackedFinite(data, TRUE, order).code # "NONE" /\ UnpackedFinite(data, FALSE, order).code # "NONE"
  BY DEF UnpackedFinite, Gives, Fails
<1>3. UnpackedDouble(data, order).code # "NONE"
  BY <1>2 DEF UnpackedDouble, Gives, Fails
<1>4. UnpackedBlob(data, order).code # "NONE"
  BY DEF UnpackedBlob, Gives, Fails
<1> QED
  BY <1>1, <1>3, <1>4 DEF Unpacked, Fails, Items

\* The strings of "ss" and the value are held one after the other.
LEMMA UnpackKeeps ==
    ASSUME IInv, Unpack
    PROVE  IInv'
<1>1. /\ step \in {"unpack", "value"} /\ step' = step
      /\ format # <<>> /\ Head(format) \in Items
      /\ UNCHANGED <<message, type, code>>
  BY DEF Unpack, Reading, At
<1>2. PICK S : got \in Seq(S)
  BY DEF IInv
<1>3. PICK e : got' = Append(got, e)
  BY DEF Unpack
<1>4. got' \in Seq(S \cup {e}) /\ Len(got') = Len(got) + 1 /\ Len(got) \in Nat
  BY <1>2, <1>3, AppendGrows
<1>5. CASE message.to # "server"
  <2>1. UNCHANGED heap
    BY <1>5 DEF Unpack
  <2> QED
    BY <1>1, <1>4, <1>5, <2>1 DEF IInv, FreedOnce
<1>6. CASE message.to = "server" /\ step = "unpack"
  <2>1. format \in Seq({"s"}) /\ Head(format) = "s" /\ Len(format) \in Nat \ {0}
    <3>1. format \in Seq({"s"})
      BY <1>6 DEF IInv, SSLeft
    <3> QED
      BY <1>1, <3>1, StringsLeft
  <2>2. format' = Tail(format) /\ heap' = [heap EXCEPT ![Names[Len(got')]] = "held"]
    BY <1>6, <2>1 DEF Unpack, Rest
  <2>3. format' \in Seq({"s"}) /\ Len(format') = Len(format) - 1
    BY <1>1, <2>1, <2>2, StringsLeft
  <2>4. Len(got) + Len(format) = 2 /\ heap = Unpacked2(Len(got))
    BY <1>6 DEF IInv, SSLeft
  <2>5. heap' = Unpacked2(Len(got'))
    <3>1. CASE Len(got) = 0
      <4>1. Len(got') = 1 /\ Names[1] = "domain"
        BY <1>4, <3>1 DEF Names
      <4> QED
        BY <2>2, <2>4, <3>1, <4>1, OneMore
    <3>2. CASE Len(got) = 1
      <4>1. Len(got') = 2 /\ Names[2] = "key"
        BY <1>4, <3>2 DEF Names
      <4> QED
        BY <2>2, <2>4, <3>2, <4>1, OneMore
    <3>3. Len(got) \in {0, 1}
      BY <1>4, <2>1, <2>4, Two
    <3> QED
      BY <3>1, <3>2, <3>3
  <2>6. SSLeft'
    BY <1>4, <2>1, <2>3, <2>4, <2>5 DEF SSLeft
  <2>7. heap' \in [Memory -> {"none", "held", "freed", "freed twice"}]
    BY <2>5 DEF Unpacked2, Held, Memory
  <2> QED
    BY <1>1, <1>4, <1>6, <2>6, <2>7 DEF IInv, FreedOnce
<1>7. CASE message.to = "server" /\ step = "value"
  <2>1. Len(got) = 2 /\ heap = Unpacked2(2) /\ format = ServerFormat(type)
    BY <1>1, <1>7 DEF IInv, ValueLeft
  <2>2. format' = Tail(format)
    BY <1>7 DEF Unpack, Rest
  <2>3. Tail(format) = <<>> /\ (Head(format) \in {"s", "b"} => type \in {"SET_STRING", "SET_BLOB"})
    BY <1>1, <2>1 DEF ServerFormat
  <2>4. Names[Len(got')] = "value"
    BY <1>4, <2>1 DEF Names
  <2>5. heap' = IF Head(format) \in {"s", "b"} THEN [heap EXCEPT !["value"] = "held"] ELSE heap
    BY <1>7, <2>4 DEF Unpack
  <2>6. [Unpacked2(2) EXCEPT !["value"] = "held"] = Held(Memory)
    BY OneMore
  <2>7. ValueLeft'
    BY <1>1, <2>1, <2>2, <2>3, <2>5, <2>6 DEF ValueLeft, Unpacked2, Held, Memory
  <2>8. heap' \in [Memory -> {"none", "held", "freed", "freed twice"}]
    BY <2>1, <2>5, <2>6 DEF Unpacked2, Held, Memory
  <2> QED
    BY <1>1, <1>4, <1>7, <2>7, <2>8 DEF IInv, FreedOnce
<1> QED
  BY <1>1, <1>5, <1>6, <1>7

LEMMA FreeHeld ==
    ASSUME heap \in {Unpacked2(0), Unpacked2(1), Unpacked2(2), Held(Memory)},
           NEW names \in {{"domain", "key"}, Memory}, Free(names)
    PROVE  /\ heap' \in [Memory -> {"none", "held", "freed", "freed twice"}]
           /\ heap'["domain"] = (IF heap["domain"] = "held" THEN "freed" ELSE "none")
           /\ heap'["key"] = (IF heap["key"] = "held" THEN "freed" ELSE "none")
           /\ heap'["value"] = IF heap["value"] = "none" THEN "none"
                               ELSE IF names = Memory THEN "freed" ELSE "held"
<1>1. heap \in [Memory -> {"none", "held"}]
  BY DEF Unpacked2, Held, Memory
<1> QED
  BY <1>1 DEF Free, Memory

LEMMA GivesUpKeeps ==
    ASSUME IInv, UnpackRefused \/ UnpackFails
    PROVE  IInv'
<1>1. PICK result : GivesUp(result) /\ result # "NONE"
  <2>1. CASE UnpackRefused
    BY <2>1, ResultCodes DEF UnpackRefused, Result
  <2>2. CASE UnpackFails
    BY <2>2 DEF UnpackFails
  <2> QED
    BY <2>1, <2>2
<1>2. step \in {"unpack", "value"} /\ format # <<>>
  BY DEF UnpackRefused, UnpackFails, Reading, At
<1>3. UNCHANGED <<message, got, type>> /\ code' # "NONE"
  BY <1>1 DEF GivesUp
<1>4. CASE message.to # "server"
  BY <1>1, <1>2, <1>4, NothingKeeps DEF GivesUp, IInv
<1>5. CASE message.to = "server" /\ step = "unpack"
  <2>1. /\ Len(format) \in Nat \ {0} /\ Len(got) + Len(format) = 2
        /\ heap = Unpacked2(Len(got)) /\ Len(got) \in Nat
    <3>1. PICK S : got \in Seq(S)
      BY DEF IInv
    <3>2. format \in Seq({"s"}) /\ Len(got) + Len(format) = 2 /\ heap = Unpacked2(Len(got))
      BY <1>5 DEF IInv, SSLeft
    <3> QED
      BY <1>2, <3>1, <3>2
  <2>2. Len(got) \in {0, 1}
    BY <2>1
  <2>3. Free({"domain", "key"}) /\ step' = "response"
    BY <1>1, <1>5 DEF GivesUp
  <2>4. heap \in {Unpacked2(0), Unpacked2(1)}
    BY <2>1, <2>2
  <2>5. /\ heap["domain"] = (IF Len(got) = 1 THEN "held" ELSE "none")
        /\ heap["key"] = "none" /\ heap["value"] = "none"
    <3>1. CASE Len(got) = 0
      BY <2>1, <3>1 DEF Unpacked2, Held, Memory
    <3>2. CASE Len(got) = 1
      BY <2>1, <3>2 DEF Unpacked2, Held, Memory
    <3> QED
      BY <2>2, <3>1, <3>2
  <2>6. /\ heap' \in [Memory -> {"none", "held", "freed", "freed twice"}]
        /\ heap'["domain"] = (IF Len(got) = 1 THEN "freed" ELSE "none")
        /\ heap'["key"] = "none" /\ heap'["value"] = "none"
    BY <2>3, <2>4, <2>5, FreeHeld
  <2>7. ResponseLeft'
    BY <1>3, <2>2, <2>6 DEF ResponseLeft, Nothing, Memory
  <2> QED
    BY <1>3, <1>5, <2>3, <2>6, <2>7 DEF IInv, FreedOnce
<1>6. CASE message.to = "server" /\ step = "value"
  <2>1. heap = Unpacked2(2)
    BY <1>2, <1>6 DEF IInv, ValueLeft
  <2>2. Free({"domain", "key"}) /\ step' = "done"
    BY <1>1, <1>6 DEF GivesUp
  <2>3. heap["domain"] = "held" /\ heap["key"] = "held" /\ heap["value"] = "none"
    BY <2>1 DEF Unpacked2, Held, Memory
  <2>4. /\ heap' \in [Memory -> {"none", "held", "freed", "freed twice"}]
        /\ heap'["domain"] = "freed" /\ heap'["key"] = "freed" /\ heap'["value"] = "none"
    BY <2>1, <2>2, <2>3, FreeHeld
  <2> QED
    BY <1>3, <1>6, <2>2, <2>4 DEF IInv, FreedOnce
<1> QED
  BY <1>2, <1>4, <1>5, <1>6

\* An empty "ss" is two strings; nobody else has memory to free.
LEMMA UnpacksKeeps ==
    ASSUME IInv, Unpacks
    PROVE  IInv'
<1>1. /\ step = "unpack" /\ format = <<>> /\ code = "NONE"
      /\ UNCHANGED <<message, got, heap, format, type>>
  BY DEF Unpacks, Ended, IInv
<1>2. CASE message.to = "server"
  <2>1. step' = "response" /\ code' = "NONE"
    BY <1>1, <1>2 DEF Unpacks
  <2>2. Len(got) = 2 /\ heap = Unpacked2(2)
    <3>1. PICK S : got \in Seq(S)
      BY DEF IInv
    <3>2. Len(got) \in Nat /\ Len(format) = 0
      BY <1>1, <3>1
    <3>3. Len(got) + Len(format) = 2 /\ heap = Unpacked2(Len(got))
      BY <1>1, <1>2 DEF IInv, SSLeft
    <3>4. Len(got) = 2
      <4>1. Len(got) + 0 = 2
        BY <3>2, <3>3
      <4> QED
        BY <3>2, <4>1, Two
    <3> QED
      BY <3>3, <3>4
  <2> QED
    BY <1>1, <1>2, <2>1, <2>2 DEF IInv, FreedOnce, ResponseLeft
<1>3. CASE message.to # "server"
  <2>1. step' = "done" /\ heap = Nothing
    BY <1>1, <1>3 DEF Unpacks, Ends, IInv
  <2> QED
    BY <1>1, <2>1, NothingKeeps
<1> QED
  BY <1>2, <1>3

\* What ResponseLeft says of each piece of memory.
LEMMA ResponseHeap ==
    ASSUME ResponseLeft
    PROVE  /\ heap \in [Memory -> {"none", "held", "freed"}] /\ heap["value"] = "none"
           /\ code = "NONE" => Len(got) = 2 /\ heap = Unpacked2(2)
           /\ code = "NONE" => heap["domain"] = "held" /\ heap["key"] = "held"
           /\ code # "NONE" => heap["key"] = "none" /\ heap["domain"] \in {"none", "freed"}
           /\ code # "NONE" /\ heap["domain"] = "freed" => Len(got) = 1
<1>1. CASE code = "NONE" /\ Len(got) = 2 /\ heap = Unpacked2(2)
  BY <1>1 DEF Unpacked2, Held, Memory
<1>2. CASE code # "NONE" /\ Len(got) = 0 /\ heap = Nothing
  BY <1>2 DEF Nothing, Memory
<1>3. CASE code # "NONE" /\ Len(got) = 1 /\ heap = [Nothing EXCEPT !["domain"] = "freed"]
  BY <1>3 DEF Nothing, Memory
<1> QED
  BY <1>1, <1>2, <1>3 DEF ResponseLeft

LEMMA DispatchKeeps ==
    ASSUME IInv, Dispatch
    PROVE  IInv'
<1>1. step = "response" /\ message.to = "server" /\ ResponseLeft
      /\ UNCHANGED <<message, got, heap, type, code, faulted>>
  BY DEF Dispatch, IInv
<1>2. CASE code = "NONE"
  <2>1. step' = "value" /\ format' = ServerFormat(type)
    BY <1>2 DEF Dispatch
  <2> QED
    BY <1>1, <1>2, <2>1, ResponseHeap DEF IInv, FreedOnce, ValueLeft
<1>3. CASE code # "NONE"
  <2>1. step' = "done"
    BY <1>3 DEF Dispatch
  <2> QED
    BY <1>1, <1>3, <2>1, ResponseHeap DEF IInv, FreedOnce
<1> QED
  BY <1>2, <1>3

\* The way out that frees the domain again.
LEMMA DispatchFailsKeeps ==
    ASSUME IInv, DispatchFails
    PROVE  IInv'
<1>1. step = "response" /\ message.to = "server" /\ ResponseLeft
      /\ step' = "done" /\ faulted' = TRUE /\ Free({"domain", "key"})
      /\ UNCHANGED <<message, got, type>>
  BY DEF DispatchFails, IInv, Ends, Fault
<1>2. /\ heap' \in [Memory -> {"none", "held", "freed", "freed twice"}]
      /\ heap'["domain"] \in {"none", "freed", "freed twice"}
      /\ heap'["domain"] = "freed twice" => Len(got) = 1
      /\ heap'["key"] \in {"none", "freed"} /\ heap'["value"] = "none"
  BY <1>1, ResponseHeap DEF Free, Memory
<1> QED
  BY <1>1, <1>2 DEF IInv, FreedOnce

\* What ValueLeft says when nothing is left to unpack.
LEMMA ServeKeeps ==
    ASSUME IInv, Serve
    PROVE  IInv'
<1>1. /\ step = "value" /\ format = <<>> /\ message.to = "server" /\ ValueLeft
      /\ step' = "done" /\ UNCHANGED <<message, got, type>>
  BY DEF Serve, Ended, Ends, IInv
<1>2. heap \in {Unpacked2(2), Held(Memory)}
  BY <1>1 DEF ValueLeft
<1>3. heap["value"] \in {"none", "held"} /\ heap["domain"] = "held" /\ heap["key"] = "held"
  BY <1>2 DEF Unpacked2, Held, Memory
<1>4. heap["value"] = "held" => type \in {"SET_STRING", "SET_BLOB"}
  <2>1. Unpacked2(2)["value"] = "none"
    BY DEF Unpacked2, Held, Memory
  <2> QED
    BY <1>1, <2>1 DEF ValueLeft
<1>5. PICK names \in {{"domain", "key"}, Memory} :
        /\ Free(names)
        /\ heap["value"] = "held" /\ names # Memory => code' = "REFUSED"
  <2>1. heap["value"] = "held" => type \in Requests /\ type # "SHUTDOWN"
    BY <1>4 DEF Requests
  <2> QED
    BY <2>1 DEF Serve, Ends, Memory
<1>6. /\ heap' \in [Memory -> {"none", "held", "freed", "freed twice"}]
      /\ heap'["domain"] = "freed" /\ heap'["key"] = "freed"
      /\ heap'["value"] = IF heap["value"] = "none" THEN "none"
                          ELSE IF names = Memory THEN "freed" ELSE "held"
  BY <1>2, <1>3, <1>5, FreeHeld
<1> QED
  BY <1>1, <1>3, <1>4, <1>5, <1>6 DEF IInv, FreedOnce

LEMMA StutterKeeps ==
    ASSUME IInv, UNCHANGED vars
    PROVE  IInv'
BY DEF IInv, vars, FreedOnce, SSLeft, ResponseLeft, ValueLeft

LEMMA NextKeeps ==
    ASSUME IInv, [Next]_vars
    PROVE  IInv'
<1>1. CASE ComposeAny \/ Stamp \/ Pack \/ Send \/ Cut \/ Change
  BY <1>1, BeforeKeeps
<1>2. CASE Switch \/ InvalidFormat
  BY <1>2, SwitchKeeps
<1>3. CASE PackFails
  BY <1>3, PackFailsKeeps
<1>4. CASE Receive \/ ReceiveFails
  BY <1>4, ReceiveKeeps
<1>5. CASE ReadType \/ ReadNoType
  BY <1>5, ReadTypeKeeps
<1>6. CASE Unpack
  BY <1>6, UnpackKeeps
<1>7. CASE UnpackRefused \/ UnpackFails
  BY <1>7, GivesUpKeeps
<1>8. CASE Unpacks
  BY <1>8, UnpacksKeeps
<1>9. CASE Dispatch
  BY <1>9, DispatchKeeps
<1>10. CASE DispatchFails
  BY <1>10, DispatchFailsKeeps
<1>11. CASE Serve
  BY <1>11, ServeKeeps
<1>12. CASE UNCHANGED vars
  BY <1>12, StutterKeeps
<1> QED
  BY <1>1, <1>2, <1>3, <1>4, <1>5, <1>6, <1>7, <1>8, <1>9, <1>10, <1>11, <1>12
     DEF Next, PackStep, UnpackStep, Failure, Done

----------------------------------------------------------------------------
\* At each step of server_process, whatever bytes arrived and whichever allocation failed,
\* exactly the strings and blobs it has unpacked are allocated (server.c:69-97, 112-245).
THEOREM PacketsInvariant == Spec => []IInv
<1>1. Init => IInv
  BY InitHolds
<1>2. IInv /\ [Next]_vars => IInv'
  BY NextKeeps
<1> QED
  BY <1>1, <1>2, PTL DEF Spec

\* server_process frees what bunpack allocated for it exactly once, with the two exceptions
\* that FreedOnce names (server.c:69-97, 166, 194), for messages of any length and values.
THEOREM PacketsFreedOnce == Spec => []FreedOnce
<1>1. IInv => FreedOnce
  BY DEF IInv
<1> QED
  BY <1>1, PacketsInvariant, PTL

----------------------------------------------------------------------------
(* Formats, and the bytes that bpack makes of one. *)

\* The sequence t goes on where s ends.
Extends(s, t) == Len(s) <= Len(t) /\ \A i \in 1 .. Len(s) : t[i] = s[i]

LEMMA Growing ==
    ASSUME NEW S, NEW n \in Nat, NEW f \in [0 .. n -> Seq(S)],
           \A p \in 1 .. n : Extends(f[p - 1], f[p])
    PROVE  \A q \in 0 .. n : \A p \in 0 .. q : Extends(f[p], f[q])
<1> DEFINE Q == {q \in 0 .. n : \A p \in 0 .. q : Extends(f[p], f[q])}
<1>1. \A p \in 0 .. n : Extends(f[p], f[p])
  BY DEF Extends
<1>2. 0 \in Q
  <2>1. 0 \in 0 .. n /\ \A p \in 0 .. 0 : p = 0
    OBVIOUS
  <2> QED
    BY <1>1, <2>1
<1>3. ASSUME NEW q \in 0 .. n - 1, q \in Q PROVE q + 1 \in Q
  <2>1. q + 1 \in 1 .. n /\ q + 1 \in 0 .. n /\ (q + 1) - 1 = q /\ q \in 0 .. n
    OBVIOUS
  <2>2. Extends(f[q], f[q + 1])
    BY <2>1
  <2>3. ASSUME NEW p \in 0 .. q PROVE Extends(f[p], f[q + 1])
    <3>1. Extends(f[p], f[q]) /\ p \in 0 .. n
      BY <1>3, <2>1
    <3>2. f[p] \in Seq(S) /\ f[q] \in Seq(S) /\ f[q + 1] \in Seq(S)
      BY <2>1, <3>1
    <3>3. Len(f[p]) \in Nat /\ Len(f[q]) \in Nat /\ Len(f[q + 1]) \in Nat
      BY <3>2
    <3>4. \A i \in 1 .. Len(f[p]) : i \in 1 .. Len(f[q])
      BY <3>1, <3>3 DEF Extends
    <3> QED
      BY <2>2, <3>1, <3>3, <3>4 DEF Extends
  <2>4. \A p \in 0 .. q + 1 : p \in 0 .. q \/ p = q + 1
    BY <2>1
  <2> QED
    BY <1>1, <2>1, <2>3, <2>4
<1> HIDE DEF Q
<1>4. 0 .. n \subseteq Q
  BY <1>2, <1>3, BoundedInduction
<1> QED
  BY <1>4 DEF Q

\* The items of the first p characters of a format.
Collects(layout, items) ==
    /\ items \in [0 .. Len(layout) -> Seq(Items)] /\ items[0] = <<>>
    /\ \A p \in 1 .. Len(layout) :
        items[p] = IF layout[p] \in Items THEN Append(items[p - 1], layout[p]) ELSE items[p - 1]

LEMMA ItemsOfCollects ==
    ASSUME NEW layout \in Seq(Characters)
    PROVE  \E items : Collects(layout, items) /\ ItemsOf(layout) = items[Len(layout)]
<1> DEFINE n == Len(layout)
           Is(g) == g = [i \in 0 .. n |->
                            IF i = 0 THEN <<>>
                            ELSE IF layout[i] \in Items THEN Append(g[i - 1], layout[i])
                            ELSE g[i - 1]]
           upTo == CHOOSE g : Is(g)
           next == [i \in Nat |-> [s \in Seq(Items) |->
                        IF i < n /\ layout[i + 1] \in Items THEN Append(s, layout[i + 1]) ELSE s]]
<1>1. ItemsOf(layout) = upTo[n]
  BY DEF ItemsOf
<1>2. n \in Nat
  OBVIOUS
<1> HIDE DEF n
<1>3. PICK f : Recurses(f, Seq(Items), <<>>, next)
  <2>1. next \in [Nat -> [Seq(Items) -> Seq(Items)]]
    <3>1. ASSUME NEW i \in Nat, NEW s \in Seq(Items), layout[i + 1] \in Items
          PROVE  Append(s, layout[i + 1]) \in Seq(Items)
      BY <3>1
    <3> QED
      BY <3>1
  <2>2. <<>> \in Seq(Items)
    OBVIOUS
  <2> HIDE DEF next
  <2> QED
    BY <2>1, <2>2, Recursion, Zenon
<1> DEFINE g == [i \in 0 .. n |-> f[i]]
<1>4. Is(g)
  <2>1. ASSUME NEW i \in 0 .. n
        PROVE  g[i] = IF i = 0 THEN <<>>
                      ELSE IF layout[i] \in Items THEN Append(g[i - 1], layout[i])
                      ELSE g[i - 1]
    <3>1. CASE i = 0
      BY <1>3, <3>1 DEF Recurses
    <3>2. CASE i # 0
      <4>1. i - 1 \in Nat /\ (i - 1) + 1 = i /\ i - 1 < n /\ i - 1 \in 0 .. n
        BY <1>2, <3>2
      <4>2. f[(i - 1) + 1] = next[i - 1][f[i - 1]] /\ f[i - 1] \in Seq(Items)
        BY <1>3, <4>1 DEF Recurses
      <4>3. next[i - 1][f[i - 1]] =
                IF layout[i] \in Items THEN Append(f[i - 1], layout[i]) ELSE f[i - 1]
        BY <4>1, <4>2
      <4> QED
        BY <3>2, <4>1, <4>2, <4>3
    <3> QED
      BY <1>3, <3>1, <3>2
  <2> QED
    BY <2>1
<1>5. Is(upTo)
  <2> HIDE DEF Is, g
  <2> QED
    BY <1>4
<1> HIDE DEF upTo
<1>6. \A i \in 0 .. n : upTo[i] = IF i = 0 THEN <<>>
                      ELSE IF layout[i] \in Items THEN Append(upTo[i - 1], layout[i])
                      ELSE upTo[i - 1]
  BY <1>5
<1>7. upTo[0] = <<>> /\ 0 \in 0 .. n
  BY <1>2, <1>6
<1> DEFINE Q == {i \in 0 .. n : upTo[i] \in Seq(Items)}
<1>8. 0 .. n \subseteq Q
  <2>1. 0 \in Q
    <3>1. <<>> \in Seq(Items)
      OBVIOUS
    <3> QED
      BY <1>7, <3>1, Zenon
  <2>2. ASSUME NEW i \in 0 .. n - 1, i \in Q PROVE i + 1 \in Q
    <3>0. upTo[i] \in Seq(Items)
      BY <2>2
    <3>1. i + 1 \in 0 .. n /\ i + 1 # 0 /\ (i + 1) - 1 = i
      BY <1>2
    <3>2. upTo[i + 1] = IF layout[i + 1] \in Items THEN Append(upTo[i], layout[i + 1]) ELSE upTo[i]
      BY <1>6, <3>1
    <3>3. \A t \in Seq(Items), e \in Items : Append(t, e) \in Seq(Items)
      OBVIOUS
    <3>4. upTo[i + 1] \in Seq(Items)
      BY <3>0, <3>2, <3>3, Zenon
    <3> QED
      BY <3>1, <3>4, Zenon
  <2> HIDE DEF Q
  <2> QED
    BY <1>2, <2>1, <2>2, BoundedInduction
<1>9. upTo \in [0 .. n -> Seq(Items)]
  <2>1. \A i \in 0 .. n : upTo[i] \in Seq(Items)
    BY <1>8
  <2> QED
    BY <1>5, <2>1
<1>10. \A p \in 1 .. n : upTo[p] = IF layout[p] \in Items THEN Append(upTo[p - 1], layout[p])
                                   ELSE upTo[p - 1]
  <2>1. \A p \in 1 .. n : p \in 0 .. n /\ p # 0
    BY <1>2
  <2> QED
    BY <1>6, <2>1
<1>11. Collects(layout, upTo)
  BY <1>7, <1>9, <1>10 DEF Collects, n
<1> QED
  BY <1>1, <1>11 DEF n

LEMMA CollectsExtends ==
    ASSUME NEW layout \in Seq(Characters), NEW items, Collects(layout, items)
    PROVE  \A q \in 0 .. Len(layout) : \A p \in 0 .. q : Extends(items[p], items[q])
<1>1. Len(layout) \in Nat /\ items \in [0 .. Len(layout) -> Seq(Items)]
  BY DEF Collects
<1>2. ASSUME NEW p \in 1 .. Len(layout) PROVE Extends(items[p - 1], items[p])
  <2>1. p - 1 \in 0 .. Len(layout) /\ items[p - 1] \in Seq(Items)
    BY <1>1
  <2>2. \A s \in Seq(Items), e \in Items : Extends(s, s) /\ Extends(s, Append(s, e))
    BY DEF Extends
  <2>3. items[p] = IF layout[p] \in Items THEN Append(items[p - 1], layout[p]) ELSE items[p - 1]
    BY DEF Collects
  <2>4. CASE layout[p] \in Items
    <3>1. items[p] = Append(items[p - 1], layout[p])
      BY <2>3, <2>4
    <3> QED
      BY <2>1, <2>2, <2>4, <3>1
  <2>5. CASE layout[p] \notin Items
    <3>1. items[p] = items[p - 1]
      BY <2>3, <2>5
    <3>2. Extends(items[p - 1], items[p - 1])
      BY <2>1 DEF Extends
    <3> QED
      BY <3>1, <3>2
  <2> QED
    BY <2>4, <2>5
<1> QED
  BY <1>1, <1>2, Growing

\* A format without switches is its items.
LEMMA ItemsOfItems ==
    ASSUME NEW layout \in Seq(Items)
    PROVE  /\ layout \in Seq(Characters) /\ ItemsOf(layout) = layout
           /\ \A items : Collects(layout, items) =>
                \A p \in 0 .. Len(layout) : Len(items[p]) = p
<1>1. Items \subseteq Characters
  BY DEF Characters
<1>2. layout \in Seq(Characters)
  BY <1>1, SeqMonotonic
<1>3. ASSUME NEW items, Collects(layout, items)
      PROVE  \A p \in 0 .. Len(layout) :
                Len(items[p]) = p /\ \A i \in 1 .. p : items[p][i] = layout[i]
  <2> DEFINE n == Len(layout)
             Q == {p \in 0 .. n : Len(items[p]) = p /\ \A i \in 1 .. p : items[p][i] = layout[i]}
  <2>1. n \in Nat /\ items \in [0 .. n -> Seq(Items)] /\ items[0] = <<>>
    BY <1>3 DEF Collects
  <2>2. 0 \in Q
    BY <2>1
  <2>3. ASSUME NEW p \in 0 .. n - 1, p \in Q PROVE p + 1 \in Q
    <3>1. p + 1 \in 1 .. n /\ p + 1 \in 0 .. n /\ (p + 1) - 1 = p /\ p \in 0 .. n
      BY <2>1
    <3>2. items[p + 1] = Append(items[p], layout[p + 1]) /\ layout[p + 1] \in Items
      <4>1. layout[p + 1] \in Items
        BY <3>1
      <4> QED
        BY <1>3, <3>1, <4>1 DEF Collects
    <3>3. items[p] \in Seq(Items) /\ Len(items[p]) = p
      BY <2>1, <2>3, <3>1
    <3>4. Len(items[p + 1]) = p + 1 /\ items[p + 1][p + 1] = layout[p + 1]
          /\ \A i \in 1 .. p : items[p + 1][i] = items[p][i]
      BY <3>2, <3>3
    <3>5. \A i \in 1 .. p + 1 : i \in 1 .. p \/ i = p + 1
      BY <3>1
    <3>6. \A i \in 1 .. p : items[p][i] = layout[i]
      BY <2>3
    <3>7. \A i \in 1 .. p + 1 : items[p + 1][i] = layout[i]
      BY <3>4, <3>5, <3>6
    <3> QED
      BY <3>1, <3>4, <3>7
  <2> HIDE DEF Q
  <2>4. 0 .. n \subseteq Q
    BY <2>1, <2>2, <2>3, BoundedInduction
  <2> QED
    BY <2>4 DEF Q
<1>4. PICK items : Collects(layout, items) /\ ItemsOf(layout) = items[Len(layout)]
  BY <1>2, ItemsOfCollects
<1>5. Len(layout) \in 0 .. Len(layout)
  OBVIOUS
<1>6. items[Len(layout)] \in Seq(Items)
  BY <1>4, <1>5 DEF Collects
<1>7. Len(items[Len(layout)]) = Len(layout)
      /\ \A i \in 1 .. Len(layout) : items[Len(layout)][i] = layout[i]
  BY <1>3, <1>4, <1>5
<1>8. items[Len(layout)] = layout
  BY <1>6, <1>7, SeqEqual
<1> QED
  BY <1>2, <1>3, <1>4, <1>8

\* Integers, doubles, strings and blobs.
Payload == Int64 \cup Double \cup Values("b")

\* A value for each item of a format, of the item's type.
Fits(layout, values) ==
    /\ layout \in Seq(Characters) /\ values \in Seq(Payload)
    /\ Len(values) = Len(ItemsOf(layout))
    /\ \A i \in 1 .. Len(values) : values[i] \in Values(ItemsOf(layout)[i])

\* bpack with a format and its values: the items, the byte order and the bytes after each
\* character of the format, of a buffer that starts with `first`.
Packs(layout, values, first, items, order, bytes) ==
    /\ Collects(layout, items) /\ ItemsOf(layout) = items[Len(layout)]
    /\ order \in [0 .. Len(layout) -> BOOLEAN] /\ order[0]
    /\ \A p \in 1 .. Len(layout) :
        order[p] <=> IF layout[p] \in Switches THEN layout[p] = "<" ELSE order[p - 1]
    /\ bytes \in [0 .. Len(layout) -> Seq(Byte)] /\ bytes[0] = first
    /\ \A p \in 1 .. Len(layout) :
        bytes[p] = IF layout[p] \in Items
                   THEN bytes[p - 1] \o Packed(layout[p], values[Len(items[p])], order[p - 1])
                   ELSE bytes[p - 1]

\* The value of the item at a place of the format.
LEMMA ItemAt ==
    ASSUME NEW layout, NEW values, Fits(layout, values), NEW items, Collects(layout, items),
           ItemsOf(layout) = items[Len(layout)],
           NEW p \in 1 .. Len(layout), layout[p] \in Items
    PROVE  /\ Len(items[p - 1]) \in Nat /\ Len(items[p]) = Len(items[p - 1]) + 1
           /\ Len(items[p]) \in 1 .. Len(values)
           /\ ItemsOf(layout)[Len(items[p])] = layout[p]
           /\ values[Len(items[p])] \in Values(layout[p])
<1> DEFINE n == Len(layout)
<1>1. layout \in Seq(Characters) /\ n \in Nat /\ p - 1 \in 0 .. n /\ p \in 0 .. n /\ n \in 0 .. n
  BY DEF Fits
<1>2. items[p - 1] \in Seq(Items) /\ items[n] \in Seq(Items)
      /\ items[p] = Append(items[p - 1], layout[p])
  BY <1>1 DEF Collects
<1>3. /\ Len(items[p - 1]) \in Nat /\ Len(items[p]) = Len(items[p - 1]) + 1
      /\ items[p][Len(items[p])] = layout[p]
  BY <1>2
<1>4. Extends(items[p], items[n])
  <2>1. p \in 0 .. n
    BY <1>1
  <2> QED
    BY <1>1, <2>1, CollectsExtends
<1>5. Len(items[p]) \in 1 .. Len(values)
  <2>1. Len(items[p]) <= Len(items[n]) /\ Len(values) = Len(items[n])
    BY <1>4 DEF Extends, Fits
  <2>2. Len(items[n]) \in Nat
    BY <1>2
  <2> QED
    BY <1>3, <2>1, <2>2
<1>6. items[n][Len(items[p])] = layout[p]
  <2>1. Len(items[p]) \in 1 .. Len(items[p])
    BY <1>3
  <2> QED
    BY <1>3, <1>4, <2>1 DEF Extends
<1> QED
  BY <1>3, <1>5, <1>6 DEF Fits

LEMMA PacksExist ==
    ASSUME NEW layout, NEW values, Fits(layout, values), NEW first \in Seq(Byte)
    PROVE  \E items, order, bytes : Packs(layout, values, first, items, order, bytes)
<1> DEFINE n == Len(layout)
<1>1. layout \in Seq(Characters) /\ n \in Nat
  BY DEF Fits
<1>2. PICK items : Collects(layout, items) /\ ItemsOf(layout) = items[n]
  BY <1>1, ItemsOfCollects
<1> HIDE DEF n
<1> DEFINE turn == [i \in Nat |-> [b \in BOOLEAN |->
                        IF i < n /\ layout[i + 1] \in Switches THEN layout[i + 1] = "<" ELSE b]]
<1>3. PICK f : Recurses(f, BOOLEAN, TRUE, turn)
  <2>1. turn \in [Nat -> [BOOLEAN -> BOOLEAN]]
    OBVIOUS
  <2>2. TRUE \in BOOLEAN
    OBVIOUS
  <2> HIDE DEF turn
  <2> QED
    BY <2>1, <2>2, Recursion, Zenon
<1> DEFINE order == [p \in 0 .. n |-> f[p]]
<1>4. order \in [0 .. n -> BOOLEAN] /\ order[0]
  <2>1. f \in [Nat -> BOOLEAN] /\ f[0] = TRUE
    BY <1>3 DEF Recurses
  <2>2. 0 .. n \subseteq Nat /\ 0 \in 0 .. n
    BY <1>1
  <2> QED
    BY <2>1, <2>2
<1>5. ASSUME NEW p \in 1 .. n
      PROVE  order[p] <=> IF layout[p] \in Switches THEN layout[p] = "<" ELSE order[p - 1]
  <2>1. p - 1 \in Nat /\ (p - 1) + 1 = p /\ p - 1 < n /\ p - 1 \in 0 .. n /\ p \in 0 .. n
    BY <1>1
  <2>2. f[(p - 1) + 1] = turn[p - 1][f[p - 1]] /\ f[p - 1] \in BOOLEAN
    BY <1>3, <2>1 DEF Recurses
  <2>3. turn[p - 1][f[p - 1]] =
            IF p - 1 < n /\ layout[(p - 1) + 1] \in Switches
            THEN layout[(p - 1) + 1] = "<" ELSE f[p - 1]
    BY <2>1, <2>2, Zenon
  <2>4. order[p] = f[p] /\ order[p - 1] = f[p - 1]
    BY <2>1
  <2> HIDE DEF turn, order
  <2> QED
    BY <2>1, <2>2, <2>3, <2>4
<1> HIDE DEF order
<1> DEFINE Part(p) == Packed(layout[p], values[Len(items[p])], order[p - 1])
<1>6. ASSUME NEW p \in 1 .. n, layout[p] \in Items PROVE Part(p) \in Seq(Byte)
  <2>1. values[Len(items[p])] \in Values(layout[p])
    BY <1>2, <1>6, ItemAt DEF n
  <2>2. order[p - 1] \in BOOLEAN
    BY <1>1, <1>4
  <2> QED
    BY <1>6, <2>1, <2>2, PackedType
<1> HIDE DEF Part
<1> DEFINE next == [i \in Nat |-> [s \in Seq(Byte) |->
                        IF i < n /\ layout[i + 1] \in Items THEN s \o Part(i + 1) ELSE s]]
<1>7. PICK g : Recurses(g, Seq(Byte), first, next)
  <2>1. next \in [Nat -> [Seq(Byte) -> Seq(Byte)]]
    <3>1. ASSUME NEW i \in Nat, NEW s \in Seq(Byte), i < n, layout[i + 1] \in Items
          PROVE  s \o Part(i + 1) \in Seq(Byte)
      <4>1. i + 1 \in 1 .. n
        BY <1>1, <3>1
      <4>2. Part(i + 1) \in Seq(Byte)
        BY <1>6, <3>1, <4>1
      <4> QED
        BY <4>2, ConcatProperties
    <3> QED
      BY <3>1
  <2> HIDE DEF next
  <2> QED
    BY <2>1, Recursion, Zenon
<1> DEFINE bytes == [p \in 0 .. n |-> g[p]]
<1>8. bytes \in [0 .. n -> Seq(Byte)] /\ bytes[0] = first
  <2>1. g \in [Nat -> Seq(Byte)] /\ g[0] = first
    BY <1>7 DEF Recurses
  <2>2. 0 .. n \subseteq Nat /\ 0 \in 0 .. n
    BY <1>1
  <2> QED
    BY <2>1, <2>2
<1>9. ASSUME NEW p \in 1 .. n
      PROVE  bytes[p] = IF layout[p] \in Items THEN bytes[p - 1] \o Part(p) ELSE bytes[p - 1]
  <2>1. p - 1 \in Nat /\ (p - 1) + 1 = p /\ p - 1 < n /\ p - 1 \in 0 .. n /\ p \in 0 .. n
    BY <1>1
  <2>2. g[(p - 1) + 1] = next[p - 1][g[p - 1]] /\ g[p - 1] \in Seq(Byte)
    BY <1>7, <2>1 DEF Recurses
  <2>3. next[p - 1][g[p - 1]] =
            IF p - 1 < n /\ layout[(p - 1) + 1] \in Items
            THEN g[p - 1] \o Part((p - 1) + 1) ELSE g[p - 1]
    BY <2>1, <2>2, Zenon
  <2>4. bytes[p] = g[p] /\ bytes[p - 1] = g[p - 1]
    BY <2>1
  <2> HIDE DEF next, bytes
  <2> QED
    BY <2>1, <2>2, <2>3, <2>4
<1> HIDE DEF bytes
<1>10. Packs(layout, values, first, items, order, bytes)
  BY <1>2, <1>4, <1>5, <1>8, <1>9 DEF Packs, Part, n
<1> QED
  BY <1>10

\* The q-th character is an item: its value, and the bytes it adds.
OneItemMore(layout, values, items, order, bytes, q) ==
    /\ values[Len(items[q])] \in Values(layout[q]) /\ Len(items[q]) \in 1 .. Len(values)
    /\ Len(items[q - 1]) \in Nat /\ Len(items[q]) = Len(items[q - 1]) + 1
    /\ ItemsOf(layout)[Len(items[q])] = layout[q]
    /\ bytes[q - 1] \in Seq(Byte) /\ order[q - 1] \in BOOLEAN
    /\ bytes[q] = bytes[q - 1] \o Packed(layout[q], values[Len(items[q])], order[q - 1])
    /\ order[q] = order[q - 1]

LEMMA PacksItem ==
    ASSUME NEW layout, NEW values, Fits(layout, values), NEW first, NEW items, NEW order, NEW bytes,
           Packs(layout, values, first, items, order, bytes),
           NEW q \in 1 .. Len(layout), layout[q] \in Items
    PROVE  OneItemMore(layout, values, items, order, bytes, q)
<1>1. Len(layout) \in Nat
  BY DEF Fits
<1>2. q - 1 \in 0 .. Len(layout) /\ q \in 0 .. Len(layout)
  BY <1>1
<1>3. /\ Collects(layout, items) /\ ItemsOf(layout) = items[Len(layout)]
      /\ bytes[q - 1] \in Seq(Byte) /\ order[q - 1] \in BOOLEAN /\ order[q] \in BOOLEAN
  BY <1>2 DEF Packs
<1>4. /\ Len(items[q - 1]) \in Nat /\ Len(items[q]) = Len(items[q - 1]) + 1
      /\ Len(items[q]) \in 1 .. Len(values)
      /\ ItemsOf(layout)[Len(items[q])] = layout[q]
      /\ values[Len(items[q])] \in Values(layout[q])
  BY <1>3, ItemAt
<1>5. bytes[q] = bytes[q - 1] \o Packed(layout[q], values[Len(items[q])], order[q - 1])
  BY DEF Packs
<1>6. order[q] <=> order[q - 1]
  <2>1. layout[q] \notin Switches
    BY DEF Items, Switches
  <2> QED
    BY <2>1 DEF Packs
<1> QED
  BY <1>2, <1>3, <1>4, <1>5, <1>6 DEF OneItemMore

\* A switch adds nothing.
LEMMA PacksSwitch ==
    ASSUME NEW layout, NEW values, Fits(layout, values), NEW first, NEW items, NEW order, NEW bytes,
           Packs(layout, values, first, items, order, bytes),
           NEW q \in 1 .. Len(layout), layout[q] \in Switches
    PROVE  /\ items[q] = items[q - 1] /\ bytes[q] = bytes[q - 1]
           /\ order[q] <=> layout[q] = "<"
<1>1. layout[q] \notin Items
  BY DEF Items, Switches
<1> QED
  BY <1>1 DEF Packs, Collects

LEMMA PacksExtends ==
    ASSUME NEW layout, NEW values, Fits(layout, values), NEW first, NEW items, NEW order, NEW bytes,
           Packs(layout, values, first, items, order, bytes)
    PROVE  \A q \in 0 .. Len(layout) : \A p \in 0 .. q : Extends(bytes[p], bytes[q])
<1>1. Len(layout) \in Nat /\ bytes \in [0 .. Len(layout) -> Seq(Byte)]
  BY DEF Fits, Packs
<1>2. ASSUME NEW p \in 1 .. Len(layout) PROVE Extends(bytes[p - 1], bytes[p])
  <2>1. p - 1 \in 0 .. Len(layout) /\ bytes[p - 1] \in Seq(Byte)
        /\ p - 1 \in 0 .. Len(layout) - 1 /\ (p - 1) + 1 = p
    BY <1>1
  <2>2. CASE layout[p] \in Items
    <3> DEFINE part == Packed(layout[p], values[Len(items[p])], order[p - 1])
    <3>1. bytes[p] = bytes[p - 1] \o part
      BY <2>2 DEF Packs
    <3>2. part \in Seq(Byte)
      <4>1. values[Len(items[p])] \in Values(layout[p])
        BY <2>2, ItemAt DEF Packs
      <4>2. order[p - 1] \in BOOLEAN
        BY <2>1 DEF Packs
      <4> QED
        BY <2>2, <4>1, <4>2, PackedType
    <3> HIDE DEF part
    <3> QED
      BY <2>1, <3>1, <3>2 DEF Extends
  <2>3. CASE layout[p] \notin Items
    <3>1. bytes[p] = bytes[p - 1]
      BY <2>3 DEF Packs
    <3> QED
      BY <2>1, <3>1 DEF Extends
  <2> QED
    BY <2>2, <2>3
<1> QED
  BY <1>1, <1>2, Growing

----------------------------------------------------------------------------
(* Messages. *)

\* What is in the buffer before the first item: the packet type.
Start(m) == IF m.to = "application" THEN <<>> ELSE <<Number(m.type)>>

\* The list of keys follows their number if there is one.
KeysFormat(m) ==
    \/ m.format = <<"l">> /\ ~(m.values[1] > 0)
    \/ m.format = <<"l", "b">> /\ m.values[1] > 0

\* A message has a value of the right type for each item of its format, and the format that
\* the other side will use.
MessageOK(m) ==
    /\ Fits(m.format, m.values)
    /\ m.to \in {"server", "client", "application"}
    /\ m.to = "application" => m.reads \in {m.format, m.format \o <<"?">>}
    /\ m.to # "application" => m.reads = m.format /\ m.format \in Seq(Items)
    /\ m.to = "server" => m.type \in Requests /\ m.format = RequestFormat(m.type)
    /\ m.to = "client" =>
        /\ m.type \in Responses \cup {"ERROR"} /\ m.type \in {"ERROR", m.expects}
        /\ m.type # "ENUM" => m.format = ClientFormat(m.type)
        /\ m.type = "ENUM" => KeysFormat(m)

LEMMA ConcatTwo ==
    ASSUME NEW a, NEW b, NEW c
    PROVE  <<a, b>> \o <<c>> = <<a, b, c>>
<1> DEFINE s == <<a, b>>
           t == <<c>>
           u == <<a, b, c>>
           S == {a, b, c}
<1>1. /\ s \in Seq(S) /\ Len(s) = 2 /\ s[1] = a /\ s[2] = b
      /\ t \in Seq(S) /\ Len(t) = 1 /\ t[1] = c
      /\ u \in Seq(S) /\ Len(u) = 3 /\ u[1] = a /\ u[2] = b /\ u[3] = c
  OBVIOUS
<1> HIDE DEF s, t, u, S
<1>2. /\ s \o t \in Seq(S) /\ Len(s \o t) = 3
      /\ \A i \in 1 .. 3 : (s \o t)[i] = IF i <= 2 THEN s[i] ELSE t[i - 2]
  <2>1. /\ s \o t \in Seq(S) /\ Len(s \o t) = Len(s) + Len(t)
        /\ \A i \in 1 .. Len(s) + Len(t) : (s \o t)[i] = IF i <= Len(s) THEN s[i] ELSE t[i - Len(s)]
    <3>1. s \in Seq(S) /\ t \in Seq(S)
      BY <1>1
    <3> QED
      BY <3>1, ConcatProperties, Zenon
  <2>2. Len(s) = 2 /\ Len(s) + Len(t) = 3
    BY <1>1
  <2>3. /\ s \o t \in Seq(S) /\ Len(s \o t) = 3
    BY <2>1, <2>2, Zenon
  <2>4. \A i \in 1 .. 3 : (s \o t)[i] = IF i <= 2 THEN s[i] ELSE t[i - 2]
    BY <2>1, <2>2, Zenon
  <2> QED
    BY <2>3, <2>4
<1>3. \A i \in 1 .. 3 : i = 1 \/ i = 2 \/ i = 3
  OBVIOUS
<1>4. \A i \in 1 .. 3 : (s \o t)[i] = u[i]
  BY <1>1, <1>2, <1>3
<1>5. s \o t = u
  BY <1>1, <1>2, <1>4, SeqEqual
<1> QED
  BY <1>5 DEF s, t, u

LEMMA PartOfTwo ==
    ASSUME NEW a, NEW b
    PROVE  SubSeq(<<a, b>>, 1, 2) = <<a, b>> /\ SubSeq(<<a, b>>, 1, 1) = <<a>>
<1> DEFINE s == <<a, b>>
           t == <<a>>
           S == {a, b}
<1>1. /\ s \in Seq(S) /\ Len(s) = 2 /\ s[1] = a /\ s[2] = b
      /\ t \in Seq(S) /\ Len(t) = 1 /\ t[1] = a
  OBVIOUS
<1> HIDE DEF s, t, S
<1>2. \A i \in 1 .. 2 : s[i] \in S
  BY <1>1
<1>3. SubSeq(s, 1, 2) = s
  BY <1>1
<1>4. /\ SubSeq(s, 1, 1) \in Seq(S) /\ Len(SubSeq(s, 1, 1)) = 1
      /\ SubSeq(s, 1, 1)[1] = s[1]
  BY <1>1, <1>2
<1>5. \A i \in 1 .. 1 : SubSeq(s, 1, 1)[i] = t[i]
  BY <1>1, <1>4
<1>6. SubSeq(s, 1, 1) = t
  BY <1>1, <1>4, <1>5, SeqEqual
<1> QED
  BY <1>3, <1>6 DEF s, t
LEMMA ValuesOfTypes ==
    /\ \A item \in Items : Values(item) \subseteq Payload
    /\ \A item \in Items : ValuesOf(item) \subseteq Values(item)
<1>1. \A item \in Items : Values(item) \subseteq Payload
  BY ValuesAre DEF Items, Payload
<1>2. \A item \in Items : ValuesOf(item) \subseteq Values(item)
  BY ValuesAssumption DEF Items, ValuesOf
<1> QED
  BY <1>1, <1>2

LEMMA FitsItems ==
    ASSUME NEW layout \in Seq(Items), NEW S, NEW values \in Seq(S), Len(values) = Len(layout),
           \A i \in 1 .. Len(layout) : values[i] \in Values(layout[i])
    PROVE  Fits(layout, values)
<1>1. layout \in Seq(Characters) /\ ItemsOf(layout) = layout
  BY ItemsOfItems
<1>2. values \in Seq(Payload)
  <2>1. \A i \in 1 .. Len(values) : values[i] \in Payload
    <3>1. \A i \in 1 .. Len(layout) : layout[i] \in Items
      OBVIOUS
    <3> QED
      BY <3>1, ValuesOfTypes
  <2> QED
    BY <2>1
<1> QED
  BY <1>1, <1>2 DEF Fits

LEMMA NoItems == Fits(<<>>, <<>>)
<1>1. <<>> \in Seq(Items) /\ Len(<<>>) = 0
  OBVIOUS
<1>2. \A i \in 1 .. Len(<<>>) : <<>>[i] \in Values(<<>>[i])
  OBVIOUS
<1> QED
  BY <1>1, <1>2, FitsItems

LEMMA OneItem ==
    ASSUME NEW item \in Items, NEW val \in Values(item)
    PROVE  <<item>> \in Seq(Items) /\ Fits(<<item>>, <<val>>)
<1>1. <<item>> \in Seq(Items) /\ Len(<<item>>) = 1 /\ <<item>>[1] = item
  OBVIOUS
<1>2. <<val>> \in Seq(Values(item)) /\ Len(<<val>>) = 1 /\ <<val>>[1] = val
  OBVIOUS
<1>3. \A i \in 1 .. Len(<<item>>) : <<val>>[i] \in Values(<<item>>[i])
  BY <1>1, <1>2
<1> QED
  BY <1>1, <1>2, <1>3, FitsItems

LEMMA TwoItems ==
    ASSUME NEW a \in Items, NEW b \in Items, NEW x \in Values(a), NEW y \in Values(b)
    PROVE  <<a, b>> \in Seq(Items) /\ Fits(<<a, b>>, <<x, y>>)
<1>1. /\ <<a, b>> \in Seq(Items) /\ Len(<<a, b>>) = 2
      /\ <<a, b>>[1] = a /\ <<a, b>>[2] = b
  OBVIOUS
<1>2. /\ <<x, y>> \in Seq(Values(a) \cup Values(b)) /\ Len(<<x, y>>) = 2
      /\ <<x, y>>[1] = x /\ <<x, y>>[2] = y
  OBVIOUS
<1>3. \A i \in 1 .. 2 : i = 1 \/ i = 2
  OBVIOUS
<1>4. \A i \in 1 .. Len(<<a, b>>) : <<x, y>>[i] \in Values(<<a, b>>[i])
  BY <1>1, <1>2, <1>3
<1> QED
  BY <1>1, <1>2, <1>4, FitsItems

LEMMA ThreeItems ==
    ASSUME NEW a \in Items, NEW b \in Items, NEW c \in Items,
           NEW x \in Values(a), NEW y \in Values(b), NEW z \in Values(c)
    PROVE  <<a, b, c>> \in Seq(Items) /\ Fits(<<a, b, c>>, <<x, y, z>>)
<1>1. /\ <<a, b, c>> \in Seq(Items) /\ Len(<<a, b, c>>) = 3
      /\ <<a, b, c>>[1] = a /\ <<a, b, c>>[2] = b /\ <<a, b, c>>[3] = c
  OBVIOUS
<1>2. /\ <<x, y, z>> \in Seq(Values(a) \cup Values(b) \cup Values(c)) /\ Len(<<x, y, z>>) = 3
      /\ <<x, y, z>>[1] = x /\ <<x, y, z>>[2] = y /\ <<x, y, z>>[3] = z
  OBVIOUS
<1>3. \A i \in 1 .. 3 : i = 1 \/ i = 2 \/ i = 3
  OBVIOUS
<1>4. \A i \in 1 .. Len(<<a, b, c>>) : <<x, y, z>>[i] \in Values(<<a, b, c>>[i])
  BY <1>1, <1>2, <1>3
<1> QED
  BY <1>1, <1>2, <1>4, FitsItems

\* A request of registry.c.
LEMMA RequestOK ==
    ASSUME ComposeRequest
    PROVE  \E m : Compose(m) /\ MessageOK(m)
<1>1. PICK t \in Requests, domain \in Strings \ {<<>>}, key \in Strings \ {<<>>} :
        \E values \in (IF t \in Setters THEN {<<v>> : v \in ValuesOf(RequestValue[t])} ELSE {<<>>}) :
            Compose([to |-> "server", type |-> t, expects |-> "none", format |-> RequestFormat(t),
                     reads |-> RequestFormat(t), values |-> <<domain, key>> \o values])
  BY DEF ComposeRequest
<1>2. PICK values \in (IF t \in Setters THEN {<<v>> : v \in ValuesOf(RequestValue[t])} ELSE {<<>>}) :
            Compose([to |-> "server", type |-> t, expects |-> "none", format |-> RequestFormat(t),
                     reads |-> RequestFormat(t), values |-> <<domain, key>> \o values])
  BY <1>1
<1>3. domain \in Values("s") /\ key \in Values("s") /\ "s" \in Items
  BY ValuesAssumption DEF Items
<1> DEFINE m == [to |-> "server", type |-> t, expects |-> "none", format |-> RequestFormat(t),
                 reads |-> RequestFormat(t), values |-> <<domain, key>> \o values]
<1>4. RequestFormat(t) \in Seq(Items) /\ Fits(RequestFormat(t), <<domain, key>> \o values)
  <2>1. CASE t \in Setters
    <3> DEFINE item == RequestValue[t]
    <3>1. item \in Items
      BY <2>1 DEF RequestValue, Setters, Items
    <3>2. RequestFormat(t) = <<"s", "s">> \o <<item>>
      BY <2>1 DEF RequestFormat
    <3> HIDE DEF item
    <3>3. PICK v \in ValuesOf(item) : values = <<v>>
      BY <2>1 DEF item
    <3>4. v \in Values(item)
      BY <3>1, ValuesOfTypes
    <3>5. RequestFormat(t) = <<"s", "s", item>> /\ <<domain, key>> \o values = <<domain, key, v>>
      BY <3>2, <3>3, ConcatTwo, Zenon
    <3> QED
      BY <1>3, <3>1, <3>4, <3>5, ThreeItems
  <2>2. CASE t \notin Setters
    <3>1. RequestFormat(t) = <<"s", "s">> \o <<>> /\ values = <<>>
      BY <2>2 DEF RequestFormat
    <3>2. RequestFormat(t) = <<"s", "s">> /\ <<domain, key>> \o values = <<domain, key>>
      BY <3>1
    <3> QED
      BY <1>3, <3>2, TwoItems
  <2> QED
    BY <2>1, <2>2
<1>5. MessageOK(m)
  BY <1>4 DEF MessageOK
<1> QED
  BY <1>2, <1>5

LEMMA ResponseFormats ==
    ASSUME NEW t \in (Responses \cup {"ERROR"}) \ {"ENUM"}
    PROVE  /\ ResponseFormat[t] = ClientFormat(t)
           /\ t = "OK" => ClientFormat(t) = <<>>
           /\ t # "OK" => \E item \in Items : ClientFormat(t) = <<item>>
  BY DEF Responses, ResponseFormat, ClientFormat, Items

\* A response of server.c.
LEMMA ResponseOK ==
    ASSUME ComposeResponse
    PROVE  \E m : Compose(m) /\ MessageOK(m)
<1>1. CASE \E t \in Responses \ {"ENUM"} :
        \E values \in (IF t = "OK" THEN {<<>>} ELSE {<<v>> : v \in ValuesOf(ResponseFormat[t][1])}) :
            Compose([to |-> "client", type |-> t, expects |-> t, format |-> ResponseFormat[t],
                     reads |-> ClientFormat(t), values |-> values])
  <2>0. PICK t \in Responses \ {"ENUM"} :
        \E values \in (IF t = "OK" THEN {<<>>} ELSE {<<v>> : v \in ValuesOf(ResponseFormat[t][1])}) :
            Compose([to |-> "client", type |-> t, expects |-> t, format |-> ResponseFormat[t],
                     reads |-> ClientFormat(t), values |-> values])
    BY <1>1
  <2>1. PICK values \in (IF t = "OK" THEN {<<>>} ELSE {<<v>> : v \in ValuesOf(ResponseFormat[t][1])}) :
            Compose([to |-> "client", type |-> t, expects |-> t, format |-> ResponseFormat[t],
                     reads |-> ClientFormat(t), values |-> values])
    BY <2>0
  <2>2. ResponseFormat[t] = ClientFormat(t)
    BY ResponseFormats
  <2>3. ClientFormat(t) \in Seq(Items) /\ Fits(ClientFormat(t), values)
    <3>1. CASE t = "OK"
      <4>1. values = <<>> /\ ClientFormat(t) = <<>> /\ <<>> \in Seq(Items)
        BY <3>1, ResponseFormats
      <4> QED
        BY <4>1, NoItems
    <3>2. CASE t # "OK"
      <4>1. PICK item \in Items : ClientFormat(t) = <<item>>
        BY <3>2, ResponseFormats
      <4>2. ResponseFormat[t][1] = item
        BY <2>2, <4>1
      <4>3. PICK v \in ValuesOf(item) : values = <<v>>
        BY <3>2, <4>2
      <4> QED
        BY <4>1, <4>3, OneItem, ValuesOfTypes
    <3> QED
      BY <3>1, <3>2
  <2> DEFINE m == [to |-> "client", type |-> t, expects |-> t, format |-> ResponseFormat[t],
                   reads |-> ClientFormat(t), values |-> values]
  <2>4. MessageOK(m)
    BY <2>2, <2>3 DEF MessageOK
  <2> QED
    BY <2>1, <2>4
<1>2. CASE \E expects \in Responses, error \in Integers64 :
        Compose([to |-> "client", type |-> "ERROR", expects |-> expects,
                 format |-> ResponseFormat["ERROR"], reads |-> ClientFormat("ERROR"),
                 values |-> <<error>>])
  <2>1. PICK expects \in Responses, error \in Integers64 :
        Compose([to |-> "client", type |-> "ERROR", expects |-> expects,
                 format |-> ResponseFormat["ERROR"], reads |-> ClientFormat("ERROR"),
                 values |-> <<error>>])
    BY <1>2
  <2>2. ResponseFormat["ERROR"] = ClientFormat("ERROR") /\ ClientFormat("ERROR") = <<"l">>
    BY ResponseFormats DEF ClientFormat, Responses
  <2>3. error \in Values("l") /\ "l" \in Items
    BY ValuesAssumption DEF Items
  <2>4. <<"l">> \in Seq(Items) /\ Fits(<<"l">>, <<error>>)
    BY <2>3, OneItem
  <2> DEFINE m == [to |-> "client", type |-> "ERROR", expects |-> expects,
                   format |-> ResponseFormat["ERROR"], reads |-> ClientFormat("ERROR"),
                   values |-> <<error>>]
  <2>5. MessageOK(m)
    BY <2>2, <2>4 DEF MessageOK
  <2> QED
    BY <2>1, <2>5
<1> QED
  BY <1>1, <1>2 DEF ComposeResponse

\* The list of keys.
LEMMA KeysOK ==
    ASSUME ComposeKeys
    PROVE  \E m : Compose(m) /\ MessageOK(m)
<1> DEFINE Message(keys, count, layout) ==
        [to |-> "client", type |-> "ENUM", expects |-> "ENUM", format |-> layout,
         reads |-> layout, values |-> SubSeq(<<count, keys>>, 1, Len(layout))]
<1>1. PICK keys \in Blobs, count \in Integers64 :
        /\ count >= 0
        /\ Compose(Message(keys, count, IF count > 0 THEN <<"l", "b">> ELSE <<"l">>))
  BY DEF ComposeKeys
<1>2. count \in Values("l") /\ keys \in Values("b") /\ "l" \in Items /\ "b" \in Items
  BY ValuesAssumption DEF Items
<1>3. CASE count > 0
  <2> DEFINE m == Message(keys, count, <<"l", "b">>)
  <2>1. SubSeq(<<count, keys>>, 1, 2) = <<count, keys>> /\ Len(<<"l", "b">>) = 2
    <3>1. Len(<<"l", "b">>) = 2
      OBVIOUS
    <3> QED
      BY <3>1, PartOfTwo
  <2>2. m.values = <<count, keys>>
    BY <2>1
  <2>3. <<"l", "b">> \in Seq(Items) /\ Fits(<<"l", "b">>, <<count, keys>>)
    BY <1>2, TwoItems
  <2>4. Compose(m)
    BY <1>1, <1>3
  <2>5. /\ m.to = "client" /\ m.type = "ENUM" /\ m.expects = "ENUM"
        /\ m.format = <<"l", "b">> /\ m.reads = <<"l", "b">>
    OBVIOUS
  <2> HIDE DEF m
  <2>6. m.values[1] = count
    BY <2>2
  <2>7. KeysFormat(m)
    BY <1>3, <2>5, <2>6 DEF KeysFormat
  <2>8. MessageOK(m)
    BY <2>2, <2>3, <2>5, <2>7 DEF MessageOK, Responses
  <2> QED
    BY <2>4, <2>8
<1>4. CASE ~(count > 0)
  <2> DEFINE m == Message(keys, count, <<"l">>)
  <2>1. SubSeq(<<count, keys>>, 1, 1) = <<count>> /\ Len(<<"l">>) = 1
    <3>1. Len(<<"l">>) = 1
      OBVIOUS
    <3> QED
      BY <3>1, PartOfTwo
  <2>2. m.values = <<count>>
    BY <2>1
  <2>3. <<"l">> \in Seq(Items) /\ Fits(<<"l">>, <<count>>)
    BY <1>2, OneItem
  <2>4. Compose(m)
    BY <1>1, <1>4
  <2>5. /\ m.to = "client" /\ m.type = "ENUM" /\ m.expects = "ENUM"
        /\ m.format = <<"l">> /\ m.reads = <<"l">>
    OBVIOUS
  <2> HIDE DEF m
  <2>6. m.values[1] = count
    BY <2>2
  <2>7. KeysFormat(m)
    BY <1>4, <2>5, <2>6 DEF KeysFormat
  <2>8. MessageOK(m)
    BY <2>2, <2>3, <2>5, <2>7 DEF MessageOK, Responses
  <2> QED
    BY <2>4, <2>8
<1> QED
  BY <1>3, <1>4

\* An application's own message.
LEMMA OwnOK ==
    ASSUME ComposeOwn
    PROVE  \E m : Compose(m) /\ MessageOK(m)
<1> DEFINE Values4(items, integer, double, string, blob) ==
        [i \in 1 .. Len(items) |->
            CASE items[i] = "l" -> integer [] items[i] = "d" -> double
              [] items[i] = "s" -> string [] items[i] = "b" -> blob]
<1>1. PICK own \in Formats, more \in {<<>>, <<"?">>}, integer \in Integers64, double \in Doubles,
           string \in Strings, blob \in Blobs :
        Compose([to |-> "application", type |-> "none", expects |-> "none", format |-> own,
                 reads |-> own \o more,
                 values |-> Values4(ItemsOf(own), integer, double, string, blob)])
  BY DEF ComposeOwn
<1> DEFINE items == ItemsOf(own)
           values == Values4(items, integer, double, string, blob)
           m == [to |-> "application", type |-> "none", expects |-> "none", format |-> own,
                 reads |-> own \o more, values |-> values]
<1>2. own \in Seq(Characters) /\ items \in Seq(Items)
  <2>1. own \in Seq(Characters)
    BY ValuesAssumption
  <2>2. PICK upTo : Collects(own, upTo) /\ ItemsOf(own) = upTo[Len(own)]
    BY <2>1, ItemsOfCollects
  <2>3. Len(own) \in 0 .. Len(own)
    BY <2>1
  <2> QED
    BY <2>1, <2>2, <2>3 DEF Collects
<1> HIDE DEF items
<1>3. ASSUME NEW i \in 1 .. Len(items) PROVE values[i] \in Values(items[i]) /\ values[i] \in Payload
  <2>1. items[i] \in Items
    BY <1>2
  <2>2. /\ integer \in Values("l") /\ double \in Values("d")
        /\ string \in Values("s") /\ blob \in Values("b")
    BY ValuesAssumption
  <2>3. values[i] = CASE items[i] = "l" -> integer [] items[i] = "d" -> double
                      [] items[i] = "s" -> string [] items[i] = "b" -> blob
    OBVIOUS
  <2> HIDE DEF values
  <2>4. values[i] \in Values(items[i])
    BY <2>1, <2>2, <2>3 DEF Items
  <2> QED
    BY <2>1, <2>4, ValuesOfTypes
<1>4. values \in Seq(Payload) /\ Len(values) = Len(items)
  <2>1. Len(items) \in Nat
    BY <1>2
  <2> DEFINE n == Len(items)
             Value(i) ==
                CASE items[i] = "l" -> integer [] items[i] = "d" -> double
                  [] items[i] = "s" -> string [] items[i] = "b" -> blob
  <2>2. values = [i \in 1 .. n |-> Value(i)]
    OBVIOUS
  <2> HIDE DEF values, Value, n
  <2>3. \A i \in 1 .. n : Value(i) \in Payload
    BY <1>3, <2>2 DEF n
  <2>4. n \in Nat
    BY <2>1 DEF n
  <2> QED
    BY <2>2, <2>3, <2>4 DEF n
<1> HIDE DEF values
<1>5. Fits(own, values)
  BY <1>2, <1>3, <1>4 DEF Fits, items
<1>6. own \o <<>> = own
  BY <1>2
<1>7. own \o more \in {own, own \o <<"?">>}
  BY <1>6
<1>8. MessageOK(m)
  BY <1>5, <1>7 DEF MessageOK
<1>9. Compose(m)
  BY <1>1 DEF values, items
<1> QED
  BY <1>8, <1>9

LEMMA ComposedOK ==
    ASSUME ComposeAny
    PROVE  \E m : Compose(m) /\ MessageOK(m)
  BY RequestOK, ResponseOK, KeysOK, OwnOK DEF ComposeAny

----------------------------------------------------------------------------
(* What both sides of a packet have done so far. *)

\* The items, the byte order and the bytes after each character of a message's format.
Walk(m) == CHOOSE w : Packs(m.format, m.values, Start(m), w.items, w.order, w.bytes)

LEMMA Numbers ==
    ASSUME NEW t \in Requests \cup Responses \cup {"ERROR"}
    PROVE  Number(t) \in Byte /\ Number(t) # 0 /\ PacketType(Number(t)) = t
<1>1. Len(PacketTypes) = 20
  BY DEF PacketTypes
<1>2. t # "INVALID" /\ PacketType(0) = "INVALID"
  BY <1>1 DEF PacketType, PacketTypes, Requests, Responses
<1>3. \E byte \in 0 .. Len(PacketTypes) - 1 : PacketType(byte) = t
  <2>1. PICK i \in 1 .. 20 : PacketTypes[i] = t
    BY DEF PacketTypes, Requests, Responses
  <2>2. i - 1 \in 0 .. Len(PacketTypes) - 1 /\ i - 1 < Len(PacketTypes) /\ (i - 1) + 1 = i
    BY <1>1
  <2> QED
    BY <2>1, <2>2 DEF PacketType
<1>4. Number(t) \in 0 .. Len(PacketTypes) - 1 /\ PacketType(Number(t)) = t
  BY <1>3 DEF Number
<1>5. Number(t) \in Byte
  BY <1>1, <1>4, TypesAssumption, SizesPositive DEF Byte
<1> QED
  BY <1>2, <1>4, <1>5

LEMMA WalkIs ==
    ASSUME NEW m, MessageOK(m)
    PROVE  /\ Start(m) \in Seq(Byte)
           /\ Packs(m.format, m.values, Start(m), Walk(m).items, Walk(m).order, Walk(m).bytes)
<1>1. Start(m) \in Seq(Byte)
  <2>1. m.to # "application" => Number(m.type) \in Byte
    BY Numbers DEF MessageOK
  <2> QED
    BY <2>1 DEF Start
<1>2. Fits(m.format, m.values)
  BY DEF MessageOK
<1>3. PICK items, order, bytes : Packs(m.format, m.values, Start(m), items, order, bytes)
  BY <1>1, <1>2, PacksExist
<1> DEFINE w == [items |-> items, order |-> order, bytes |-> bytes]
<1>4. w.items = items /\ w.order = order /\ w.bytes = bytes
  OBVIOUS
<1> HIDE DEF w
<1>5. \E v : Packs(m.format, m.values, Start(m), v.items, v.order, v.bytes)
  BY <1>3, <1>4
<1>6. Packs(m.format, m.values, Start(m), Walk(m).items, Walk(m).order, Walk(m).bytes)
  BY <1>5 DEF Walk
<1> QED
  BY <1>1, <1>6

Whole == Walk(message).bytes[Len(message.format)]

\* bpack has come to the p-th character.
PackedTo(p) ==
    /\ p \in 0 .. Len(message.format)
    /\ \A i \in 1 .. p : message.format[i] \in Items \cup Switches
    /\ format = SubSeq(message.format, p + 1, Len(message.format))
    /\ args = SubSeq(message.values, Len(Walk(message).items[p]) + 1, Len(message.values))
    /\ little <=> Walk(message).order[p]
    /\ ds.bytes = Walk(message).bytes[p]

\* The bytes that arrive are those that were packed, or the first of them.
Arrives ==
    altered # "changed" =>
        /\ Len(wire) <= Len(Whole) /\ \A i \in 1 .. Len(wire) : wire[i] = Whole[i]
        /\ altered = "no" <=> Len(wire) = Len(Whole)

\* bunpack has read what bpack wrote up to the p-th character.
Reached(p) ==
    /\ p \in 0 .. Len(message.format)
    /\ Len(got) = Len(Walk(message).items[p])
    /\ ds.position = Len(Walk(message).bytes[p])
    /\ little <=> Walk(message).order[p]

\* One item is read as it was written, or the bytes end within it.
LEMMA ReadItem ==
    ASSUME MessageOK(message), ds \in Buffer, ds.position <= Len(ds.bytes), ds.bytes = wire,
           Arrives, altered # "changed", little \in BOOLEAN,
           NEW p \in 0 .. Len(message.format) - 1, Reached(p),
           Head(format) = message.format[p + 1], Head(format) \in Items
    PROVE  /\ Result.code = "OK" => /\ Result.val = Sent[Len(got) + 1]
                                    /\ ds.position + Result.length = Len(Walk(message).bytes[p + 1])
           /\ altered = "no" => Result.code = "OK"
           /\ Len(got) + 1 = Len(Walk(message).items[p + 1])
           /\ Len(got) \in Nat /\ Len(got) + 1 \in 1 .. Len(message.values)
           /\ little <=> Walk(message).order[p + 1]
<1> DEFINE F == message.format
           V == message.values
           I == Walk(message).items
           O == Walk(message).order
           B == Walk(message).bytes
           n == Len(F)
           item == Head(format)
           k == Len(I[p]) + 1
           val == V[k]
           part == Packed(item, val, O[p])
<1>1. Fits(F, V) /\ Packs(F, V, Start(message), I, O, B)
  BY WalkIs DEF MessageOK
<1>2. n \in Nat /\ n \in 0 .. n /\ p + 1 \in 0 .. n /\ p \in 0 .. n /\ F[p + 1] = item /\ item \in Items
  BY <1>1 DEF Fits
<1>3. Len(got) + 1 = k /\ ds.position = Len(B[p]) /\ (little <=> O[p])
  BY DEF Reached
<1>4. /\ ds.position \in Nat /\ ds.bytes \in Seq(Byte) /\ wire = ds.bytes /\ Len(wire) \in Nat
  BY BufferFields
<1> HIDE DEF F, V, I, O, B, n, item
<1>5. /\ val \in Values(item) /\ k \in 1 .. Len(V)
      /\ Len(I[p]) \in Nat /\ Len(I[p + 1]) = k
      /\ ItemsOf(F)[k] = item
      /\ part \in Seq(Byte) /\ Len(part) \in Nat \ {0}
      /\ B[p] \in Seq(Byte) /\ O[p] \in BOOLEAN
      /\ B[p + 1] = B[p] \o part
      /\ O[p + 1] <=> O[p]
  <2>1. PICK q \in 1 .. Len(F) : q = p + 1
    BY <1>2 DEF n
  <2>2. p = q - 1 /\ F[q] \in Items /\ item = F[q]
    BY <1>2, <2>1 DEF n
  <2>3. OneItemMore(F, V, I, O, B, q)
    BY <1>1, <2>2, PacksItem
  <2>4. Len(I[q]) = k
    BY <2>2, <2>3 DEF OneItemMore
  <2>5. part \in Seq(Byte) /\ Len(part) \in Nat \ {0}
    BY <1>2, <2>2, <2>3, <2>4, PackedType DEF OneItemMore
  <2> QED
    BY <2>1, <2>2, <2>3, <2>4, <2>5 DEF OneItemMore
<1> HIDE DEF k, val, part
<1>6. Extends(B[p + 1], B[n]) /\ B[n] = Whole
  <2>1. Extends(B[p + 1], B[n])
    BY <1>1, <1>2, PacksExtends DEF n
  <2> QED
    BY <2>1 DEF Whole, B, n, F
<1>7. Len(B[p + 1]) = ds.position + Len(part)
      /\ \A i \in 1 .. Len(part) : B[p + 1][ds.position + i] = part[i]
  BY <1>3, <1>5
<1>8. Whole \in Seq(Byte) /\ Len(Whole) \in Nat
  <2>1. B[n] \in Seq(Byte)
    BY <1>1, <1>2 DEF Packs, n
  <2> QED
    BY <1>6, <2>1
<1>9. ds.position + Len(part) <= Len(Whole)
      /\ \A i \in 1 .. Len(part) : Whole[ds.position + i] = part[i]
  <2>1. ASSUME NEW i \in 1 .. Len(part) PROVE Whole[ds.position + i] = part[i]
    <3>1. ds.position + i \in 1 .. Len(B[p + 1])
      <4>1. Len(B[p + 1]) = ds.position + Len(part) /\ Len(part) \in Nat
        BY <1>5, <1>7
      <4> QED
        BY <1>4, <4>1
    <3> QED
      BY <1>6, <1>7, <3>1 DEF Extends
  <2> QED
    BY <1>6, <1>7, <2>1 DEF Extends
<1>10. /\ Len(wire) <= Len(Whole) /\ \A i \in 1 .. Len(wire) : wire[i] = Whole[i]
       /\ altered = "no" <=> Len(wire) = Len(Whole)
  BY DEF Arrives
<1>11. Result = Unpacked(item, ds, little)
  BY DEF Result, item
<1>12. part = Packed(item, val, little)
  <2>1. little = O[p]
    BY <1>3, <1>5
  <2> QED
    BY <2>1 DEF part
<1> HIDE DEF Result
<1>13. Received(item, val) = Sent[k]
  <2>1. DOMAIN V = 1 .. Len(V)
    BY <1>1 DEF Fits
  <2>2. Sent = [i \in DOMAIN V |->
                    IF ItemsOf(F)[i] = "d" /\ V[i].class = "nan"
                    THEN [V[i] EXCEPT !.negative = FALSE] ELSE V[i]]
    BY DEF Sent, F, V
  <2> QED
    BY <1>5, <2>1, <2>2 DEF Received, val
<1> SUFFICES /\ Result.code = "OK" => /\ Result.val = Sent[k]
                                      /\ ds.position + Result.length = Len(B[p + 1])
             /\ altered = "no" => Result.code = "OK"
  BY <1>3, <1>5 DEF V, I, O, B
<1>14. CASE ds.position + Len(part) <= Len(wire)
  <2>1. \A i \in 1 .. Len(part) : wire[ds.position + i] = part[i]
    <3>1. \A i \in 1 .. Len(part) : ds.position + i \in 1 .. Len(wire)
      BY <1>4, <1>5, <1>14
    <3> QED
      BY <1>9, <1>10, <3>1
  <2>2. Follows(ds, part)
    BY <1>4, <1>14, <2>1 DEF Follows
  <2>3. Result = Gives(Received(item, val), Len(part))
    BY <1>2, <1>5, <1>11, <1>12, <2>2, ItemRoundTrip
  <2>4. Result.code = "OK" /\ Result.val = Sent[k] /\ Result.length = Len(part)
    BY <1>13, <2>3 DEF Gives
  <2> QED
    BY <1>7, <2>4
<1>15. CASE ~(ds.position + Len(part) <= Len(wire))
  <2>1. \A i \in 1 .. Len(wire) - ds.position : wire[ds.position + i] = part[i]
    <3>1. \A i \in 1 .. Len(wire) - ds.position :
            ds.position + i \in 1 .. Len(wire) /\ i \in 1 .. Len(part)
      BY <1>4, <1>5, <1>15
    <3> QED
      BY <1>9, <1>10, <3>1
  <2>2. EndsWithin(ds, part)
    BY <1>4, <1>5, <1>15, <2>1 DEF EndsWithin
  <2>3. Result.code # "OK"
    BY <1>2, <1>5, <1>11, <1>12, <2>2, ItemCut
  <2>4. altered # "no"
    BY <1>4, <1>5, <1>8, <1>9, <1>10, <1>15
  <2> QED
    BY <2>3, <2>4
<1> QED
  BY <1>14, <1>15

----------------------------------------------------------------------------
(* The state of both sides between the characters of their formats. *)

\* The format that the reader follows; server_process starts with "ss".
Layout ==
    IF message.to = "application" THEN message.reads
    ELSE IF message.to = "server" /\ step = "unpack" THEN <<"s", "s">>
    ELSE message.format

\* What the reader has left of it after p characters.
Left(p) ==
    /\ p \in 0 .. Len(Layout)
    /\ format = IF message.to = "client" /\ type = "ENUM" /\ p = 0 THEN <<"l">>
                ELSE SubSeq(Layout, p + 1, Len(Layout))

SameType == message.to # "application" => type = message.type

GotSent ==
    /\ Len(got) <= Len(message.values)
    /\ \A i \in 1 .. Len(got) : got[i] = Sent[i]

Typed == TypeOK /\ ds \in Buffer

Composed ==
    /\ step = "idle" => message = NoMessage
    /\ step # "idle" => MessageOK(message)

\* bpack writes at the end of its buffer.
Packing ==
    /\ step \in {"idle", "stamp", "pack"} => altered = "no"
    /\ step \in {"idle", "stamp"} => ds = New(<<>>) /\ little = TRUE
    /\ step = "stamp" =>
        message.to # "application" /\ format = message.format /\ args = message.values
    /\ step = "pack" => ds.position = Len(ds.bytes) /\ \E p : PackedTo(p)

\* What was packed is on its way, or read.
Sending ==
    /\ step \in {"send", "type", "unpack", "response", "value"} => Arrives /\ Known(message.format)
    /\ step \in {"type", "unpack", "response", "value"} => ds.bytes = wire
    /\ step = "type" => ds.position = 0 /\ little = TRUE /\ message.to # "application"

\* The reader has followed the writer, unless the bytes were changed.
Following ==
    /\ step = "response" => code \notin {"OK", "REFUSED"}
    /\ altered # "changed" =>
        /\ step \in {"unpack", "value"} => SameType /\ \E p : Reached(p) /\ Left(p)
        /\ step = "response" /\ code = "NONE" => SameType /\ Reached(2)
        /\ step = "response" /\ code # "NONE" => altered = "cut" \/ faulted
        /\ GotSent

\* How it ends.
Ending ==
    /\ RoundTrip
    /\ altered = "cut" /\ step = "done" => code \notin {"OK", "REFUSED"}

PInv == Typed /\ Composed /\ Packing /\ Sending /\ Following /\ Ending

LEMMA RestOf ==
    ASSUME NEW S, NEW s \in Seq(S), NEW p \in 0 .. Len(s)
    PROVE  /\ SubSeq(s, p + 1, Len(s)) = <<>> <=> p = Len(s)
           /\ p # Len(s) => /\ p + 1 \in 1 .. Len(s) /\ p \in 0 .. Len(s) - 1
                            /\ Head(SubSeq(s, p + 1, Len(s))) = s[p + 1]
                            /\ Tail(SubSeq(s, p + 1, Len(s))) = SubSeq(s, (p + 1) + 1, Len(s))
<1>1. SubSeq(s, p + 1, Len(s)) = <<>> => p = Len(s)
  OBVIOUS
<1>2. p = Len(s) => SubSeq(s, p + 1, Len(s)) = <<>>
  OBVIOUS
<1>3. p # Len(s) => p + 1 \in 1 .. Len(s) /\ p \in 0 .. Len(s) - 1
  OBVIOUS
<1>4. p # Len(s) => Head(SubSeq(s, p + 1, Len(s))) = s[p + 1]
  OBVIOUS
<1>5. p # Len(s) => Tail(SubSeq(s, p + 1, Len(s))) = SubSeq(s, (p + 1) + 1, Len(s))
  OBVIOUS
<1> QED
  BY <1>1, <1>2, <1>3, <1>4, <1>5

LEMMA WholeSub ==
    ASSUME NEW S, NEW s \in Seq(S)
    PROVE  SubSeq(s, 0 + 1, Len(s)) = s
  OBVIOUS

\* What the fields of a message are.
LEMMA MessageFields ==
    ASSUME NEW m, MessageOK(m)
    PROVE  /\ m.format \in Seq(Characters) /\ Len(m.format) \in Nat
           /\ m.values \in Seq(Payload) /\ Len(m.values) \in Nat
           /\ m.to \in {"server", "client", "application"}
           /\ m.to # "application" => Number(m.type) \in Byte
           /\ m.to # "application" => m.format \in Seq(Items)
  BY Numbers DEF MessageOK, Fits

\* Before the first character.
LEMMA AtStart ==
    ASSUME NEW m, MessageOK(m)
    PROVE  /\ 0 \in 0 .. Len(m.format) /\ Walk(m).items[0] = <<>> /\ Walk(m).order[0] = TRUE
           /\ Walk(m).bytes[0] = Start(m)
<1>1. Packs(m.format, m.values, Start(m), Walk(m).items, Walk(m).order, Walk(m).bytes)
  BY WalkIs
<1>2. 0 \in 0 .. Len(m.format)
  BY MessageFields
<1> QED
  BY <1>1, <1>2 DEF Packs, Collects

----------------------------------------------------------------------------
(* The side that packs. *)

LEMMA InitStarts == Init => PInv
<1> SUFFICES ASSUME Init PROVE PInv
  OBVIOUS
<1>1. <<>> \in Seq(Byte) /\ Len(<<>>) = 0 /\ 0 \in 0 .. 0 /\ 0 \in Nat
  OBVIOUS
<1>2. ds.bytes = <<>> /\ ds.position = 0 /\ ds \in Buffer
  BY <1>1 DEF Init, New, Buffer
<1>3. Typed
  BY <1>1, <1>2 DEF Init, Typed, TypeOK, NoMessage, Nothing, Codes
<1>4. GotSent
  BY <1>1 DEF Init, GotSent, NoMessage
<1>5. Composed /\ Packing /\ Sending /\ Ending
  BY DEF Init, Composed, Packing, Sending, Ending, RoundTrip
<1>6. Following
  BY <1>4 DEF Init, Following
<1> QED
  BY <1>3, <1>5, <1>6 DEF PInv

\* Only the fields of the message matter to what was read of it.
LEMMA GotSentKeeps ==
    ASSUME GotSent, UNCHANGED <<message, got>>
    PROVE  GotSent'
  BY DEF GotSent, Sent

LEMMA ComposeStarts ==
    ASSUME IInv, PInv, ComposeAny
    PROVE  PInv'
<1>1. PICK m : Compose(m) /\ MessageOK(m)
  BY ComposedOK
<1>2. /\ step = "idle" /\ message' = m /\ format' = m.format /\ args' = m.values
      /\ step' = IF m.to = "application" THEN "pack" ELSE "stamp"
      /\ UNCHANGED <<little, ds, wire, altered, faulted, type, got, heap, code>>
  BY <1>1 DEF Compose
<1>3. got = <<>> /\ altered = "no" /\ ds = New(<<>>) /\ little = TRUE
  <2>1. got = <<>>
    BY <1>2 DEF IInv
  <2>2. altered = "no" /\ ds = New(<<>>) /\ little = TRUE
    BY <1>2 DEF PInv, Packing
  <2> QED
    BY <2>1, <2>2
<1>4. Typed'
  <2>1. message'.to \in {"server", "client", "application"} /\ step' \in {"pack", "stamp"}
    BY <1>1, <1>2, MessageFields
  <2> QED
    BY <1>2, <2>1 DEF PInv, Typed, TypeOK
<1>5. m.to = "application" => PackedTo(0)'
  <2> SUFFICES ASSUME m.to = "application" PROVE PackedTo(0)'
    OBVIOUS
  <2>1. /\ m.format \in Seq(Characters) /\ m.values \in Seq(Payload)
        /\ Len(m.values) \in Nat /\ Len(<<>>) + 1 = 0 + 1
    BY <1>1, MessageFields
  <2>2. SubSeq(m.format, 0 + 1, Len(m.format)) = m.format
        /\ SubSeq(m.values, 0 + 1, Len(m.values)) = m.values
    BY <2>1, WholeSub
  <2>3. /\ 0 \in 0 .. Len(m.format) /\ Walk(m).items[0] = <<>> /\ Walk(m).order[0] = TRUE
        /\ Walk(m).bytes[0] = Start(m)
    BY <1>1, AtStart
  <2>4. Start(m) = <<>> /\ ds.bytes = <<>>
    BY <1>3 DEF Start, New
  <2>5. args' = SubSeq(m.values, Len(Walk(m).items[0]) + 1, Len(m.values))
    BY <1>2, <2>1, <2>2, <2>3
  <2>6. \A i \in 1 .. 0 : m.format[i] \in Items \cup Switches
    OBVIOUS
  <2> QED
    BY <1>2, <1>3, <2>2, <2>3, <2>4, <2>5, <2>6 DEF PackedTo
<1>6. Packing'
  <2>1. ds.position = Len(ds.bytes)
    BY <1>3 DEF New
  <2> QED
    BY <1>2, <1>3, <1>5, <2>1 DEF Packing
<1>7. Composed' /\ Sending' /\ Ending'
  BY <1>1, <1>2 DEF Composed, Sending, Ending, RoundTrip
<1>8. Following'
  <2>1. Len(got') = 0 /\ Len(m.values) \in Nat
    BY <1>1, <1>2, <1>3, MessageFields
  <2>2. GotSent'
    BY <1>2, <2>1 DEF GotSent
  <2> QED
    BY <1>2, <2>2 DEF Following
<1> QED
  BY <1>4, <1>6, <1>7, <1>8 DEF PInv

LEMMA StampStarts ==
    ASSUME IInv, PInv, Stamp
    PROVE  PInv'
<1> DEFINE m == message
<1>1. /\ step = "stamp" /\ step' = "pack" /\ ds' = WriteByte(ds, Number(m.type))
      /\ UNCHANGED <<message, format, little, args, wire, altered, faulted, type, got, heap, code>>
  BY DEF Stamp
<1>2. /\ MessageOK(m) /\ altered = "no" /\ ds = New(<<>>) /\ little = TRUE
      /\ m.to # "application" /\ format = m.format /\ args = m.values
  BY <1>1 DEF PInv, Composed, Packing
<1>3. Number(m.type) \in Byte
  BY <1>2, MessageFields
<1>4. ds' \in Buffer /\ ds'.bytes = <<Number(m.type)>> /\ ds'.position = 1
      /\ Len(ds'.bytes) = 1
  <2>1. ds.position = 0 /\ ds.bytes = <<>> /\ Len(<<>>) = 0
    BY <1>2 DEF New
  <2>2. ds' = [bytes |-> Append(<<>>, Number(m.type)), position |-> 1]
    BY <1>1, <2>1 DEF WriteByte
  <2>3. Append(<<>>, Number(m.type)) = <<Number(m.type)>>
    OBVIOUS
  <2>4. <<Number(m.type)>> \in Seq(Byte) /\ Len(<<Number(m.type)>>) = 1
    BY <1>3
  <2> QED
    BY <2>2, <2>3, <2>4 DEF Buffer
<1>5. Typed'
  <2>1. ds'.bytes \in Seq(Byte) /\ ds'.position \in 0 .. Len(ds'.bytes)
    <3>1. 1 \in 0 .. 1
      OBVIOUS
    <3> QED
      BY <1>4, <3>1 DEF Buffer
  <2> QED
    BY <1>1, <1>4, <2>1 DEF PInv, Typed, TypeOK
<1>6. PackedTo(0)'
  <2>1. /\ m.format \in Seq(Characters) /\ m.values \in Seq(Payload)
        /\ Len(m.values) \in Nat /\ Len(<<>>) + 1 = 0 + 1
    BY <1>2, MessageFields
  <2>2. SubSeq(m.format, 0 + 1, Len(m.format)) = m.format
        /\ SubSeq(m.values, 0 + 1, Len(m.values)) = m.values
    BY <2>1, WholeSub
  <2>3. /\ 0 \in 0 .. Len(m.format) /\ Walk(m).items[0] = <<>> /\ Walk(m).order[0] = TRUE
        /\ Walk(m).bytes[0] = Start(m)
    BY <1>2, AtStart
  <2>4. Start(m) = ds'.bytes
    BY <1>2, <1>4 DEF Start
  <2>5. args' = SubSeq(m.values, Len(Walk(m).items[0]) + 1, Len(m.values))
    BY <1>1, <1>2, <2>1, <2>2, <2>3
  <2>6. \A i \in 1 .. 0 : m.format[i] \in Items \cup Switches
    OBVIOUS
  <2> QED
    BY <1>1, <1>2, <2>2, <2>3, <2>4, <2>5, <2>6 DEF PackedTo
<1>7. Packing'
  BY <1>1, <1>2, <1>4, <1>6 DEF Packing
<1>8. Composed' /\ Sending' /\ Ending'
  BY <1>1, <1>2 DEF Composed, Sending, Ending, RoundTrip
<1>9. Following'
  BY <1>1, <1>2, GotSentKeeps DEF PInv, Following
<1> QED
  BY <1>5, <1>7, <1>8, <1>9 DEF PInv

\* bpack is at an item, the q-th character.
PackingItem(q) ==
    /\ PackedTo(q - 1) /\ q \in 1 .. Len(message.format) /\ Head(format) = message.format[q]
    /\ OneItemMore(message.format, message.values, Walk(message).items, Walk(message).order,
                   Walk(message).bytes, q)
    /\ Tail(args) =
        SubSeq(message.values, Len(Walk(message).items[q]) + 1, Len(message.values))
    /\ Tail(format) = SubSeq(message.format, q + 1, Len(message.format))
    /\ Packed(Head(format), Head(args), little) \in Seq(Byte)
    /\ Walk(message).bytes[q] = ds.bytes \o Packed(Head(format), Head(args), little)

LEMMA PackItem ==
    ASSUME PInv, At("pack"), Head(format) \in Items
    PROVE  \E q : PackingItem(q)
<1> DEFINE F == message.format
           V == message.values
           w == Walk(message)
<1>1. MessageOK(message) /\ \E p : PackedTo(p)
  BY DEF PInv, Composed, Packing, At
<1>2. PICK p : PackedTo(p)
  BY <1>1
<1>3. /\ F \in Seq(Characters) /\ V \in Seq(Payload) /\ Len(F) \in Nat /\ Len(V) \in Nat
      /\ Fits(F, V) /\ Packs(F, V, Start(message), w.items, w.order, w.bytes)
  BY <1>1, MessageFields, WalkIs DEF MessageOK
<1>4. /\ p \in 0 .. Len(F) /\ format = SubSeq(F, p + 1, Len(F))
      /\ args = SubSeq(V, Len(w.items[p]) + 1, Len(V))
      /\ (little <=> w.order[p]) /\ ds.bytes = w.bytes[p] /\ little \in BOOLEAN
  BY <1>2 DEF PackedTo, PInv, Typed, TypeOK
<1>5. p # Len(F)
  <2>1. format # <<>>
    BY DEF At
  <2> HIDE DEF F
  <2> QED
    BY <1>3, <1>4, <2>1, RestOf
<1>6. PICK q \in 1 .. Len(F) : q = p + 1
  BY <1>3, <1>4, <1>5
<1>7. p = q - 1 /\ Head(format) = F[q] /\ Tail(format) = SubSeq(F, q + 1, Len(F))
  <2> HIDE DEF F
  <2> QED
    BY <1>3, <1>4, <1>5, <1>6, RestOf
<1>8. OneItemMore(F, V, w.items, w.order, w.bytes, q)
  <2>1. F[q] \in Items
    BY <1>7
  <2> HIDE DEF F, V, w
  <2> QED
    BY <1>3, <2>1, PacksItem
<1> DEFINE k == Len(w.items[p])
<1>9. /\ V[Len(w.items[q])] \in Values(F[q]) /\ Len(w.items[q]) \in 1 .. Len(V)
      /\ k \in Nat /\ Len(w.items[q]) = k + 1
      /\ w.bytes[q] = w.bytes[p] \o Packed(F[q], V[Len(w.items[q])], w.order[p])
      /\ w.order[p] \in BOOLEAN
  BY <1>7, <1>8 DEF OneItemMore
<1>10. Head(args) = V[k + 1] /\ Tail(args) = SubSeq(V, (k + 1) + 1, Len(V))
  <2>1. args = SubSeq(V, k + 1, Len(V))
    BY <1>4
  <2>2. k \in 0 .. Len(V) /\ k # Len(V)
    BY <1>3, <1>9
  <2> HIDE DEF V, k
  <2> QED
    BY <1>3, <2>1, <2>2, RestOf
<1>11. little = w.order[p]
  BY <1>4, <1>9
<1>12. Packed(Head(format), Head(args), little) = Packed(F[q], V[Len(w.items[q])], w.order[p])
  BY <1>7, <1>9, <1>10, <1>11
<1>13. Packed(F[q], V[Len(w.items[q])], w.order[p]) \in Seq(Byte)
  <2>1. F[q] \in Items
    BY <1>7
  <2> QED
    BY <1>9, <2>1, PackedType
<1> HIDE DEF F, V, w, k
<1>14. /\ PackedTo(q - 1) /\ Head(format) = F[q]
       /\ OneItemMore(F, V, w.items, w.order, w.bytes, q)
       /\ Tail(args) = SubSeq(V, Len(w.items[q]) + 1, Len(V))
       /\ Tail(format) = SubSeq(F, q + 1, Len(F))
       /\ Packed(Head(format), Head(args), little) \in Seq(Byte)
       /\ w.bytes[q] = ds.bytes \o Packed(Head(format), Head(args), little)
  BY <1>2, <1>4, <1>6, <1>7, <1>8, <1>9, <1>10, <1>12, <1>13
<1> QED
  BY <1>14 DEF F, V, w, PackingItem

LEMMA PackStarts ==
    ASSUME IInv, PInv, Pack
    PROVE  PInv'
<1> DEFINE part == Packed(Head(format), Head(args), little)
<1>1. /\ step = "pack" /\ step' = step /\ Head(format) \in Items /\ At("pack")
      /\ ds' = WriteBytes(ds, part) /\ format' = Tail(format) /\ args' = Tail(args)
      /\ UNCHANGED <<message, step, little, wire, altered, faulted, type, got, heap, code>>
  BY DEF Pack, At
<1>2. PICK q : PackingItem(q)
  BY <1>1, PackItem
<1>3. /\ MessageOK(message) /\ altered = "no" /\ ds \in Buffer
      /\ ds.position = Len(ds.bytes) /\ ds.bytes \in Seq(Byte) /\ part \in Seq(Byte)
  BY <1>1, <1>2, BufferFields DEF PInv, Composed, Packing, Typed, PackingItem
<1>4. ds' = [bytes |-> ds.bytes \o part, position |-> ds.position + Len(part)]
  <2> HIDE DEF part
  <2> QED
    BY <1>1, <1>3, WriteAtEnd
<1>5. /\ ds' \in Buffer /\ ds'.position = Len(ds'.bytes) /\ ds'.bytes = ds.bytes \o part
      /\ ds'.bytes \in Seq(Byte) /\ ds'.position \in 0 .. Len(ds'.bytes)
  <2> HIDE DEF part
  <2>1. ds'.bytes = ds.bytes \o part /\ ds'.position = Len(ds.bytes) + Len(part)
        /\ ds' = [bytes |-> ds'.bytes, position |-> ds'.position]
    BY <1>3, <1>4
  <2>2. ds'.bytes \in Seq(Byte) /\ Len(ds'.bytes) = Len(ds.bytes) + Len(part)
        /\ ds'.position \in Nat /\ ds'.position \in 0 .. Len(ds'.bytes)
    BY <1>3, <2>1
  <2> QED
    BY <1>4, <2>1, <2>2 DEF Buffer
<1>6. Typed'
  BY <1>1, <1>5 DEF PInv, Typed, TypeOK
<1>7. PackedTo(q)'
  <2>1. /\ q \in 1 .. Len(message.format) /\ Len(message.format) \in Nat
        /\ \A i \in 1 .. q - 1 : message.format[i] \in Items \cup Switches
        /\ message.format[q] \in Items
        /\ little <=> Walk(message).order[q - 1]
        /\ Walk(message).order[q] = Walk(message).order[q - 1]
        /\ Walk(message).bytes[q] = ds.bytes \o part
    BY <1>1, <1>2, <1>3, MessageFields DEF PackingItem, PackedTo, OneItemMore
  <2>2. q \in 0 .. Len(message.format)
        /\ \A i \in 1 .. q : message.format[i] \in Items \cup Switches
    <3>1. \A i \in 1 .. q : i \in 1 .. q - 1 \/ i = q
      BY <2>1
    <3> QED
      BY <2>1, <3>1
  <2>3. format' = SubSeq(message.format, q + 1, Len(message.format))
        /\ args' = SubSeq(message.values, Len(Walk(message).items[q]) + 1, Len(message.values))
    BY <1>1, <1>2 DEF PackingItem
  <2> HIDE DEF part
  <2> QED
    BY <1>1, <1>5, <2>1, <2>2, <2>3 DEF PackedTo
<1> HIDE DEF part
<1>8. Packing'
  BY <1>1, <1>3, <1>5, <1>7 DEF Packing
<1>9. Composed' /\ Sending' /\ Ending'
  BY <1>1, <1>3 DEF Composed, Sending, Ending, RoundTrip
<1>10. Following'
  BY <1>1, <1>3, GotSentKeeps DEF PInv, Following
<1> QED
  BY <1>6, <1>8, <1>9, <1>10 DEF PInv

\* The fields that the packing side does not touch, and the end of a failure.
LEMMA DoneEnds ==
    ASSUME PInv, step # "idle", step' = "done", UNCHANGED <<message, got, altered>>, Typed',
           RoundTrip', altered = "cut" => code' \notin {"OK", "REFUSED"}
    PROVE  PInv'
<1>1. Composed'
  BY DEF PInv, Composed
<1>2. Packing' /\ Sending' /\ Ending'
  BY DEF Packing, Sending, Ending
<1>3. Following'
  BY GotSentKeeps DEF PInv, Following
<1> QED
  BY <1>1, <1>2, <1>3 DEF PInv

\* Memory runs out within an item.
LEMMA PackFailsEnds ==
    ASSUME IInv, PInv, PackFails
    PROVE  PInv'
<1> DEFINE part == Packed(Head(format), Head(args), little)
<1>1. /\ step = "pack" /\ step' = "done" /\ Head(format) \in Items /\ At("pack")
      /\ faulted' = TRUE /\ code' = "BPACK_WRITE"
      /\ UNCHANGED <<message, format, little, args, wire, altered, type, got, heap>>
  BY DEF PackFails, At, Ends, Fault
<1>2. PICK n \in 0 .. Len(part) - 1 : ds' = WriteBytes(ds, SubSeq(part, 1, n))
  BY DEF PackFails
<1>3. PICK q : PackingItem(q)
  BY <1>1, PackItem
<1>4. /\ MessageOK(message) /\ ds \in Buffer
      /\ ds.position = Len(ds.bytes) /\ ds.bytes \in Seq(Byte) /\ part \in Seq(Byte)
  BY <1>1, <1>3, BufferFields DEF PInv, Composed, Packing, Typed, PackingItem
<1> HIDE DEF part
<1> DEFINE piece == SubSeq(part, 1, n)
<1>5. piece \in Seq(Byte)
  BY <1>4
<1> HIDE DEF piece
<1>6. ds' = [bytes |-> ds.bytes \o piece, position |-> ds.position + Len(piece)]
  BY <1>2, <1>4, <1>5, WriteAtEnd DEF piece
<1>7. ds' \in Buffer /\ ds'.bytes \in Seq(Byte) /\ ds'.position \in 0 .. Len(ds'.bytes)
  <2>1. ds'.bytes = ds.bytes \o piece /\ ds'.position = Len(ds.bytes) + Len(piece)
    BY <1>4, <1>6
  <2>2. ds'.bytes \in Seq(Byte) /\ Len(ds'.bytes) = Len(ds.bytes) + Len(piece)
        /\ ds'.position \in Nat /\ ds'.position \in 0 .. Len(ds'.bytes)
    BY <1>4, <1>5, <2>1
  <2> QED
    BY <1>6, <2>1, <2>2 DEF Buffer
<1>8. Typed'
  BY <1>1, <1>7 DEF PInv, Typed, TypeOK, Codes, BpackCodes
<1>9. RoundTrip'
  BY <1>1 DEF RoundTrip
<1> QED
  BY <1>1, <1>8, <1>9, DoneEnds

\* bpack is at the q-th character.
PackingAt(q) ==
    /\ PackedTo(q - 1) /\ q \in 1 .. Len(message.format) /\ Head(format) = message.format[q]
    /\ Tail(format) = SubSeq(message.format, q + 1, Len(message.format))

LEMMA PackNext ==
    ASSUME PInv, At("pack")
    PROVE  \E q : PackingAt(q)
<1> DEFINE F == message.format
<1>1. MessageOK(message) /\ \E p : PackedTo(p)
  BY DEF PInv, Composed, Packing, At
<1>2. PICK p : PackedTo(p)
  BY <1>1
<1>3. F \in Seq(Characters) /\ Len(F) \in Nat
  BY <1>1, MessageFields
<1>4. p \in 0 .. Len(F) /\ format = SubSeq(F, p + 1, Len(F))
  BY <1>2 DEF PackedTo
<1>5. format # <<>>
  BY DEF At
<1>6. p # Len(F) /\ Head(format) = F[p + 1] /\ Tail(format) = SubSeq(F, (p + 1) + 1, Len(F))
  <2> HIDE DEF F
  <2> QED
    BY <1>3, <1>4, <1>5, RestOf
<1>7. PICK q \in 1 .. Len(F) : q = p + 1
  BY <1>3, <1>4, <1>6
<1>8. q - 1 = p
  BY <1>3, <1>4, <1>7
<1> QED
  BY <1>2, <1>6, <1>7, <1>8 DEF PackingAt

\* What the reader's format is.
LEMMA ReadsFormat ==
    ASSUME NEW m, MessageOK(m)
    PROVE  /\ m.reads \in Seq(Characters)
           /\ \A i \in 1 .. Len(m.format) : i \in 1 .. Len(m.reads) /\ m.reads[i] = m.format[i]
           /\ \A i \in 1 .. Len(m.reads) :
                m.reads[i] \in Items \cup Switches => i \in 1 .. Len(m.format)
<1>1. m.format \in Seq(Characters) /\ Len(m.format) \in Nat
      /\ (m.reads = m.format \/ m.reads = m.format \o <<"?">>)
  BY MessageFields DEF MessageOK
<1>2. "?" \in Characters /\ "?" \notin Items \cup Switches
  BY DEF Characters, Items, Switches
<1>3. CASE m.reads = m.format
  BY <1>1, <1>3
<1>4. CASE m.reads = m.format \o <<"?">>
  <2> DEFINE F == m.format
             R == m.reads
             n == Len(F)
             t == <<"?">>
  <2>1. t \in Seq(Characters) /\ Len(t) = 1 /\ t[1] = "?"
    BY <1>2
  <2>2. F \in Seq(Characters) /\ n \in Nat /\ R = F \o t /\ Len(F) = n
    BY <1>1, <1>4
  <2> HIDE DEF F, R, t, n
  <2>3. R \in Seq(Characters) /\ Len(R) = n + 1 /\ R[n + 1] = "?"
        /\ \A i \in 1 .. n : R[i] = F[i]
    <3>1. /\ F \o t \in Seq(Characters) /\ Len(F \o t) = Len(F) + Len(t)
          /\ \A i \in 1 .. Len(F) + Len(t) :
                (F \o t)[i] = IF i <= Len(F) THEN F[i] ELSE t[i - Len(F)]
      BY <2>1, <2>2, ConcatProperties, Zenon
    <3>2. /\ n + 1 \in 1 .. n + 1 /\ ~(n + 1 <= n) /\ (n + 1) - n = 1
          /\ \A i \in 1 .. n : i \in 1 .. n + 1 /\ i <= n
      BY <2>2
    <3> QED
      BY <2>1, <2>2, <3>1, <3>2, Zenon
  <2>4. \A i \in 1 .. n + 1 : i \in 1 .. n \/ i = n + 1
    BY <2>2
  <2>5. \A i \in 1 .. n : i \in 1 .. n + 1
    BY <2>2
  <2> QED
    BY <1>2, <2>2, <2>3, <2>4, <2>5 DEF F, R
<1> QED
  BY <1>1, <1>3, <1>4

\* An unknown character is unknown to both sides.
LEMMA UnknownReads ==
    ASSUME NEW m, MessageOK(m), NEW i \in 1 .. Len(m.format), m.format[i] \notin Items \cup Switches
    PROVE  ~Known(m.reads)
<1>1. m.reads \in Seq(Characters) /\ i \in 1 .. Len(m.reads) /\ m.reads[i] = m.format[i]
  BY ReadsFormat
<1>2. i \in DOMAIN m.reads
  BY <1>1
<1> QED
  BY <1>1, <1>2 DEF Known

LEMMA PackSwitchStarts ==
    ASSUME IInv, PInv, Switch, step = "pack"
    PROVE  PInv'
<1>1. /\ At("pack") /\ Head(format) \in Switches
      /\ (little' <=> Head(format) = "<") /\ little' \in BOOLEAN /\ format' = Tail(format)
      /\ UNCHANGED <<message, step, args, ds, wire, altered, faulted, type, got, heap, code>>
  BY DEF Switch, At
<1>2. PICK q : PackingAt(q)
  BY <1>1, PackNext
<1>3. /\ MessageOK(message) /\ altered = "no" /\ ds.position = Len(ds.bytes)
  BY DEF PInv, Composed, Packing
<1>4. Typed'
  BY <1>1 DEF PInv, Typed, TypeOK
<1>5. PackedTo(q)'
  <2> DEFINE w == Walk(message)
             F == message.format
  <2>1. /\ q \in 1 .. Len(F) /\ F[q] \in Switches /\ (little' <=> F[q] = "<")
        /\ PackedTo(q - 1) /\ format' = SubSeq(F, q + 1, Len(F))
    BY <1>1, <1>2 DEF PackingAt
  <2>2. Fits(F, message.values)
        /\ Packs(F, message.values, Start(message), w.items, w.order, w.bytes) /\ Len(F) \in Nat
    BY <1>3, WalkIs, MessageFields DEF MessageOK
  <2>3. /\ w.items[q] = w.items[q - 1] /\ w.bytes[q] = w.bytes[q - 1]
        /\ w.order[q] <=> F[q] = "<"
    <3> HIDE DEF w, F
    <3> QED
      BY <2>1, <2>2, PacksSwitch
  <2>4. /\ \A i \in 1 .. q - 1 : F[i] \in Items \cup Switches
        /\ args = SubSeq(message.values, Len(w.items[q - 1]) + 1, Len(message.values))
        /\ ds.bytes = w.bytes[q - 1]
    BY <2>1 DEF PackedTo
  <2>5. q \in 0 .. Len(F) /\ \A i \in 1 .. q : F[i] \in Items \cup Switches
    <3>1. \A i \in 1 .. q : i \in 1 .. q - 1 \/ i = q
      BY <2>1, <2>2
    <3> QED
      BY <2>1, <2>2, <2>4, <3>1
  <2> QED
    BY <1>1, <2>1, <2>3, <2>4, <2>5 DEF PackedTo
<1>6. Packing'
  BY <1>1, <1>3, <1>5 DEF Packing
<1>7. Composed' /\ Sending' /\ Ending'
  BY <1>1, <1>3 DEF Composed, Sending, Ending, RoundTrip
<1>8. Following'
  BY <1>1, <1>3, GotSentKeeps DEF PInv, Following
<1> QED
  BY <1>4, <1>6, <1>7, <1>8 DEF PInv

LEMMA PackInvalidEnds ==
    ASSUME IInv, PInv, InvalidFormat, step = "pack"
    PROVE  PInv'
<1>1. /\ At("pack") /\ Head(format) \notin Items \cup Switches
      /\ step' = "done" /\ code' = "BPACK_INVALID_FORMAT_STRING"
      /\ UNCHANGED <<message, format, little, args, ds, wire, altered, faulted, type, got, heap>>
  BY DEF InvalidFormat, At, Ends
<1>2. PICK q : PackingAt(q)
  BY <1>1, PackNext
<1>3. MessageOK(message)
  BY DEF PInv, Composed
<1>4. ~Known(message.reads)
  BY <1>1, <1>2, <1>3, UnknownReads DEF PackingAt
<1>5. Typed'
  BY <1>1 DEF PInv, Typed, TypeOK, Codes, BpackCodes
<1>6. RoundTrip'
  BY <1>1, <1>4 DEF RoundTrip
<1> QED
  BY <1>1, <1>5, <1>6, DoneEnds

\* bpack has come to the end of its format.
LEMMA SendStarts ==
    ASSUME IInv, PInv, Send
    PROVE  PInv'
<1> DEFINE F == message.format
<1>1. /\ step = "pack" /\ format = <<>> /\ step' = "send" /\ wire' = ds.bytes
      /\ UNCHANGED <<message, format, little, args, ds, altered, faulted, type, got, heap, code>>
  BY DEF Send, Ended
<1>2. MessageOK(message) /\ altered = "no" /\ ds \in Buffer /\ \E p : PackedTo(p)
  BY <1>1 DEF PInv, Composed, Packing, Typed
<1>3. PICK p : PackedTo(p)
  BY <1>2
<1>4. F \in Seq(Characters) /\ Len(F) \in Nat
  BY <1>2, MessageFields
<1>5. /\ p \in 0 .. Len(F) /\ format = SubSeq(F, p + 1, Len(F)) /\ ds.bytes = Walk(message).bytes[p]
      /\ \A i \in 1 .. p : F[i] \in Items \cup Switches
  BY <1>3 DEF PackedTo
<1>6. p = Len(F)
  <2> HIDE DEF F
  <2> QED
    BY <1>1, <1>4, <1>5, RestOf
<1>7. ds.bytes = Whole /\ Known(F)
  <2>1. DOMAIN F = 1 .. Len(F)
    BY <1>4
  <2> QED
    BY <1>5, <1>6, <2>1 DEF Whole, Known
<1>8. Typed'
  BY <1>1, <1>2, BufferFields DEF PInv, Typed, TypeOK
<1>9. Arrives'
  <2>1. wire' = Whole /\ Whole' = Whole /\ altered' = "no" /\ Len(wire') \in Nat
    BY <1>1, <1>2, <1>7, BufferFields DEF Whole
  <2> QED
    BY <2>1 DEF Arrives
<1>10. Composed' /\ Sending' /\ Packing' /\ Ending'
  BY <1>1, <1>2, <1>7, <1>9 DEF Composed, Sending, Packing, Ending, RoundTrip
<1>11. Following'
  BY <1>1, <1>2, GotSentKeeps DEF PInv, Following
<1> QED
  BY <1>8, <1>10, <1>11 DEF PInv

----------------------------------------------------------------------------
(* The channel, and the packet type. *)

LEMMA CutStarts ==
    ASSUME IInv, PInv, Cut
    PROVE  PInv'
<1>1. /\ step = "send" /\ step' = step /\ altered = "no" /\ altered' = "cut"
      /\ UNCHANGED <<message, step, format, little, args, ds, faulted, type, got, heap, code>>
  BY DEF Cut
<1>2. PICK n \in 0 .. Len(wire) - 1 : wire' = SubSeq(wire, 1, n)
  BY DEF Cut
<1>3. /\ wire \in Seq(Byte) /\ Len(wire) \in Nat /\ Arrives /\ GotSent /\ MessageOK(message)
      /\ Known(message.format)
  <2>1. wire \in Seq(Byte) /\ Len(wire) \in Nat
    <3>1. wire \in Seq(Byte)
      BY DEF PInv, Typed, TypeOK
    <3> QED
      BY <3>1
  <2>2. Arrives /\ GotSent /\ MessageOK(message) /\ Known(message.format)
    BY <1>1 DEF PInv, Sending, Following, Composed
  <2> QED
    BY <2>1, <2>2
<1>4. /\ wire' \in Seq(Byte) /\ Len(wire') = n /\ n < Len(wire)
      /\ \A i \in 1 .. n : wire'[i] = wire[i] /\ i \in 1 .. Len(wire)
  BY <1>2, <1>3
<1>5. Typed'
  BY <1>1, <1>4 DEF PInv, Typed, TypeOK
<1>6. Arrives'
  <2>1. /\ Len(wire) = Len(Whole) /\ \A i \in 1 .. Len(wire) : wire[i] = Whole[i]
    BY <1>1, <1>3 DEF Arrives
  <2>2. Whole' = Whole
    BY <1>1 DEF Whole
  <2>3. /\ Len(wire') <= Len(Whole) /\ Len(wire') # Len(Whole)
        /\ \A i \in 1 .. Len(wire') : wire'[i] = Whole[i]
    BY <1>2, <1>3, <1>4, <2>1
  <2> QED
    BY <1>1, <2>2, <2>3 DEF Arrives
<1>7. Composed' /\ Packing' /\ Sending' /\ Ending'
  BY <1>1, <1>3, <1>6 DEF Composed, Packing, Sending, Ending, RoundTrip
<1>8. Following'
  BY <1>1, <1>3, GotSentKeeps DEF Following
<1> QED
  BY <1>5, <1>7, <1>8 DEF PInv

LEMMA ChangeStarts ==
    ASSUME IInv, PInv, Change
    PROVE  PInv'
<1>1. /\ step = "send" /\ step' = step /\ altered' = "changed"
      /\ UNCHANGED <<message, step, format, little, args, ds, faulted, type, got, heap, code>>
  BY DEF Change
<1>2. PICK i \in DOMAIN wire, byte \in Noise : wire' = [wire EXCEPT ![i] = byte]
  BY DEF Change
<1>3. wire \in Seq(Byte) /\ MessageOK(message) /\ Known(message.format)
  BY <1>1 DEF PInv, Typed, TypeOK, Composed, Sending
<1>4. wire' \in Seq(Byte)
  <2>1. byte \in Byte /\ i \in 1 .. Len(wire)
    BY <1>2, <1>3, NoiseAssumption
  <2> QED
    BY <1>2, <1>3, <2>1
<1>5. Typed'
  BY <1>1, <1>4 DEF PInv, Typed, TypeOK
<1>6. Composed' /\ Packing' /\ Sending' /\ Ending' /\ Following'
  BY <1>1, <1>3 DEF Composed, Packing, Sending, Arrives, Ending, RoundTrip, Following
<1> QED
  BY <1>5, <1>6 DEF PInv

\* What is sent starts with the packet type.
LEMMA WholeStart ==
    ASSUME MessageOK(message)
    PROVE  /\ Whole \in Seq(Byte) /\ Len(Whole) \in Nat
           /\ message.to # "application" => Len(Whole) >= 1 /\ Whole[1] = Number(message.type)
<1> DEFINE F == message.format
           w == Walk(message)
<1>1. /\ Fits(F, message.values) /\ Packs(F, message.values, Start(message), w.items, w.order, w.bytes)
      /\ Len(F) \in Nat
  BY WalkIs, MessageFields DEF MessageOK
<1>2. Len(F) \in 0 .. Len(F) /\ 0 \in 0 .. Len(F)
  BY <1>1
<1>3. Whole = w.bytes[Len(F)] /\ w.bytes[Len(F)] \in Seq(Byte) /\ w.bytes[0] = Start(message)
  BY <1>1, <1>2 DEF Packs, Whole
<1>4. Extends(Start(message), Whole)
  <2>1. Extends(w.bytes[0], w.bytes[Len(F)])
    <3> HIDE DEF F, w
    <3> QED
      BY <1>1, <1>2, PacksExtends
  <2> QED
    BY <1>3, <2>1
<1>5. message.to # "application" =>
        Len(Start(message)) = 1 /\ Start(message)[1] = Number(message.type)
  BY DEF Start
<1>6. message.to # "application" => Len(Whole) >= 1 /\ Whole[1] = Number(message.type)
  <2>1. 1 \in 1 .. 1
    OBVIOUS
  <2> QED
    BY <1>4, <1>5, <2>1 DEF Extends
<1> QED
  BY <1>3, <1>6

LEMMA ReceiveStarts ==
    ASSUME IInv, PInv, Receive
    PROVE  PInv'
<1>1. /\ step = "send" /\ little' = TRUE
      /\ UNCHANGED <<message, args, wire, altered, faulted, type, got, heap>>
  BY DEF Receive
<1>2. /\ wire \in Seq(Byte) /\ Len(wire) \in Nat /\ Arrives /\ MessageOK(message)
      /\ Known(message.format) /\ code = "NONE" /\ got = <<>>
  <2>1. code = "NONE" /\ got = <<>>
    BY <1>1 DEF IInv
  <2>2. wire \in Seq(Byte) /\ Len(wire) \in Nat
    <3>1. wire \in Seq(Byte)
      BY DEF PInv, Typed, TypeOK
    <3> QED
      BY <3>1
  <2>3. Arrives /\ MessageOK(message) /\ Known(message.format)
    BY <1>1 DEF PInv, Sending, Composed
  <2> QED
    BY <2>1, <2>2, <2>3
<1>3. CASE message.to = "server" /\ NoString
  <2>1. step' = "done" /\ code' = "INVALID_ARGUMENTS" /\ UNCHANGED <<format, ds>>
    BY <1>3 DEF Receive, Ends
  <2>2. altered # "no"
    <3> SUFFICES ASSUME altered = "no" PROVE FALSE
      OBVIOUS
    <3>1. Number(message.type) # 0
      BY <1>2, <1>3, Numbers DEF MessageOK
    <3>2. Len(Whole) \in Nat /\ Len(Whole) >= 1 /\ Whole[1] = Number(message.type)
      BY <1>2, <1>3, WholeStart
    <3>3. Len(wire) = Len(Whole) /\ \A i \in 1 .. Len(wire) : wire[i] = Whole[i]
      BY <1>2 DEF Arrives
    <3>4. 1 \in 1 .. Len(wire) /\ Len(wire) # 0
      BY <3>2, <3>3
    <3>5. wire # <<>> /\ wire[1] # 0
      BY <1>2, <3>1, <3>2, <3>3, <3>4
    <3> QED
      BY <1>3, <3>5 DEF NoString
  <2>3. Typed'
    BY <1>1, <2>1 DEF PInv, Typed, TypeOK, Codes
  <2>4. RoundTrip'
    BY <1>1, <2>2 DEF RoundTrip
  <2> QED
    BY <1>1, <2>1, <2>3, <2>4, DoneEnds
<1>4. CASE ~(message.to = "server" /\ NoString)
  <2>1. /\ ds' = New(wire) /\ code' = code
        /\ step' = (IF message.to = "application" THEN "unpack" ELSE "type")
        /\ message.to = "application" => format' = message.reads
    BY <1>4 DEF Receive
  <2>2. ds' \in Buffer /\ ds'.bytes = wire /\ ds'.position = 0 /\ 0 \in 0 .. Len(wire)
    BY <1>2, <2>1 DEF New, Buffer
  <2>3. Typed'
    <3>1. step' \in {"unpack", "type"} /\ ds'.position \in 0 .. Len(ds'.bytes)
      BY <2>1, <2>2
    <3> QED
      BY <1>1, <1>2, <2>1, <2>2, <3>1 DEF PInv, Typed, TypeOK
  <2>4. Arrives'
    BY <1>1, <1>2 DEF Arrives, Whole
  <2>5. Composed' /\ Packing' /\ Sending' /\ Ending'
    BY <1>1, <1>2, <2>1, <2>2, <2>4 DEF Composed, Packing, Sending, Ending, RoundTrip
  <2>6. message.to = "application" => Reached(0)' /\ Left(0)'
    <3> SUFFICES ASSUME message.to = "application" PROVE Reached(0)' /\ Left(0)'
      OBVIOUS
    <3>1. /\ 0 \in 0 .. Len(message.format) /\ Walk(message).items[0] = <<>>
          /\ Walk(message).order[0] = TRUE /\ Walk(message).bytes[0] = <<>> /\ Len(<<>>) = 0
      BY <1>2, AtStart DEF Start
    <3>2. message.reads \in Seq(Characters) /\ Len(message.reads) \in Nat
      BY <1>2, ReadsFormat
    <3>3. 0 \in 0 .. Len(message.reads)
          /\ SubSeq(message.reads, 0 + 1, Len(message.reads)) = message.reads
      BY <3>2, WholeSub
    <3>4. Reached(0)'
      BY <1>1, <1>2, <2>2, <3>1 DEF Reached
    <3>5. Left(0)'
      BY <1>1, <2>1, <3>3 DEF Left, Layout
    <3> QED
      BY <3>4, <3>5
  <2>7. Following'
    <3>1. step' \in {"unpack", "type"} /\ (step' = "unpack" => message.to = "application")
      BY <2>1
    <3>2. SameType' \/ step' = "type"
      BY <1>1, <3>1, <2>1 DEF SameType
    <3>3. altered # "changed" => GotSent'
      BY <1>1, GotSentKeeps DEF PInv, Following
    <3>4. step' = "unpack" => \E p : Reached(p)' /\ Left(p)'
      BY <2>6, <3>1
    <3> QED
      BY <1>1, <3>1, <3>2, <3>3, <3>4 DEF Following
  <2> QED
    BY <2>3, <2>5, <2>7 DEF PInv
<1> QED
  BY <1>3, <1>4

LEMMA ReceiveFailsEnds ==
    ASSUME IInv, PInv, ReceiveFails
    PROVE  PInv'
<1>1. /\ step = "send" /\ step' = "done" /\ faulted' = TRUE /\ code' \in {"MEMORY", "UNKNOWN"}
      /\ UNCHANGED <<message, format, little, args, ds, wire, altered, type, got, heap>>
  BY DEF ReceiveFails, Ends, Fault
<1>2. Typed'
  BY <1>1 DEF PInv, Typed, TypeOK, Codes, BpackCodes
<1>3. RoundTrip'
  BY <1>1 DEF RoundTrip
<1> QED
  BY <1>1, <1>2, <1>3, DoneEnds

\* The first byte is the type that was packed.
LEMMA TypeRead ==
    ASSUME IInv, PInv, step = "type"
    PROVE  /\ altered = "no" => Readable(ds, 1)
           /\ Readable(ds, 1) =>
                /\ Ahead(ds, 0, 1)[1] \in Byte
                /\ altered # "changed" => PacketType(Ahead(ds, 0, 1)[1]) = message.type
<1>1. /\ MessageOK(message) /\ Arrives /\ ds.bytes = wire /\ ds.position = 0
      /\ message.to # "application" /\ ds \in Buffer
  BY DEF PInv, Composed, Sending, Typed
<1>2. wire \in Seq(Byte) /\ Len(wire) \in Nat
  BY <1>1, BufferFields
<1>3. /\ Len(Whole) \in Nat /\ Len(Whole) >= 1 /\ Whole[1] = Number(message.type)
  BY <1>1, WholeStart
<1>4. PacketType(Number(message.type)) = message.type
  <2>1. message.type \in Requests \cup Responses \cup {"ERROR"}
    BY <1>1 DEF MessageOK
  <2> QED
    BY <2>1, Numbers
<1>5. Readable(ds, 1) <=> Len(wire) >= 1
  BY <1>1, <1>2 DEF Readable
<1>6. altered = "no" => Len(wire) = Len(Whole)
  BY <1>1 DEF Arrives
<1>7. ASSUME Readable(ds, 1)
      PROVE  Ahead(ds, 0, 1)[1] \in Byte /\ Ahead(ds, 0, 1)[1] = wire[1] /\ 1 \in 1 .. Len(wire)
  <2>1. /\ Ahead(ds, 0, 1) \in Seq(Byte) /\ Len(Ahead(ds, 0, 1)) = 1
        /\ \A i \in 1 .. 1 : Ahead(ds, 0, 1)[i] = ds.bytes[ds.position + (0 + i)]
    <3>1. 0 \in Nat /\ 1 \in Nat /\ 0 + 1 = 1
      OBVIOUS
    <3> QED
      BY <1>1, <1>7, <3>1, AheadType
  <2>2. 1 \in 1 .. 1 /\ ds.position + (0 + 1) = 1
    BY <1>1
  <2>3. Ahead(ds, 0, 1)[1] \in Byte
    BY <2>1, <2>2
  <2>4. 1 \in 1 .. Len(wire)
    BY <1>2, <1>5, <1>7
  <2> QED
    BY <1>1, <2>1, <2>2, <2>3, <2>4
<1>8. altered # "changed" => \A i \in 1 .. Len(wire) : wire[i] = Whole[i]
  BY <1>1 DEF Arrives
<1> QED
  BY <1>3, <1>4, <1>5, <1>6, <1>7, <1>8

\* What a client unpacks of the answer: for a list of keys, their number first.
LEMMA ClientLayout ==
    ASSUME NEW m, MessageOK(m), m.to = "client"
    PROVE  /\ m.type = "ENUM" => /\ ClientFormat(m.type) = <<"l">>
                                 /\ 1 \in 1 .. Len(m.format) /\ m.format[1] = "l"
           /\ m.type # "ENUM" => ClientFormat(m.type) = m.format
           /\ m.type \in {"ERROR", m.expects}
<1>1. m.type = "ENUM" => KeysFormat(m) /\ ClientFormat(m.type) = <<"l">>
  BY DEF MessageOK, ClientFormat
<1>2. /\ Len(<<"l">>) = 1 /\ Len(<<"l", "b">>) = 2 /\ 1 \in 1 .. 1 /\ 1 \in 1 .. 2
      /\ <<"l">>[1] = "l" /\ <<"l", "b">>[1] = "l"
  OBVIOUS
<1>3. m.type = "ENUM" => 1 \in 1 .. Len(m.format) /\ m.format[1] = "l"
  BY <1>1, <1>2 DEF KeysFormat
<1> QED
  BY <1>1, <1>3 DEF MessageOK

LEMMA ReadTypeStarts ==
    ASSUME IInv, PInv, ReadType
    PROVE  PInv'
<1> DEFINE byte == Ahead(ds, 0, 1)[1]
           m == message
<1>1. /\ step = "type" /\ Readable(ds, 1) /\ ds' = [ds EXCEPT !.position = @ + 1]
      /\ type' = PacketType(byte)
      /\ UNCHANGED <<message, little, args, wire, altered, faulted, got, heap>>
  BY DEF ReadType
<1>2. byte \in Byte /\ (altered # "changed" => type' = m.type)
  BY <1>1, TypeRead
<1>3. /\ MessageOK(m) /\ Arrives /\ Known(m.format) /\ ds \in Buffer /\ ds.bytes = wire
      /\ ds.position = 0 /\ little = TRUE /\ m.to # "application"
  BY <1>1 DEF PInv, Composed, Sending, Typed
<1>4. got = <<>> /\ code = "NONE"
  BY <1>1 DEF IInv
<1>5. ds' \in Buffer /\ ds'.bytes = ds.bytes /\ ds'.position = 1
      /\ 1 \in 0 .. Len(ds.bytes) /\ ds.bytes \in Seq(Byte)
  <2>1. ds.bytes \in Seq(Byte) /\ ds.position = 0 /\ 0 + 1 \in Nat
    BY <1>3, BufferFields
  <2>2. ds' = [ds EXCEPT !.position = 0 + 1]
    BY <1>1, <1>3
  <2>3. ds' \in Buffer /\ ds'.bytes = ds.bytes /\ ds'.position = 0 + 1
    BY <1>3, <2>1, <2>2 DEF Buffer
  <2>4. 0 + 1 = 1 /\ 1 \in 0 .. Len(ds.bytes)
    BY <1>1, <1>3, <2>1 DEF Readable
  <2> QED
    BY <2>1, <2>3, <2>4
<1>6. type' \in Range(PacketTypes) \cup {"none", "other"}
  <2>1. CASE byte < Len(PacketTypes)
    <3>1. PacketTypes \in Seq(Range(PacketTypes)) /\ DOMAIN PacketTypes = 1 .. Len(PacketTypes)
          /\ Len(PacketTypes) = 20
      BY DEF PacketTypes, Range
    <3>2. byte \in Nat
      BY <1>2, SizesPositive DEF Byte
    <3> HIDE DEF byte
    <3>3. byte + 1 \in DOMAIN PacketTypes
      BY <2>1, <3>1, <3>2
    <3> QED
      BY <1>1, <2>1, <3>3 DEF PacketType, Range
  <2>2. CASE ~(byte < Len(PacketTypes))
    BY <1>1, <2>2 DEF PacketType
  <2> QED
    BY <2>1, <2>2
<1> HIDE DEF byte
<1>7. Typed' \/ (step' \notin {"unpack", "done"} \/ code' \notin {"NONE", "UNKNOWN"})
  BY <1>1, <1>3, <1>5, <1>6 DEF PInv, Typed, TypeOK, Codes
<1>8. CASE ~(m.to = "server" \/ type' \in {"ERROR", m.expects})
  <2>1. step' = "done" /\ code' = "UNKNOWN"
    BY <1>8 DEF ReadType, Ends
  <2>2. altered = "changed"
    BY <1>2, <1>3, <1>8, ClientLayout DEF MessageOK
  <2>3. RoundTrip'
    BY <1>1, <2>2 DEF RoundTrip
  <2> QED
    BY <1>1, <1>7, <2>1, <2>3, DoneEnds
<1>9. CASE m.to = "server" \/ type' \in {"ERROR", m.expects}
  <2>1. /\ step' = "unpack" /\ code' = code
        /\ m.to = "server" => format' = <<"s", "s">>
        /\ m.to # "server" => format' = ClientFormat(type')
    BY <1>9 DEF ReadType
  <2>2. Arrives'
    BY <1>1, <1>3 DEF Arrives, Whole
  <2>3. Composed' /\ Packing' /\ Sending' /\ Ending'
    BY <1>1, <1>3, <1>5, <2>1, <2>2 DEF Composed, Packing, Sending, Ending, RoundTrip
  <2>4. Reached(0)'
    <3>1. /\ 0 \in 0 .. Len(m.format) /\ Walk(m).items[0] = <<>>
          /\ Walk(m).order[0] = TRUE /\ Walk(m).bytes[0] = Start(m) /\ Len(<<>>) = 0
      BY <1>3, AtStart
    <3>2. Len(Start(m)) = 1
      BY <1>3 DEF Start
    <3> QED
      BY <1>1, <1>3, <1>4, <1>5, <3>1, <3>2 DEF Reached
  <2>5. altered # "changed" => Left(0)'
    <3> SUFFICES ASSUME altered # "changed" PROVE Left(0)'
      OBVIOUS
    <3>1. CASE m.to = "server"
      <4>1. Layout' = <<"s", "s">>
        BY <1>1, <2>1, <3>1 DEF Layout
      <4>2. Len(<<"s", "s">>) = 2 /\ SubSeq(<<"s", "s">>, 0 + 1, 2) = <<"s", "s">> /\ 0 \in 0 .. 2
        BY PartOfTwo
      <4> QED
        BY <1>1, <2>1, <3>1, <4>1, <4>2 DEF Left
    <3>2. CASE m.to # "server"
      <4>1. m.to = "client" /\ Layout' = m.format /\ type' = m.type
        BY <1>1, <1>2, <1>3, <3>2 DEF Layout, MessageOK
      <4>2. m.format \in Seq(Characters) /\ 0 \in 0 .. Len(m.format)
            /\ SubSeq(m.format, 0 + 1, Len(m.format)) = m.format
        BY <1>3, MessageFields, WholeSub
      <4>3. CASE m.type = "ENUM"
        <5>1. format' = <<"l">>
          BY <1>3, <2>1, <3>2, <4>1, <4>3, ClientLayout
        <5> QED
          BY <1>1, <4>1, <4>2, <4>3, <5>1 DEF Left
      <4>4. CASE m.type # "ENUM"
        <5>1. format' = m.format
          BY <1>3, <2>1, <3>2, <4>1, <4>4, ClientLayout
        <5> QED
          BY <1>1, <4>1, <4>2, <4>4, <5>1 DEF Left
      <4> QED
        BY <4>3, <4>4
    <3> QED
      BY <3>1, <3>2
  <2>6. Following'
    <3>1. altered # "changed" => SameType'
      BY <1>1, <1>2 DEF SameType
    <3>2. altered # "changed" => GotSent'
      BY <1>1, GotSentKeeps DEF PInv, Following
    <3>3. altered # "changed" => \E p : Reached(p)' /\ Left(p)'
      BY <2>4, <2>5
    <3> QED
      BY <1>1, <2>1, <3>1, <3>2, <3>3 DEF Following
  <2> QED
    BY <1>4, <1>7, <2>1, <2>3, <2>6 DEF PInv
<1> QED
  BY <1>8, <1>9

LEMMA ReadNoTypeEnds ==
    ASSUME IInv, PInv, ReadNoType
    PROVE  PInv'
<1>1. /\ step = "type" /\ step' = "done" /\ code' = "UNKNOWN" /\ ~Readable(ds, 1)
      /\ UNCHANGED <<message, format, little, args, ds, wire, altered, faulted, type, got, heap>>
  BY DEF ReadNoType, Ends
<1>2. Typed'
  BY <1>1 DEF PInv, Typed, TypeOK, Codes
<1>3. RoundTrip'
  BY <1>1, TypeRead DEF RoundTrip
<1> QED
  BY <1>1, <1>2, <1>3, DoneEnds

----------------------------------------------------------------------------
(* The side that unpacks. *)

\* Domain and key, and the value of a setter.
LEMMA RequestLayout ==
    ASSUME NEW t \in Requests
    PROVE  /\ Len(RequestFormat(t)) \in Nat /\ 2 <= Len(RequestFormat(t))
           /\ RequestFormat(t)[1] = "s" /\ RequestFormat(t)[2] = "s"
           /\ SubSeq(RequestFormat(t), 2 + 1, Len(RequestFormat(t))) = ServerFormat(t)
<1> DEFINE F == RequestFormat(t)
<1>1. CASE t \in Setters
  <2>1. PICK item : RequestValue[t] = item /\ ServerFormat(t) = <<item>>
    BY <1>1 DEF RequestValue, ServerFormat, Setters
  <2>2. F = <<"s", "s", item>>
    BY <1>1, <2>1, ConcatTwo DEF RequestFormat
  <2>3. SubSeq(<<"s", "s", item>>, 3, 3) = <<item>>
    <3> DEFINE s == <<"s", "s", item>>
               u == <<item>>
               S == {"s", item}
    <3>1. /\ s \in Seq(S) /\ Len(s) = 3 /\ s[3] = item
          /\ u \in Seq(S) /\ Len(u) = 1 /\ u[1] = item /\ item \in S
      OBVIOUS
    <3> HIDE DEF s, u, S
    <3>2. /\ SubSeq(s, 3, 3) \in Seq(S) /\ Len(SubSeq(s, 3, 3)) = 1
          /\ SubSeq(s, 3, 3)[1] = s[3]
      BY <3>1
    <3>3. \A i \in 1 .. 1 : SubSeq(s, 3, 3)[i] = u[i]
      BY <3>1, <3>2
    <3>4. SubSeq(s, 3, 3) = u
      BY <3>1, <3>2, <3>3, SeqEqual
    <3> QED
      BY <3>4 DEF s, u
  <2>4. /\ Len(<<"s", "s", item>>) = 3 /\ <<"s", "s", item>>[1] = "s"
        /\ <<"s", "s", item>>[2] = "s" /\ 2 + 1 = 3 /\ 3 \in Nat /\ 2 <= 3
    OBVIOUS
  <2> QED
    BY <2>1, <2>2, <2>3, <2>4
<1>2. CASE t \notin Setters
  <2>1. F = <<"s", "s">> \o <<>> /\ ServerFormat(t) = <<>>
    BY <1>2 DEF RequestFormat, ServerFormat, Setters
  <2>2. <<"s", "s">> \o <<>> = <<"s", "s">>
    OBVIOUS
  <2>3. /\ Len(<<"s", "s">>) = 2 /\ <<"s", "s">>[1] = "s" /\ <<"s", "s">>[2] = "s"
        /\ 2 \in Nat /\ 2 <= 2
    OBVIOUS
  <2>4. SubSeq(<<"s", "s">>, 2 + 1, 2) = <<>>
    OBVIOUS
  <2> QED
    BY <2>1, <2>2, <2>3, <2>4
<1> QED
  BY <1>1, <1>2

\* Where the reader's format has a known character, the writer's has the same.
LEMMA LayoutAgrees ==
    ASSUME MessageOK(message)
    PROVE  /\ Layout \in Seq(Characters) /\ Len(Layout) \in Nat
           /\ \A i \in 1 .. Len(Layout) : Layout[i] \in Items \cup Switches =>
                i \in 1 .. Len(message.format) /\ Layout[i] = message.format[i]
           /\ message.to # "application" => Layout \in Seq(Items)
<1> DEFINE F == message.format
<1>1. F \in Seq(Characters) /\ Len(F) \in Nat /\ (message.to # "application" => F \in Seq(Items))
  BY MessageFields
<1>2. CASE message.to = "application"
  <2>1. Layout = message.reads
    BY <1>2 DEF Layout
  <2>2. /\ message.reads \in Seq(Characters)
        /\ \A i \in 1 .. Len(F) : i \in 1 .. Len(message.reads) /\ message.reads[i] = F[i]
        /\ \A i \in 1 .. Len(message.reads) :
                message.reads[i] \in Items \cup Switches => i \in 1 .. Len(F)
    BY ReadsFormat
  <2> HIDE DEF F
  <2>3. Len(message.reads) \in Nat
    BY <2>2
  <2> QED
    BY <1>2, <2>1, <2>2, <2>3 DEF F
<1>3. CASE message.to = "server" /\ step = "unpack"
  <2>1. Layout = <<"s", "s">>
    BY <1>3 DEF Layout
  <2>2. Len(F) \in Nat /\ 2 <= Len(F) /\ F[1] = "s" /\ F[2] = "s"
    BY <1>3, RequestLayout DEF MessageOK
  <2>3. "s" \in Items /\ "s" \in Characters
    BY DEF Items, Characters
  <2>4. /\ <<"s", "s">> \in Seq(Characters) /\ <<"s", "s">> \in Seq(Items)
        /\ Len(<<"s", "s">>) = 2 /\ 2 \in Nat
        /\ <<"s", "s">>[1] = "s" /\ <<"s", "s">>[2] = "s"
    BY <2>3
  <2>5. \A i \in 1 .. 2 : (i = 1 \/ i = 2) /\ i \in 1 .. Len(F)
    BY <2>2
  <2> QED
    BY <2>1, <2>2, <2>4, <2>5
<1>4. CASE message.to # "application" /\ ~(message.to = "server" /\ step = "unpack")
  BY <1>1, <1>4 DEF Layout
<1> QED
  BY <1>2, <1>3, <1>4

\* The reader is after the p-th character, and the next one is the writer's.
ReadingAt(p) ==
    /\ Reached(p) /\ Left(p)
    /\ p \in 0 .. Len(message.format) - 1 /\ Head(format) = message.format[p + 1]
    /\ p + 1 \in 0 .. Len(Layout) /\ p + 1 # 0
    /\ \/ message.to = "client" /\ type = "ENUM" /\ p = 0 /\ format = <<"l">>
       \/ Tail(format) = SubSeq(Layout, (p + 1) + 1, Len(Layout))

LEMMA ReadNext ==
    ASSUME PInv, Reading, altered # "changed", Head(format) \in Items \cup Switches
    PROVE  \E p : ReadingAt(p)
<1> DEFINE F == message.format
<1>1. /\ step \in {"unpack", "value"} /\ format # <<>>
      /\ MessageOK(message) /\ SameType /\ \E p : Reached(p) /\ Left(p)
  BY DEF Reading, At, PInv, Composed, Following
<1>2. PICK p : Reached(p) /\ Left(p)
  BY <1>1
<1>3. /\ Layout \in Seq(Characters) /\ Len(Layout) \in Nat /\ Len(F) \in Nat
      /\ \A i \in 1 .. Len(Layout) : Layout[i] \in Items \cup Switches =>
                i \in 1 .. Len(F) /\ Layout[i] = F[i]
  BY <1>1, LayoutAgrees, MessageFields
<1>4. p \in 0 .. Len(Layout) /\ p \in 0 .. Len(F)
  BY <1>2 DEF Left, Reached
<1>5. CASE message.to = "client" /\ type = "ENUM" /\ p = 0
  <2>1. format = <<"l">> /\ Head(<<"l">>) = "l"
    BY <1>2, <1>5 DEF Left
  <2>2. 1 \in 1 .. Len(F) /\ F[1] = "l"
    BY <1>1, <1>5, ClientLayout DEF SameType
  <2>3. Layout = F
    BY <1>5 DEF Layout
  <2>4. p + 1 = 1 /\ p \in 0 .. Len(F) - 1 /\ p + 1 \in 0 .. Len(Layout)
    BY <1>3, <1>5, <2>2, <2>3
  <2> QED
    BY <1>2, <1>5, <2>1, <2>2, <2>4 DEF ReadingAt
<1>6. CASE ~(message.to = "client" /\ type = "ENUM" /\ p = 0)
  <2>1. format = SubSeq(Layout, p + 1, Len(Layout))
    BY <1>2, <1>6 DEF Left
  <2>2. /\ p + 1 \in 1 .. Len(Layout) /\ Head(format) = Layout[p + 1]
        /\ Tail(format) = SubSeq(Layout, (p + 1) + 1, Len(Layout))
    <3> HIDE DEF F
    <3> QED
      BY <1>1, <1>3, <1>4, <2>1, RestOf
  <2>3. p + 1 \in 1 .. Len(F) /\ Layout[p + 1] = F[p + 1]
    BY <1>3, <2>2
  <2>4. p \in 0 .. Len(F) - 1 /\ p + 1 \in 0 .. Len(Layout) /\ p + 1 # 0
    BY <1>3, <1>4, <2>2, <2>3
  <2> QED
    BY <1>2, <2>2, <2>3, <2>4 DEF ReadingAt
<1> QED
  BY <1>5, <1>6

LEMMA ReadSwitchStarts ==
    ASSUME IInv, PInv, Switch, step = "unpack"
    PROVE  PInv'
<1>1. /\ At("unpack") /\ Head(format) \in Switches
      /\ (little' <=> Head(format) = "<") /\ little' \in BOOLEAN /\ format' = Tail(format)
      /\ UNCHANGED <<message, step, args, ds, wire, altered, faulted, type, got, heap, code>>
  BY DEF Switch, At
<1>2. MessageOK(message) /\ Arrives /\ Known(message.format) /\ ds.bytes = wire
  BY DEF PInv, Composed, Sending
<1>3. Typed'
  BY <1>1 DEF PInv, Typed, TypeOK
<1>4. Arrives'
  BY <1>1, <1>2 DEF Arrives, Whole
<1>5. Composed' /\ Packing' /\ Sending' /\ Ending'
  BY <1>1, <1>2, <1>4 DEF Composed, Packing, Sending, Ending, RoundTrip
<1>6. ASSUME altered # "changed" PROVE \E p : Reached(p)' /\ Left(p)'
  <2>1. PICK p : ReadingAt(p)
    BY <1>1, <1>6, ReadNext DEF Reading
  <2> DEFINE w == Walk(message)
             F == message.format
  <2>2. /\ Fits(F, message.values) /\ Len(F) \in Nat
        /\ Packs(F, message.values, Start(message), w.items, w.order, w.bytes)
    BY <1>2, WalkIs, MessageFields DEF MessageOK
  <2>3. PICK q \in 1 .. Len(F) : q = p + 1 /\ q - 1 = p
    BY <2>1, <2>2 DEF ReadingAt
  <2>4. F[q] \in Switches /\ Head(format) = F[q]
    BY <1>1, <2>1, <2>3 DEF ReadingAt
  <2>5. /\ w.items[q] = w.items[q - 1] /\ w.bytes[q] = w.bytes[q - 1]
        /\ w.order[q] <=> F[q] = "<"
    <3> HIDE DEF w, F
    <3> QED
      BY <2>2, <2>4, PacksSwitch
  <2>6. Len(got) = Len(w.items[p]) /\ ds.position = Len(w.bytes[p])
    BY <2>1 DEF ReadingAt, Reached
  <2>7. Reached(q)'
    <3>1. q \in 0 .. Len(F)
      BY <2>2
    <3> QED
      BY <1>1, <2>3, <2>4, <2>5, <2>6, <3>1 DEF Reached
  <2>8. Tail(format) = SubSeq(Layout, q + 1, Len(Layout)) /\ q \in 0 .. Len(Layout) /\ q # 0
    <3>1. format # <<"l">>
      <4>1. Head(<<"l">>) = "l" /\ "l" \notin Switches
        BY DEF Switches
      <4> QED
        BY <1>1, <4>1
    <3> QED
      BY <2>1, <2>3, <3>1 DEF ReadingAt
  <2>9. Left(q)'
    <3>1. Layout' = Layout
      BY <1>1 DEF Layout
    <3> QED
      BY <1>1, <2>8, <3>1 DEF Left
  <2> QED
    BY <2>7, <2>9
<1>7. Following'
  <2>1. altered # "changed" => SameType' /\ GotSent'
    BY <1>1, GotSentKeeps DEF PInv, Following, SameType
  <2> QED
    BY <1>1, <1>6, <2>1 DEF Following
<1> QED
  BY <1>3, <1>5, <1>7 DEF PInv

LEMMA ReadInvalidEnds ==
    ASSUME IInv, PInv, InvalidFormat, step = "unpack"
    PROVE  PInv'
<1>1. /\ At("unpack") /\ format # <<>> /\ Head(format) \notin Items \cup Switches
      /\ step' = "done" /\ code' = "BPACK_INVALID_FORMAT_STRING"
      /\ UNCHANGED <<message, format, little, args, ds, wire, altered, faulted, type, got, heap>>
  BY DEF InvalidFormat, At, Ends
<1>2. Typed'
  BY <1>1 DEF PInv, Typed, TypeOK, Codes, BpackCodes
<1>3. ASSUME altered = "no" PROVE ~Known(message.reads)
  <2>1. MessageOK(message) /\ \E p : Reached(p) /\ Left(p)
    BY <1>3 DEF PInv, Composed, Following
  <2>2. PICK p : Reached(p) /\ Left(p)
    BY <2>1
  <2>3. /\ Layout \in Seq(Characters) /\ Len(Layout) \in Nat /\ p \in 0 .. Len(Layout)
        /\ message.to # "application" => Layout \in Seq(Items)
    BY <2>1, <2>2, LayoutAgrees DEF Left
  <2>4. format = SubSeq(Layout, p + 1, Len(Layout))
    <3>1. Head(<<"l">>) = "l" /\ "l" \in Items
      BY DEF Items
    <3>2. format # <<"l">>
      BY <1>1, <3>1
    <3> QED
      BY <2>2, <3>2 DEF Left
  <2>5. p + 1 \in 1 .. Len(Layout) /\ Head(format) = Layout[p + 1]
    BY <1>1, <2>3, <2>4, RestOf
  <2>6. message.to = "application"
    <3> SUFFICES ASSUME message.to # "application" PROVE FALSE
      OBVIOUS
    <3>1. Layout[p + 1] \in Items
      BY <2>3, <2>5
    <3> QED
      BY <1>1, <2>5, <3>1
  <2>7. Layout = message.reads /\ DOMAIN Layout = 1 .. Len(Layout)
    BY <2>3, <2>6 DEF Layout
  <2> QED
    BY <1>1, <2>5, <2>7 DEF Known
<1>4. RoundTrip'
  BY <1>1, <1>3 DEF RoundTrip
<1> QED
  BY <1>1, <1>2, <1>4, DoneEnds

\* What is left after an item: a list of keys is there if their number is positive.
LEMMA RestLeft ==
    ASSUME PInv, NEW p, ReadingAt(p), SameType, Result.code = "OK",
           Result.val = Sent[Len(got) + 1], Len(got) + 1 \in 1 .. Len(message.values)
    PROVE  Rest = SubSeq(Layout, (p + 1) + 1, Len(Layout))
<1> DEFINE F == message.format
           V == message.values
<1>1. p \in 0 .. Len(F) - 1 /\ Head(format) = F[p + 1] /\ Len(got) = Len(Walk(message).items[p])
  BY DEF ReadingAt, Reached
<1>2. CASE ~(message.to = "client" /\ type = "ENUM" /\ Head(format) = "l")
  <2>1. Rest = Tail(format)
    BY <1>2 DEF Rest
  <2>2. Head(<<"l">>) = "l"
    OBVIOUS
  <2> QED
    BY <1>2, <2>1, <2>2 DEF ReadingAt
<1>3. CASE message.to = "client" /\ type = "ENUM" /\ Head(format) = "l"
  <2>1. MessageOK(message)
    BY <1>3 DEF PInv, Composed, NoMessage
  <2>2. KeysFormat(message) /\ Layout = F /\ F \in Seq(Items) /\ Fits(F, V)
    BY <1>3, <2>1 DEF MessageOK, SameType, Layout
  <2>3. /\ Len(<<"l">>) = 1 /\ Len(<<"l", "b">>) = 2 /\ <<"l", "b">>[2] = "b"
        /\ <<"l">>[1] = "l" /\ <<"l", "b">>[1] = "l" /\ "b" # "l"
    OBVIOUS
  <2>4. p = 0
    <3>1. p \in Int /\ F[p + 1] = "l" /\ p + 1 \in 1 .. Len(F)
      BY <1>1, <1>3, <2>1, MessageFields
    <3>2. CASE F = <<"l">>
      BY <2>3, <3>1, <3>2
    <3>3. CASE F = <<"l", "b">>
      <4>1. p + 1 = 1 \/ p + 1 = 2
        BY <2>3, <3>1, <3>3
      <4> QED
        BY <2>3, <3>1, <3>3, <4>1
    <3> QED
      BY <2>2, <3>2, <3>3 DEF KeysFormat
  <2>5. Len(got) + 1 = 1
    <3>1. Walk(message).items[0] = <<>> /\ Len(<<>>) = 0
      BY <2>1, AtStart
    <3> QED
      BY <1>1, <2>4, <3>1
  <2>6. Result.val = V[1]
    <3>1. 1 \in DOMAIN V
      BY <2>2, <2>5 DEF Fits
    <3>2. ItemsOf(F)[1] = "l" /\ "l" # "d"
      <4>1. F[1] = "l" /\ ItemsOf(F) = F
        BY <2>2, <2>3, ItemsOfItems DEF KeysFormat
      <4> QED
        BY <4>1
    <3>3. Sent[1] = V[1]
      BY <3>1, <3>2 DEF Sent
    <3> QED
      BY <2>5, <3>3
  <2>7. CASE F = <<"l">> /\ ~(V[1] > 0)
    <3>1. format = <<"l">>
      <4>1. Head(<<"l">>) = "l"
        OBVIOUS
      <4>2. Left(p)
        BY DEF ReadingAt
      <4> QED
        BY <1>3, <2>4, <4>2 DEF Left
    <3>2. Rest = <<>>
      <4>1. Tail(<<"l">>) = <<>>
        OBVIOUS
      <4> QED
        BY <2>6, <2>7, <3>1, <4>1 DEF Rest
    <3>3. SubSeq(<<"l">>, (0 + 1) + 1, 1) = <<>>
      OBVIOUS
    <3> QED
      BY <2>2, <2>3, <2>4, <2>7, <3>2, <3>3
  <2>8. CASE F = <<"l", "b">> /\ V[1] > 0
    <3>1. Rest = <<"b">>
      BY <1>3, <2>6, <2>8 DEF Rest
    <3>2. SubSeq(<<"l", "b">>, (0 + 1) + 1, 2) = <<"b">>
      <4> DEFINE s == <<"l", "b">>
                 u == <<"b">>
                 S == {"l", "b"}
      <4>1. /\ s \in Seq(S) /\ Len(s) = 2 /\ s[2] = "b" /\ (0 + 1) + 1 = 2
            /\ u \in Seq(S) /\ Len(u) = 1 /\ u[1] = "b" /\ "b" \in S
        OBVIOUS
      <4> HIDE DEF s, u, S
      <4>2. /\ SubSeq(s, 2, 2) \in Seq(S) /\ Len(SubSeq(s, 2, 2)) = 1
            /\ SubSeq(s, 2, 2)[1] = s[2]
        BY <4>1
      <4>3. \A i \in 1 .. 1 : SubSeq(s, 2, 2)[i] = u[i]
        BY <4>1, <4>2
      <4>4. SubSeq(s, 2, 2) = u
        BY <4>1, <4>2, <4>3, SeqEqual
      <4> QED
        BY <4>1, <4>4 DEF s, u
    <3> QED
      BY <2>2, <2>3, <2>4, <2>8, <3>1, <3>2
  <2> QED
    BY <2>2, <2>7, <2>8 DEF KeysFormat
<1> QED
  BY <1>2, <1>3

\* Both sides agree on the item that is unpacked.
LEMMA ItemRead ==
    ASSUME IInv, PInv, Reading, altered # "changed", Head(format) \in Items
    PROVE  \E p : /\ ReadingAt(p) /\ SameType
                  /\ Result.code = "OK" =>
                        /\ Result.val = Sent[Len(got) + 1]
                        /\ ds.position + Result.length = Len(Walk(message).bytes[p + 1])
                  /\ altered = "no" => Result.code = "OK"
                  /\ Len(got) + 1 = Len(Walk(message).items[p + 1])
                  /\ Len(got) \in Nat /\ Len(got) + 1 \in 1 .. Len(message.values)
                  /\ little <=> Walk(message).order[p + 1]
<1>1. step \in {"unpack", "value"}
  BY DEF Reading, At
<1>2. PICK p : ReadingAt(p)
  BY ReadNext
<1>3. MessageOK(message) /\ ds.bytes = wire /\ Arrives /\ SameType
  BY <1>1 DEF PInv, Composed, Sending, Following
<1>4. ds \in Buffer /\ little \in BOOLEAN /\ ds.position <= Len(ds.bytes)
  <2>1. ds \in Buffer /\ little \in BOOLEAN /\ ds.position \in 0 .. Len(ds.bytes)
    BY DEF PInv, Typed, TypeOK
  <2> QED
    BY <2>1, BufferFields
<1>5. /\ p \in 0 .. Len(message.format) - 1 /\ Reached(p)
      /\ Head(format) = message.format[p + 1]
  BY <1>2 DEF ReadingAt
<1>6. /\ Result.code = "OK" =>
            /\ Result.val = Sent[Len(got) + 1]
            /\ ds.position + Result.length = Len(Walk(message).bytes[p + 1])
      /\ altered = "no" => Result.code = "OK"
      /\ Len(got) + 1 = Len(Walk(message).items[p + 1])
      /\ Len(got) \in Nat /\ Len(got) + 1 \in 1 .. Len(message.values)
      /\ little <=> Walk(message).order[p + 1]
  <2> HIDE DEF Result
  <2> QED
    BY <1>3, <1>4, <1>5, ReadItem
<1> QED
  BY <1>2, <1>3, <1>6

LEMMA UnpackStarts ==
    ASSUME IInv, IInv', PInv, Unpack
    PROVE  PInv'
<1>1. /\ Reading /\ step \in {"unpack", "value"} /\ Head(format) \in Items
      /\ Result.code = "OK" /\ got' = Append(got, Result.val)
      /\ ds' = [ds EXCEPT !.position = @ + Result.length] /\ format' = Rest
      /\ UNCHANGED <<message, step, little, args, wire, altered, faulted, type, code>>
  BY DEF Unpack, Reading, At
<1>2. /\ MessageOK(message) /\ ds.bytes = wire /\ Arrives /\ Known(message.format)
  BY <1>1 DEF PInv, Composed, Sending
<1>3. ds \in Buffer /\ little \in BOOLEAN
  BY DEF PInv, Typed, TypeOK
<1>4. /\ ds' \in Buffer /\ ds'.bytes = ds.bytes /\ ds'.position = ds.position + Result.length
      /\ ds'.bytes \in Seq(Byte) /\ ds'.position \in 0 .. Len(ds'.bytes)
  <2>1. Result.length \in Nat /\ Readable(ds, Result.length)
    BY <1>1, <1>3, UnpackedType DEF Result
  <2> DEFINE k == Result.length
  <2> HIDE DEF k
  <2>2. /\ ds.position \in Nat /\ ds.bytes \in Seq(Byte) /\ Len(ds.bytes) \in Nat
    BY <1>3, BufferFields
  <2>3. /\ k \in Nat /\ ds.position + k <= Len(ds.bytes)
        /\ ds' = [ds EXCEPT !.position = ds.position + k]
    BY <1>1, <2>1 DEF k, Readable
  <2>4. ds.position + k \in Nat /\ ds.position + k \in 0 .. Len(ds.bytes)
    BY <2>2, <2>3
  <2>5. ds'.bytes = ds.bytes /\ ds'.position = ds.position + k /\ ds' \in Buffer
    BY <1>3, <2>2, <2>3, <2>4 DEF Buffer
  <2> QED
    BY <2>2, <2>4, <2>5 DEF k
<1> HIDE DEF Result
<1>5. Typed'
  <2>1. heap' \in [{"domain", "key", "value"} -> {"none", "held", "freed", "freed twice"}]
    BY DEF IInv, Memory
  <2> QED
    BY <1>1, <1>4, <2>1 DEF PInv, Typed, TypeOK
<1>6. Arrives'
  BY <1>1, <1>2 DEF Arrives, Whole
<1>7. Composed' /\ Packing' /\ Sending' /\ Ending'
  BY <1>1, <1>2, <1>4, <1>6 DEF Composed, Packing, Sending, Ending, RoundTrip
<1>8. ASSUME altered # "changed"
      PROVE  SameType' /\ GotSent' /\ \E p : Reached(p)' /\ Left(p)'
  <2>1. PICK p : /\ ReadingAt(p) /\ SameType
                 /\ Result.code = "OK" =>
                        /\ Result.val = Sent[Len(got) + 1]
                        /\ ds.position + Result.length = Len(Walk(message).bytes[p + 1])
                 /\ altered = "no" => Result.code = "OK"
                 /\ Len(got) + 1 = Len(Walk(message).items[p + 1])
                 /\ Len(got) \in Nat /\ Len(got) + 1 \in 1 .. Len(message.values)
                 /\ little <=> Walk(message).order[p + 1]
    BY <1>1, <1>8, ItemRead
  <2>2. SameType'
    BY <1>1, <2>1 DEF SameType
  <2>3. PICK S : got \in Seq(S)
    BY DEF IInv
  <2>4. Len(got') = Len(got) + 1 /\ got'[Len(got) + 1] = Result.val
        /\ \A i \in 1 .. Len(got) : got'[i] = got[i]
    <3> DEFINE e == Result.val
               T == S \cup {e}
    <3>1. got \in Seq(T) /\ e \in T /\ got' = Append(got, e)
      BY <1>1, <2>3, SeqMonotonic
    <3> HIDE DEF e, T
    <3>2. Len(got') = Len(got) + 1 /\ got'[Len(got) + 1] = e
          /\ \A i \in 1 .. Len(got) : got'[i] = got[i]
      BY <3>1
    <3> QED
      BY <3>2 DEF e
  <2>5. GotSent'
    <3>1. GotSent
      BY <1>8 DEF PInv, Following
    <3>2. Sent' = Sent /\ Result.val = Sent[Len(got) + 1]
      BY <1>1, <2>1 DEF Sent
    <3>3. \A i \in 1 .. Len(got) + 1 : i \in 1 .. Len(got) \/ i = Len(got) + 1
      BY <2>1
    <3>4. \A i \in 1 .. Len(got') : got'[i] = Sent[i]
      BY <2>4, <3>1, <3>2, <3>3 DEF GotSent
    <3>5. Len(got') <= Len(message.values)
      <4>1. Len(message.values) \in Nat
        BY <1>2, MessageFields
      <4> QED
        BY <2>1, <2>4, <4>1
    <3> QED
      BY <1>1, <3>2, <3>4, <3>5 DEF GotSent
  <2>6. Reached(p + 1)'
    <3>1. p + 1 \in 0 .. Len(message.format)
      <4>1. p \in 0 .. Len(message.format) - 1 /\ Len(message.format) \in Nat
        BY <1>2, <2>1, MessageFields DEF ReadingAt
      <4> QED
        BY <4>1
    <3>2. ds'.position = Len(Walk(message).bytes[p + 1])
      BY <1>1, <1>4, <2>1
    <3> QED
      BY <1>1, <2>1, <2>4, <3>1, <3>2 DEF Reached
  <2>7. Left(p + 1)'
    <3>1. Rest = SubSeq(Layout, (p + 1) + 1, Len(Layout))
      BY <1>1, <2>1, RestLeft
    <3>2. Layout' = Layout /\ p + 1 \in 0 .. Len(Layout) /\ p + 1 # 0
      BY <1>1, <2>1 DEF Layout, ReadingAt
    <3> QED
      BY <1>1, <3>1, <3>2 DEF Left
  <2> QED
    BY <2>2, <2>5, <2>6, <2>7
<1>9. Following'
  BY <1>1, <1>8 DEF Following
<1> QED
  BY <1>5, <1>7, <1>9 DEF PInv

\* The reader gives up only if the bytes were not those packed, or memory ran out.
LEMMA GivesUpStarts ==
    ASSUME IInv, IInv', PInv, UnpackRefused \/ UnpackFails
    PROVE  PInv'
<1>1. Reading /\ step \in {"unpack", "value"} /\ Head(format) \in Items
  BY DEF UnpackRefused, UnpackFails, Reading, At, Items
<1>2. PICK result : GivesUp(result) /\ result \in {"BPACK_READ", "BUNPACK_INVALID_DATA", "MEMORY"}
  <2>1. CASE UnpackRefused
    <3>1. ds \in Buffer /\ little \in BOOLEAN
      BY DEF PInv, Typed, TypeOK
    <3>2. Result.code \in {"OK", "BPACK_READ", "BUNPACK_INVALID_DATA", "MEMORY"}
      BY <1>1, <3>1, UnpackedType DEF Result
    <3> QED
      BY <2>1, <3>2 DEF UnpackRefused
  <2>2. CASE UnpackFails
    BY <2>2 DEF UnpackFails
  <2> QED
    BY <2>1, <2>2
<1>3. /\ step' \in {"response", "done"} /\ code' = result
      /\ UNCHANGED <<message, format, little, args, ds, wire, altered, type, got>>
  BY <1>2 DEF GivesUp
<1>4. faulted' \in BOOLEAN /\ (altered = "no" => faulted')
  <2>1. CASE UnpackRefused
    <3>1. faulted' = faulted /\ faulted \in BOOLEAN
      BY <2>1 DEF UnpackRefused, PInv, Typed, TypeOK
    <3>2. altered = "no" => Result.code = "OK"
      <4> SUFFICES ASSUME altered = "no" PROVE Result.code = "OK"
        OBVIOUS
      <4> HIDE DEF Result
      <4> QED
        BY <1>1, ItemRead
    <3>3. altered # "no"
      BY <2>1, <3>2 DEF UnpackRefused
    <3> QED
      BY <3>1, <3>3
  <2>2. CASE UnpackFails
    BY <2>2 DEF UnpackFails, Fault
  <2> QED
    BY <2>1, <2>2
<1>5. Typed'
  <2>1. heap' \in [{"domain", "key", "value"} -> {"none", "held", "freed", "freed twice"}]
    BY DEF IInv, Memory
  <2> QED
    BY <1>2, <1>3, <1>4, <2>1 DEF PInv, Typed, TypeOK, Codes, BpackCodes
<1>6. RoundTrip'
  BY <1>3, <1>4 DEF RoundTrip
<1>7. code' \notin {"OK", "REFUSED", "NONE"}
  BY <1>2, <1>3
<1>8. CASE step' = "done"
  BY <1>1, <1>3, <1>5, <1>6, <1>7, <1>8, DoneEnds
<1>9. CASE step' = "response"
  <2>1. MessageOK(message) /\ ds.bytes = wire /\ Arrives /\ Known(message.format)
    BY <1>1 DEF PInv, Composed, Sending
  <2>2. Arrives'
    BY <1>3, <2>1 DEF Arrives, Whole
  <2>3. Composed' /\ Packing' /\ Sending' /\ Ending'
    BY <1>3, <1>6, <1>9, <2>1, <2>2 DEF Composed, Packing, Sending, Ending
  <2>4. altered # "changed" => GotSent'
    BY <1>3, GotSentKeeps DEF PInv, Following
  <2>5. altered \in {"no", "cut", "changed"}
    BY DEF PInv, Typed, TypeOK
  <2>6. Following'
    BY <1>3, <1>4, <1>7, <1>9, <2>4, <2>5 DEF Following
  <2> QED
    BY <1>5, <2>3, <2>6 DEF PInv
<1> QED
  BY <1>3, <1>8, <1>9

\* At the end of its format the reader has everything.
LEMMA AllRead ==
    ASSUME IInv, PInv, step \in {"unpack", "value"}, altered # "changed",
           Reached(Len(message.format))
    PROVE  altered = "no" /\ got = Sent /\ ds.position = Len(wire)
<1> DEFINE F == message.format
           V == message.values
           w == Walk(message)
           n == Len(F)
<1>1. MessageOK(message) /\ Arrives /\ ds.bytes = wire /\ GotSent /\ ds \in Buffer
  BY DEF PInv, Composed, Sending, Following, Typed
<1>2. ds.position \in 0 .. Len(ds.bytes) /\ altered \in {"no", "cut", "changed"}
  BY DEF PInv, Typed, TypeOK
<1>3. ds.position = Len(w.bytes[n]) /\ w.bytes[n] = Whole /\ Len(got) = Len(w.items[n])
  BY DEF Reached, Whole
<1>4. Len(Whole) \in Nat /\ Len(wire) \in Nat
  BY <1>1, WholeStart, BufferFields
<1>5. Len(wire) = Len(Whole) /\ altered = "no" /\ ds.position = Len(wire)
  <2>1. Len(wire) <= Len(Whole) /\ (altered = "no" <=> Len(wire) = Len(Whole))
    BY <1>1 DEF Arrives
  <2>2. Len(Whole) <= Len(wire)
    BY <1>1, <1>2, <1>3
  <2> QED
    BY <1>3, <1>4, <2>1, <2>2
<1>6. Len(got) = Len(V) /\ V \in Seq(Payload) /\ Len(V) \in Nat
  <2>1. Fits(F, V) /\ Packs(F, V, Start(message), w.items, w.order, w.bytes)
    BY <1>1, WalkIs DEF MessageOK
  <2>2. Len(w.items[n]) = Len(V)
    <3> HIDE DEF w, F, V
    <3> QED
      BY <2>1 DEF Packs, Fits
  <2> QED
    BY <1>3, <2>1, <2>2 DEF Fits
<1>7. got = Sent
  <2>1. PICK S : got \in Seq(S)
    BY DEF IInv
  <2>2. got = [i \in 1 .. Len(V) |-> got[i]]
    BY <1>6, <2>1
  <2>3. Sent = [i \in 1 .. Len(V) |-> Sent[i]]
    BY <1>6 DEF Sent
  <2>4. \A i \in 1 .. Len(V) : got[i] = Sent[i]
    BY <1>1, <1>6 DEF GotSent
  <2> HIDE DEF V
  <2> QED
    BY <2>2, <2>3, <2>4
<1> QED
  BY <1>5, <1>7

\* The end of the reader's format, if it is known, is the end of the writer's.
LEMMA LayoutEnds ==
    ASSUME PInv, step \in {"unpack", "value"}, format = <<>>, NEW p, Reached(p), Left(p)
    PROVE  /\ p = Len(Layout) /\ p \in 0 .. Len(message.format)
           /\ Layout = message.reads => p = Len(message.format) /\ Known(message.reads)
<1>1. MessageOK(message) /\ Known(message.format)
  BY DEF PInv, Composed, Sending
<1>2. Layout \in Seq(Characters) /\ Len(Layout) \in Nat /\ p \in 0 .. Len(Layout)
  BY <1>1, LayoutAgrees DEF Left
<1>3. p = Len(Layout)
  <2>1. <<"l">> # <<>>
    OBVIOUS
  <2>2. format = SubSeq(Layout, p + 1, Len(Layout))
    BY <2>1 DEF Left
  <2> QED
    BY <1>2, <2>2, RestOf
<1>4. p \in 0 .. Len(message.format) /\ Len(message.format) \in Nat
      /\ message.format \in Seq(Characters)
  BY <1>1, MessageFields DEF Reached
<1>5. /\ message.reads \in Seq(Characters)
      /\ \A i \in 1 .. Len(message.format) :
            i \in 1 .. Len(message.reads) /\ message.reads[i] = message.format[i]
  BY <1>1, ReadsFormat
<1>6. ASSUME Layout = message.reads
      PROVE  p = Len(message.format) /\ Known(message.reads)
  <2>1. p = Len(message.reads)
    BY <1>3, <1>6
  <2>2. p = Len(message.format)
    <3>1. CASE Len(message.format) = 0
      BY <1>4, <3>1
    <3>2. CASE Len(message.format) # 0
      <4>1. Len(message.format) \in 1 .. Len(message.format)
        BY <1>4, <3>2
      <4>2. Len(message.format) \in 1 .. Len(message.reads)
        BY <1>5, <4>1
      <4> QED
        BY <1>4, <2>1, <4>2
    <3> QED
      BY <3>1, <3>2
  <2>3. \A i \in DOMAIN message.reads : i \in DOMAIN message.format /\ message.reads[i] = message.format[i]
    <3>1. DOMAIN message.reads = 1 .. Len(message.reads)
      BY <1>5
    <3>2. DOMAIN message.format = 1 .. Len(message.format)
      BY <1>4
    <3> QED
      BY <1>5, <2>1, <2>2, <3>1, <3>2
  <2> QED
    BY <1>1, <2>2, <2>3 DEF Known
<1> QED
  BY <1>3, <1>4, <1>6

LEMMA UnpacksStarts ==
    ASSUME IInv, PInv, Unpacks
    PROVE  PInv'
<1>1. /\ step = "unpack" /\ format = <<>>
      /\ UNCHANGED <<message, format, little, args, ds, wire, altered, faulted, type, got, heap>>
  BY DEF Unpacks, Ended
<1>2. code = "NONE"
  BY <1>1 DEF IInv
<1>3. MessageOK(message) /\ ds.bytes = wire /\ Arrives /\ Known(message.format)
  BY <1>1 DEF PInv, Composed, Sending
<1>4. altered # "changed" => SameType /\ GotSent /\ \E p : Reached(p) /\ Left(p)
  BY <1>1 DEF PInv, Following
<1>5. CASE message.to = "server"
  <2>1. step' = "response" /\ code' = code
    BY <1>5 DEF Unpacks
  <2>2. Typed'
    BY <1>1, <2>1 DEF PInv, Typed, TypeOK
  <2>3. Arrives'
    BY <1>1, <1>3 DEF Arrives, Whole
  <2>4. Composed' /\ Packing' /\ Sending' /\ Ending'
    BY <1>1, <1>3, <2>1, <2>3 DEF Composed, Packing, Sending, Ending, RoundTrip
  <2>5. ASSUME altered # "changed" PROVE SameType' /\ Reached(2)' /\ GotSent'
    <3>1. PICK p : Reached(p) /\ Left(p)
      BY <1>4, <2>5
    <3>2. Len(Layout) = 2
      <4>1. Len(<<"s", "s">>) = 2
        OBVIOUS
      <4> QED
        BY <1>1, <1>5, <4>1 DEF Layout
    <3>3. p = 2
      BY <1>1, <3>1, <3>2, LayoutEnds
    <3>4. Reached(2)'
      BY <1>1, <3>1, <3>3 DEF Reached
    <3> QED
      BY <1>1, <1>4, <2>5, <3>4, GotSentKeeps DEF SameType
  <2>6. Following'
    BY <1>1, <1>2, <2>1, <2>5 DEF Following
  <2> QED
    BY <2>2, <2>4, <2>6 DEF PInv
<1>6. CASE message.to # "server"
  <2>1. step' = "done" /\ code' = "OK"
    BY <1>6 DEF Unpacks, Ends
  <2>2. Typed'
    BY <1>1, <2>1 DEF PInv, Typed, TypeOK, Codes, BpackCodes
  <2>3. ASSUME altered # "changed"
        PROVE  altered = "no" /\ got = Sent /\ ds.position = Len(wire) /\ Known(message.reads)
    <3>1. PICK p : Reached(p) /\ Left(p)
      BY <1>4, <2>3
    <3>2. Layout = message.reads
      BY <1>3, <1>6 DEF Layout, MessageOK
    <3>3. p = Len(message.format) /\ Known(message.reads)
      BY <1>1, <3>1, <3>2, LayoutEnds
    <3> QED
      BY <1>1, <2>3, <3>1, <3>3, AllRead
  <2>4. RoundTrip'
    BY <1>1, <2>1, <2>3 DEF RoundTrip, Sent
  <2> QED
    BY <1>1, <2>1, <2>2, <2>3, <2>4, DoneEnds
<1> QED
  BY <1>5, <1>6

LEMMA DispatchStarts ==
    ASSUME IInv, PInv, Dispatch
    PROVE  PInv'
<1>1. /\ step = "response"
      /\ UNCHANGED <<message, little, args, ds, wire, altered, faulted, type, got, heap, code>>
  BY DEF Dispatch
<1>2. message.to = "server"
  BY <1>1 DEF IInv
<1>3. MessageOK(message) /\ ds.bytes = wire /\ Arrives /\ Known(message.format)
  BY <1>1 DEF PInv, Composed, Sending
<1>4. CASE code = "NONE"
  <2>1. step' = "value" /\ format' = ServerFormat(type)
    BY <1>4 DEF Dispatch
  <2>2. Typed'
    BY <1>1, <2>1 DEF PInv, Typed, TypeOK
  <2>3. Arrives'
    BY <1>1, <1>3 DEF Arrives, Whole
  <2>4. Composed' /\ Packing' /\ Sending' /\ Ending'
    BY <1>1, <1>3, <2>1, <2>3 DEF Composed, Packing, Sending, Ending, RoundTrip
  <2>5. ASSUME altered # "changed"
        PROVE  SameType' /\ GotSent' /\ \E p : Reached(p)' /\ Left(p)'
    <3>1. SameType /\ Reached(2) /\ GotSent
      BY <1>1, <1>4, <2>5 DEF PInv, Following
    <3>2. Reached(2)'
      BY <1>1, <3>1 DEF Reached
    <3>3. Left(2)'
      <4>1. Layout' = message.format
        BY <1>1, <1>2, <2>1 DEF Layout
      <4>2. type = message.type /\ type \in Requests /\ message.format = RequestFormat(type)
        BY <1>2, <1>3, <3>1 DEF SameType, MessageOK
      <4>3. Len(message.format) \in Nat /\ 2 <= Len(message.format)
            /\ SubSeq(message.format, 2 + 1, Len(message.format)) = ServerFormat(type)
        BY <4>2, RequestLayout
      <4>4. 2 \in 0 .. Len(message.format)
        BY <4>3
      <4> QED
        BY <1>1, <1>2, <2>1, <4>1, <4>3, <4>4 DEF Left
    <3> QED
      BY <1>1, <3>1, <3>2, <3>3, GotSentKeeps DEF SameType
  <2>6. Following'
    BY <1>1, <2>1, <2>5 DEF Following
  <2> QED
    BY <2>2, <2>4, <2>6 DEF PInv
<1>5. CASE code # "NONE"
  <2>1. step' = "done" /\ code \notin {"OK", "REFUSED"} /\ (altered = "no" => faulted)
    BY <1>1, <1>5 DEF Dispatch, PInv, Following
  <2>2. Typed'
    BY <1>1, <2>1 DEF PInv, Typed, TypeOK
  <2>3. RoundTrip'
    BY <1>1, <2>1 DEF RoundTrip
  <2> QED
    BY <1>1, <2>1, <2>2, <2>3, DoneEnds
<1> QED
  BY <1>4, <1>5

LEMMA DispatchFailsEnds ==
    ASSUME IInv, IInv', PInv, DispatchFails
    PROVE  PInv'
<1>1. /\ step = "response" /\ step' = "done" /\ code' = "UNKNOWN" /\ faulted' = TRUE
      /\ UNCHANGED <<message, format, little, args, ds, wire, altered, type, got>>
  BY DEF DispatchFails, Ends, Fault
<1>2. Typed'
  <2>1. heap' \in [{"domain", "key", "value"} -> {"none", "held", "freed", "freed twice"}]
    BY DEF IInv, Memory
  <2> QED
    BY <1>1, <2>1 DEF PInv, Typed, TypeOK, Codes
<1>3. RoundTrip'
  BY <1>1 DEF RoundTrip
<1> QED
  BY <1>1, <1>2, <1>3, DoneEnds

LEMMA ServeEnds ==
    ASSUME IInv, IInv', PInv, Serve
    PROVE  PInv'
<1>1. /\ step = "value" /\ format = <<>> /\ step' = "done"
      /\ code' \in {"OK", "REFUSED", "UNKNOWN"}
      /\ type \in Requests => code' \in {"OK", "REFUSED"}
      /\ UNCHANGED <<message, format, little, args, ds, wire, altered, faulted, type, got>>
  <2>1. "SHUTDOWN" \notin Requests
    BY DEF Requests
  <2> QED
    BY <2>1 DEF Serve, Ends, Ended
<1>2. message.to = "server"
  BY <1>1 DEF IInv
<1>3. Typed'
  <2>1. heap' \in [{"domain", "key", "value"} -> {"none", "held", "freed", "freed twice"}]
    BY DEF IInv, Memory
  <2> QED
    BY <1>1, <2>1 DEF PInv, Typed, TypeOK, Codes, BpackCodes
<1>4. ASSUME altered # "changed"
      PROVE  /\ altered = "no" /\ got = Sent /\ ds.position = Len(wire) /\ Known(message.reads)
             /\ type \in Requests
  <2>1. MessageOK(message) /\ SameType /\ \E p : Reached(p) /\ Left(p)
    BY <1>1, <1>4 DEF PInv, Composed, Following
  <2>2. PICK p : Reached(p) /\ Left(p)
    BY <2>1
  <2>3. Layout = message.reads /\ type \in Requests
    BY <1>1, <1>2, <2>1 DEF Layout, MessageOK, SameType
  <2>4. p = Len(message.format) /\ Known(message.reads)
    BY <1>1, <2>2, <2>3, LayoutEnds
  <2> QED
    BY <1>1, <1>4, <2>2, <2>3, <2>4, AllRead
<1>5. RoundTrip'
  BY <1>1, <1>4 DEF RoundTrip, Sent
<1> QED
  BY <1>1, <1>3, <1>4, <1>5, DoneEnds

LEMMA StutterStays ==
    ASSUME PInv, UNCHANGED vars
    PROVE  PInv'
<1>1. /\ Typed' = Typed /\ Composed' = Composed
  BY DEF vars, Typed, TypeOK, Composed
<1>2. Packing' = Packing
  BY DEF vars, Packing, PackedTo
<1>3. Sending' = Sending
  BY DEF vars, Sending, Arrives, Whole
<1>4. Following' = Following
  BY DEF vars, Following, SameType, Reached, Left, Layout, GotSent, Sent
<1>5. Ending' = Ending
  BY DEF vars, Ending, RoundTrip, Sent
<1> QED
  BY <1>1, <1>2, <1>3, <1>4, <1>5 DEF PInv

LEMMA NextStays ==
    ASSUME IInv, PInv, [Next]_vars
    PROVE  PInv'
<1>1. IInv'
  BY NextKeeps
<1>2. CASE ComposeAny
  BY <1>2, ComposeStarts
<1>3. CASE Stamp
  BY <1>3, StampStarts
<1>4. CASE Pack
  BY <1>4, PackStarts
<1>5. CASE Switch
  <2>1. step = "pack" \/ step = "unpack"
    BY <1>5 DEF Switch, At
  <2> QED
    BY <1>5, <2>1, PackSwitchStarts, ReadSwitchStarts
<1>6. CASE InvalidFormat
  <2>1. step = "pack" \/ step = "unpack"
    BY <1>6 DEF InvalidFormat, At
  <2> QED
    BY <1>6, <2>1, PackInvalidEnds, ReadInvalidEnds
<1>7. CASE Send
  BY <1>7, SendStarts
<1>8. CASE Cut \/ Change
  BY <1>8, CutStarts, ChangeStarts
<1>9. CASE Receive
  BY <1>9, ReceiveStarts
<1>10. CASE ReadType \/ ReadNoType
  BY <1>10, ReadTypeStarts, ReadNoTypeEnds
<1>11. CASE Unpack
  BY <1>1, <1>11, UnpackStarts
<1>12. CASE UnpackRefused \/ UnpackFails
  BY <1>1, <1>12, GivesUpStarts
<1>13. CASE Unpacks
  BY <1>13, UnpacksStarts
<1>14. CASE Dispatch
  BY <1>14, DispatchStarts
<1>15. CASE Serve
  BY <1>1, <1>15, ServeEnds
<1>16. CASE PackFails
  BY <1>16, PackFailsEnds
<1>17. CASE ReceiveFails
  BY <1>17, ReceiveFailsEnds
<1>18. CASE DispatchFails
  BY <1>1, <1>18, DispatchFailsEnds
<1>19. CASE UNCHANGED vars
  BY <1>19, StutterStays
<1> QED
  BY <1>2, <1>3, <1>4, <1>5, <1>6, <1>7, <1>8, <1>9, <1>10, <1>11, <1>12, <1>13, <1>14, <1>15,
     <1>16, <1>17, <1>18, <1>19 DEF Next, PackStep, UnpackStep, Failure, Done

LEMMA PacketsState == Spec => [](IInv /\ PInv)
<1>1. Init => IInv /\ PInv
  BY InitHolds, InitStarts
<1>2. (IInv /\ PInv) /\ [Next]_vars => (IInv /\ PInv)'
  BY NextKeeps, NextStays
<1> QED
  BY <1>1, <1>2, PTL DEF Spec

\* What was unpacked is what was sent first.
LEMMA SentFirst ==
    ASSUME IInv, PInv, altered # "changed"
    PROVE  IsPrefix(got, Sent)
<1> DEFINE V == message.values
           n == Len(got)
<1>1. PICK S : got \in Seq(S)
  BY DEF IInv
<1>2. V \in Seq(Payload) /\ Len(V) \in Nat
  <2>1. CASE step = "idle"
    <3>1. V = <<>> /\ <<>> \in Seq(Payload) /\ Len(<<>>) = 0
      BY <2>1 DEF PInv, Composed, NoMessage
    <3> QED
      BY <3>1
  <2>2. CASE step # "idle"
    BY <2>2, MessageFields DEF PInv, Composed
  <2> QED
    BY <2>1, <2>2
<1>3. GotSent
  BY DEF PInv, Following
<1> DEFINE T == {Sent[i] : i \in 1 .. Len(V)}
<1>4. Sent \in Seq(T) /\ Len(Sent) = Len(V)
  <2>1. Sent = [i \in 1 .. Len(V) |-> Sent[i]]
    BY <1>2 DEF Sent
  <2> HIDE DEF V
  <2> QED
    BY <1>2, <2>1
<1> HIDE DEF T
<1>5. n \in Nat /\ n <= Len(Sent) /\ Len(Sent) \in Nat /\ \A i \in 1 .. n : got[i] = Sent[i]
  BY <1>1, <1>2, <1>3, <1>4 DEF GotSent
<1> DEFINE a == SubSeq(got, 1, n)
           b == SubSeq(Sent, 1, n)
<1>6. /\ a \in Seq(S) /\ Len(a) = n /\ \A i \in 1 .. n : a[i] = got[i]
      /\ b \in Seq(T) /\ Len(b) = n /\ \A i \in 1 .. n : b[i] = Sent[i]
  <2> DEFINE s == Sent
  <2>1. s \in Seq(T) /\ n <= Len(s) /\ b = SubSeq(s, 1, n)
    BY <1>4, <1>5
  <2> HIDE DEF s
  <2>2. b \in Seq(T) /\ Len(b) = n /\ \A i \in 1 .. n : b[i] = s[i]
    BY <1>5, <2>1
  <2> QED
    BY <1>1, <1>5, <2>2 DEF s
<1>7. a = b
  <2>1. S \subseteq S \cup T /\ T \subseteq S \cup T
    OBVIOUS
  <2> HIDE DEF a, b
  <2>2. a \in Seq(S \cup T) /\ b \in Seq(S \cup T)
    BY <1>6, <2>1, SeqMonotonic
  <2> QED
    BY <1>5, <1>6, <2>2, SeqEqual
<1> QED
  BY <1>5, <1>7 DEF IsPrefix

----------------------------------------------------------------------------
\* Every buffer holds bytes, its position is never beyond its end, and both sides of a packet
\* end with a code of their own, whatever is packed, cut off or changed
\* (simple-memory-buffer.c:12-90, bpack.c:77-391).
THEOREM PacketsTypeCorrect == Spec => []TypeOK
<1>1. PInv => TypeOK
  BY DEF PInv, Typed
<1> QED
  BY <1>1, PacketsState, PTL

\* What bpack wrote is what bunpack reads, to the last byte, for all values and formats of an
\* application, for the ten requests of registry.c and for each answer of server.c
\* (bpack.c:77-361, registry.c:264-1055, server.c:99-245).
THEOREM PacketsRoundTrip == Spec => []RoundTrip
<1>1. PInv => RoundTrip
  BY DEF PInv, Ending
<1> QED
  BY <1>1, PacketsState, PTL

\* Wherever a packet is cut off, the reader does not take it for a whole one, and the values
\* it has by then are those that were packed (bpack.c:191-361, server.c:69-75, 112-200).
THEOREM PacketsCutIsNoticed == Spec => []CutIsNoticed
<1>1. IInv /\ PInv => CutIsNoticed
  BY SentFirst DEF PInv, Ending, CutIsNoticed
<1> QED
  BY <1>1, PacketsState, PTL

LEMMA AcceptsOnlyPacked ==
    ASSUME TypeOK, ds \in Buffer, Unpack
    PROVE  LET bytes == Ahead(ds, 0, Result.length) IN
           \/ Loses(Head(format), bytes, Result.val)
           \/ bytes = Packed(Head(format), Result.val, little)
<1> DEFINE item == Head(format)
           r == Result
           bytes == Ahead(ds, 0, r.length)
<1>1. item \in Items /\ r.code = "OK" /\ little \in BOOLEAN /\ r = Unpacked(item, ds, little)
  BY DEF Unpack, TypeOK, Result
<1> QED
  BY <1>1, ItemOnlyPacked DEF Loses

\* No bytes but those that bpack writes for a value are taken for it, except where a string
\* ends early or a small double is rounded (bpack.c:191-361).
THEOREM PacketsOnlyPacked == Spec => OnlyPackedIsAccepted
<1> DEFINE A == Unpack => LET bytes == Ahead(ds, 0, Result.length) IN
                          \/ Loses(Head(format), bytes, Result.val)
                          \/ bytes = Packed(Head(format), Result.val, little)
<1>1. PInv /\ [Next]_vars => [A]_vars
  BY AcceptsOnlyPacked DEF PInv, Typed
<1> HIDE DEF A
<1>2. Spec => [][A]_vars
  BY <1>1, PacketsState, PTL DEF Spec
<1> QED
  BY <1>2 DEF A, OnlyPackedIsAccepted
=============================================================================
