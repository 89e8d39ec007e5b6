--------------------------- MODULE RegistryProofs ---------------------------
(***************************************************************************)
(* For every chain of stages, every set of keys and values and every       *)
(* bound: the inductive invariant IInv of Registry, and what follows.      *)
(***************************************************************************)
EXTENDS Registry, TLAPS

----------------------------------------------------------------------------
(* Messages and their digests. *)

LEMMA SignedMessage ==
    ASSUME TypeOK, NEW m \in Message, NEW s \in 1 .. Top
    PROVE  /\ chain[s] \in Stages
           /\ Signed(m, chain[s]) \in Message
           /\ Signed(m, chain[s]).packet = m.packet
           /\ Carries(m, Top - s) => Carries(Signed(m, chain[s]), Top - (s - 1))
<1> DEFINE k == chain[s]
           d == m.digests
<1>1. k \in Stages /\ d \in Seq(Stages) /\ Top \in Nat
  BY DEF TypeOK, Message, Top
<1>2. Signed(m, k) = [packet |-> m.packet, digests |-> Append(d, k)]
  <2> DEFINE e == Append(d, k)
  <2>1. Signed(m, k) = [m EXCEPT !.digests = e]
    BY DEF Signed
  <2> HIDE DEF e
  <2>2. [m EXCEPT !.digests = e] = [packet |-> m.packet, digests |-> e]
    BY DEF Message
  <2> QED
    BY <2>1, <2>2 DEF e
<1>3. Append(d, k) \in Seq(Stages)
  BY <1>1
<1>4. ASSUME Carries(m, Top - s)
      PROVE  Carries(Signed(m, k), Top - (s - 1))
  <2>1. Len(d) = Top - s /\ \A j \in 1 .. Top - s : d[j] = chain[Top + 1 - j]
    BY <1>4 DEF Carries
  <2>2. Len(Append(d, k)) = Top - s + 1 /\ Append(d, k)[Top - s + 1] = k
    BY <1>1, <2>1
  <2>3. \A j \in 1 .. Top - s : Append(d, k)[j] = d[j]
    BY <1>1, <2>1
  <2>4. \A j \in 1 .. Top - (s - 1) : Append(d, k)[j] = chain[Top + 1 - j]
    BY <1>1, <2>1, <2>2, <2>3
  <2> QED
    BY <1>1, <1>2, <2>2, <2>4 DEF Carries
<1> QED
  BY <1>1, <1>2, <1>3, <1>4 DEF Message

\* A stage finds its own digest last and cuts exactly this one off.
LEMMA StrippedMessage ==
    ASSUME TypeOK, NEW m \in Message, NEW s \in 1 .. Top
    PROVE  /\ Stripped(m, chain[s]) \in Message
           /\ Stripped(m, chain[s]).packet = m.packet
           /\ Carries(m, Top + 1 - s) =>
                Genuine(m, chain[s]) /\ Carries(Stripped(m, chain[s]), Top + 1 - (s + 1))
<1> DEFINE k == chain[s]
           d == m.digests
           cut == SubSeq(d, 1, Len(d) - 1)
<1>1. k \in Stages /\ d \in Seq(Stages) /\ Len(d) \in Nat /\ Top \in Nat
  BY DEF TypeOK, Message, Top
<1>2. d # <<>> => cut \in Seq(Stages) /\ Len(cut) = Len(d) - 1 /\ \A j \in 1 .. Len(d) - 1 : cut[j] = d[j]
  BY <1>1
<1>3. [m EXCEPT !.digests = cut] = [packet |-> m.packet, digests |-> cut]
  BY DEF Message
<1>4. ASSUME Carries(m, Top + 1 - s)
      PROVE  Genuine(m, k) /\ Carries(Stripped(m, k), Top + 1 - (s + 1))
  <2>1. Len(d) = Top + 1 - s /\ \A j \in 1 .. Top + 1 - s : d[j] = chain[Top + 1 - j]
    BY <1>4 DEF Carries
  <2>2. Len(d) >= 1 /\ d[Len(d)] = k
    BY <1>1, <2>1
  <2>3. d # <<>>
    BY <2>2
  <2>4. Stripped(m, k) = [packet |-> m.packet, digests |-> cut]
    BY <1>3, <2>2, <2>3 DEF Stripped, LastDigest
  <2>5. Len(cut) = Top + 1 - (s + 1) /\ \A j \in 1 .. Top + 1 - (s + 1) : cut[j] = chain[Top + 1 - j]
    <3>1. Top + 1 - (s + 1) = Len(d) - 1 /\ Len(cut) = Len(d) - 1
      BY <1>1, <1>2, <2>1, <2>3
    <3>2. \A j \in 1 .. Len(d) - 1 : cut[j] = chain[Top + 1 - j]
      <4>1. \A j \in 1 .. Len(d) - 1 : j \in 1 .. Top + 1 - s
        BY <1>1, <2>1
      <4> QED
        BY <1>2, <2>1, <2>3, <4>1
    <3> QED
      BY <3>1, <3>2
  <2> QED
    BY <2>2, <2>3, <2>4, <2>5 DEF Genuine, LastDigest, Carries
<1> QED
  BY <1>1, <1>2, <1>3, <1>4 DEF Message, Stripped
----------------------------------------------------------------------------
(* Steps that pass the message on, from one place in the chain to the next. *)

\* A step that moves the message within the request's way down, or within the
\* response's way back, keeps everything that does not speak of the place.
LEMMA MoveKeeps ==
    ASSUME IInv,
           UNCHANGED <<chain, server, slot, call, result, owed, open, calls, faults>>,
           \/ pc \in WriteLabels /\ pc' \in WriteLabels
           \/ pc \in BackLabels /\ pc' \in BackLabels,
           at' \in 0 .. Top, buf' \in Slot,
           conn' \in [server_bytes : Slot, client_bytes : Slot],
           Hand' # NoMessage, Hand'.packet = Hand.packet,
           ConnectorOK', StageOK', DigestsOK'
    PROVE  IInv'
<1> USE DEF IInv
<1>1. TypeOK'
  BY DEF TypeOK, Top, Labels, WriteLabels, BackLabels
<1>2. CallerOK' /\ SlotOK' /\ ExecutedOK'
  BY DEF CallerOK, SlotOK, ExecutedOK, WriteLabels, BackLabels
<1>3. HandOK'
  BY DEF HandOK, Answered, WriteLabels, BackLabels
<1>4. AnswerOK' /\ ArrivalOK'
  BY DEF AnswerOK, ArrivalOK, Answered, Answers, WriteLabels, BackLabels
<1>5. AnswerIsGenuine' /\ AnswerArrives'
  BY DEF AnswerIsGenuine, AnswerArrives, WriteLabels, BackLabels
<1> QED
  BY <1>1, <1>2, <1>3, <1>4, <1>5

LEMMA SignKeeps ==
    ASSUME IInv, ch_client_write_bytes, UNCHANGED <<open, calls, faults>>
    PROVE  IInv'
<1> USE DEF IInv
<1>1. pc = "sign" /\ at \in 1 .. Top /\ buf \in Message /\ Hand = buf
  BY DEF ch_client_write_bytes, TypeOK, StageOK, HandOK, WriteLabels, Hand, Slot
<1> DEFINE signed == Signed(buf, chain[at])
<1>2. signed \in Message /\ signed.packet = buf.packet /\ signed # NoMessage
  BY <1>1, SignedMessage, ConstantsAssumption
<1>3. Carries(signed, Top - (at - 1))
  BY <1>1, SignedMessage DEF DigestsOK, Hand
<1>4. /\ pc' = (IF at = 1 THEN "connect" ELSE "sign") /\ at' = at - 1 /\ buf' = signed
      /\ UNCHANGED <<chain, server, slot, conn, call, result, owed>>
  BY DEF ch_client_write_bytes, Goto
<1> HIDE DEF signed
<1>5. Hand' = signed
  BY <1>4 DEF Hand
<1>6. Top' = Top /\ Top \in Nat
  BY <1>4 DEF Top, TypeOK
<1>7. ConnectorOK' /\ StageOK'
  BY <1>1, <1>4, <1>6 DEF ConnectorOK, StageOK
<1>8. DigestsOK'
  BY <1>1, <1>3, <1>4, <1>5, <1>6 DEF DigestsOK, Carries
<1> QED
  BY <1>1, <1>2, <1>4, <1>5, <1>6, <1>7, <1>8, MoveKeeps DEF TypeOK, Slot, WriteLabels

LEMMA SignBackKeeps ==
    ASSUME IInv, ch_server_write_bytes, UNCHANGED <<open, calls, faults>>
    PROVE  IInv'
<1> USE DEF IInv
<1>1. pc = "signBack" /\ at \in 1 .. Top /\ buf \in Message /\ Hand = buf
  BY DEF ch_server_write_bytes, TypeOK, StageOK, HandOK, Answered, BackLabels, Hand, Slot
<1> DEFINE signed == Signed(buf, chain[at])
<1>2. signed \in Message /\ signed.packet = buf.packet /\ signed # NoMessage
  BY <1>1, SignedMessage, ConstantsAssumption
<1>3. Carries(signed, Top - (at - 1))
  BY <1>1, SignedMessage DEF DigestsOK, Hand
<1>4. /\ pc' = (IF at = 1 THEN "store" ELSE "signBack") /\ at' = at - 1 /\ buf' = signed
      /\ UNCHANGED <<chain, server, slot, conn, call, result, owed>>
  BY DEF ch_server_write_bytes, Goto
<1> HIDE DEF signed
<1>5. Hand' = signed
  BY <1>4 DEF Hand
<1>6. Top' = Top /\ Top \in Nat
  BY <1>4 DEF Top, TypeOK
<1>7. ConnectorOK' /\ StageOK'
  BY <1>1, <1>4, <1>6 DEF ConnectorOK, StageOK
<1>8. DigestsOK'
  BY <1>1, <1>3, <1>4, <1>5, <1>6 DEF DigestsOK, Carries
<1> QED
  BY <1>1, <1>2, <1>4, <1>5, <1>6, <1>7, <1>8, MoveKeeps DEF TypeOK, Slot, BackLabels

\* The connector is empty when a message reaches it: it is never BUSY.
LEMMA ConnectKeeps ==
    ASSUME IInv, cec_client_write_bytes, UNCHANGED <<open, calls, faults>>
    PROVE  IInv'
<1> USE DEF IInv
<1>1. pc = "connect" /\ at = 0 /\ Top > 0 /\ buf \in Message /\ Hand = buf
  BY DEF cec_client_write_bytes, TypeOK, StageOK, HandOK, WriteLabels, Hand, Slot
<1>2. conn.server_bytes = NoMessage /\ conn.client_bytes = NoMessage
  BY <1>1 DEF ConnectorOK
<1>3. /\ conn' = [conn EXCEPT !.server_bytes = buf]
      /\ pc' = "fetch" /\ at' = 0 /\ buf' = NoMessage
      /\ UNCHANGED <<chain, server, slot, call, result, owed>>
  BY <1>2 DEF cec_client_write_bytes, Goto
<1>4. conn' = [server_bytes |-> buf, client_bytes |-> NoMessage]
  BY <1>2, <1>3 DEF TypeOK
<1>5. Hand' = buf /\ buf # NoMessage
  BY <1>1, <1>3, <1>4, ConstantsAssumption DEF Hand
<1>6. Top' = Top /\ Top \in Nat
  BY <1>3 DEF Top, TypeOK
<1>7. ConnectorOK' /\ StageOK'
  BY <1>1, <1>3, <1>4, <1>5, <1>6 DEF ConnectorOK, StageOK
<1>8. DigestsOK'
  BY <1>1, <1>3, <1>5, <1>6 DEF DigestsOK, Carries
<1>9. conn' \in [server_bytes : Slot, client_bytes : Slot]
  BY <1>1, <1>4 DEF Slot
<1>10. at' \in 0 .. Top /\ buf' \in Slot
  BY <1>1, <1>3, <1>6 DEF Slot
<1> QED
  BY <1>1, <1>3, <1>5, <1>7, <1>8, <1>9, <1>10, MoveKeeps DEF WriteLabels

LEMMA FetchKeeps ==
    ASSUME IInv, cec_server_read_bytes, UNCHANGED <<open, calls, faults>>
    PROVE  IInv'
<1> USE DEF IInv
<1>1. pc = "fetch" /\ at = 0 /\ Top > 0 /\ Hand = conn.server_bytes
  BY DEF cec_server_read_bytes, StageOK, Hand
<1>2. conn.server_bytes \in Message /\ conn.client_bytes = NoMessage
  BY <1>1 DEF ConnectorOK, TypeOK, Slot
<1>3. /\ conn' = [conn EXCEPT !.server_bytes = NoMessage]
      /\ pc' = "verify" /\ at' = 1 /\ buf' = conn.server_bytes
      /\ UNCHANGED <<chain, server, slot, call, result, owed>>
  BY <1>2, ConstantsAssumption DEF cec_server_read_bytes, Goto
<1>4. conn' = [server_bytes |-> NoMessage, client_bytes |-> NoMessage]
  BY <1>2, <1>3 DEF TypeOK
<1>5. Hand' = conn.server_bytes /\ Hand' # NoMessage
  BY <1>2, <1>3, ConstantsAssumption DEF Hand
<1>6. Top' = Top /\ Top \in Nat
  BY <1>3 DEF Top, TypeOK
<1>7. ConnectorOK' /\ StageOK'
  BY <1>3, <1>4, <1>6 DEF ConnectorOK, StageOK
<1>8. DigestsOK'
  BY <1>1, <1>3, <1>6 DEF DigestsOK, Carries
<1>9. conn' \in [server_bytes : Slot, client_bytes : Slot]
  BY <1>2, <1>4 DEF Slot
<1>10. at' \in 0 .. Top /\ buf' \in Slot
  BY <1>1, <1>2, <1>3, <1>6 DEF Slot
<1> QED
  BY <1>1, <1>3, <1>5, <1>7, <1>8, <1>9, <1>10, MoveKeeps DEF WriteLabels

LEMMA StoreKeeps ==
    ASSUME IInv, cec_server_write_bytes, UNCHANGED <<open, calls, faults>>
    PROVE  IInv'
<1> USE DEF IInv
<1>1. pc = "store" /\ at = 0 /\ Top > 0 /\ buf \in Message /\ Hand = buf
  BY DEF cec_server_write_bytes, TypeOK, StageOK, HandOK, Answered, BackLabels, Hand, Slot
<1>2. conn.server_bytes = NoMessage /\ conn.client_bytes = NoMessage
  BY <1>1 DEF ConnectorOK
<1>3. /\ conn' = [conn EXCEPT !.client_bytes = buf]
      /\ pc' = "collect" /\ at' = 0 /\ buf' = NoMessage
      /\ UNCHANGED <<chain, server, slot, call, result, owed>>
  BY <1>2 DEF cec_server_write_bytes, Goto
<1>4. conn' = [server_bytes |-> NoMessage, client_bytes |-> buf]
  BY <1>2, <1>3 DEF TypeOK
<1>5. Hand' = buf /\ buf # NoMessage
  BY <1>1, <1>3, <1>4, ConstantsAssumption DEF Hand
<1>6. Top' = Top /\ Top \in Nat
  BY <1>3 DEF Top, TypeOK
<1>7. ConnectorOK' /\ StageOK'
  BY <1>1, <1>3, <1>4, <1>5, <1>6 DEF ConnectorOK, StageOK
<1>8. DigestsOK'
  BY <1>1, <1>3, <1>5, <1>6 DEF DigestsOK, Carries
<1>9. conn' \in [server_bytes : Slot, client_bytes : Slot]
  BY <1>1, <1>4 DEF Slot
<1>10. at' \in 0 .. Top /\ buf' \in Slot
  BY <1>1, <1>3, <1>6 DEF Slot
<1> QED
  BY <1>1, <1>3, <1>5, <1>7, <1>8, <1>9, <1>10, MoveKeeps DEF BackLabels

LEMMA CollectLeaves ==
    ASSUME IInv, Collect, UNCHANGED <<open, calls, faults>>
    PROVE  IInv'
<1> USE DEF IInv
<1>1. pc = "collect" /\ at = 0 /\ Top > 0 /\ Hand = conn.client_bytes
  BY DEF Collect, StageOK, Hand
<1>2. conn.client_bytes \in Message /\ conn.server_bytes = NoMessage
  BY <1>1 DEF ConnectorOK, TypeOK, Slot
<1>3. /\ conn' = [conn EXCEPT !.client_bytes = NoMessage]
      /\ pc' = "verifyBack" /\ at' = 1 /\ buf' = conn.client_bytes
      /\ UNCHANGED <<chain, server, slot, call, result, owed>>
  BY DEF Collect, Goto
<1>4. conn' = [server_bytes |-> NoMessage, client_bytes |-> NoMessage]
  BY <1>2, <1>3 DEF TypeOK
<1>5. Hand' = conn.client_bytes /\ Hand' # NoMessage
  BY <1>2, <1>3, ConstantsAssumption DEF Hand
<1>6. Top' = Top /\ Top \in Nat
  BY <1>3 DEF Top, TypeOK
<1>7. ConnectorOK' /\ StageOK'
  BY <1>3, <1>4, <1>6 DEF ConnectorOK, StageOK
<1>8. DigestsOK'
  BY <1>1, <1>3, <1>6 DEF DigestsOK, Carries
<1>9. conn' \in [server_bytes : Slot, client_bytes : Slot]
  BY <1>2, <1>4 DEF Slot
<1>10. at' \in 0 .. Top /\ buf' \in Slot
  BY <1>1, <1>2, <1>3, <1>6 DEF Slot
<1> QED
  BY <1>1, <1>3, <1>5, <1>7, <1>8, <1>9, <1>10, MoveKeeps DEF BackLabels

\* A stage finds its digest on the request, so verification never fails: see
\* StrippedMessage.  LeaveConnector sets what is NULL already.
LEMMA VerifyKeeps ==
    ASSUME IInv, ch_server_read_bytes, UNCHANGED <<open, calls, faults>>
    PROVE  IInv'
<1> USE DEF IInv
<1>1. pc = "verify" /\ at \in 1 .. Top /\ buf \in Message /\ Hand = buf
  BY DEF ch_server_read_bytes, TypeOK, StageOK, HandOK, WriteLabels, Hand, Slot
<1> DEFINE stripped == Stripped(buf, chain[at])
<1>2. stripped \in Message /\ stripped.packet = buf.packet /\ stripped # NoMessage
  BY <1>1, StrippedMessage, ConstantsAssumption
<1>3. Genuine(buf, chain[at]) /\ Carries(stripped, Top + 1 - (at + 1))
  BY <1>1, StrippedMessage DEF DigestsOK
<1>4. conn = [server_bytes |-> NoMessage, client_bytes |-> NoMessage]
  BY <1>1 DEF ConnectorOK, TypeOK
<1>5. /\ pc' = (IF at = Top THEN "serve" ELSE "verify")
      /\ at' = (IF at = Top THEN 0 ELSE at + 1) /\ buf' = stripped
      /\ UNCHANGED <<chain, server, slot, conn, call, result, owed>>
  <2>1. LeaveConnector => conn' = conn
    BY <1>4 DEF LeaveConnector
  <2> QED
    BY <1>3, <2>1 DEF ch_server_read_bytes, Goto
<1> HIDE DEF stripped
<1>6. Hand' = stripped
  BY <1>5 DEF Hand
<1>7. Top' = Top /\ Top \in Nat
  BY <1>5 DEF Top, TypeOK
<1>8. ConnectorOK' /\ StageOK'
  BY <1>1, <1>4, <1>5, <1>7 DEF ConnectorOK, StageOK
<1>9. DigestsOK'
  BY <1>1, <1>3, <1>5, <1>6, <1>7 DEF DigestsOK, Carries
<1> QED
  BY <1>1, <1>2, <1>5, <1>6, <1>7, <1>8, <1>9, MoveKeeps DEF TypeOK, Slot, WriteLabels

----------------------------------------------------------------------------
(* Steps that end a write, a read or a call. *)

\* Nothing is in transit: the conjuncts that speak of the message in hand are void.
LEMMA NothingInHand ==
    ASSUME TypeOK', pc' \in {"idle", "aborted"}, ConnectorOK', SlotOK', ExecutedOK',
           slot' # NoMessage => slot'.digests = <<>>,
           call'.by = "registry" => call'.request.type # "SHUTDOWN",
           AnswerIsGenuine', AnswerArrives'
    PROVE  IInv'
<1>1. StageOK' /\ CallerOK'
  BY DEF StageOK, CallerOK, WriteLabels, BackLabels
<1>2. ~Answered' /\ pc' \notin WriteLabels
  BY DEF Answered, WriteLabels, BackLabels
<1>3. DigestsOK' /\ HandOK'
  BY <1>2 DEF DigestsOK, HandOK
<1>4. AnswerOK' /\ ArrivalOK'
  BY <1>2 DEF AnswerOK, ArrivalOK
<1> QED
  BY <1>1, <1>3, <1>4 DEF IInv

\* The process dies where neither buffer of C nor the slot holds the call's message.
LEMMA AbortKeeps ==
    ASSUME IInv, Abort, UNCHANGED <<open>>, calls' \in Nat, faults' \in Nat,
           pc \notin {"fetch", "collect", "take", "wrote"}
    PROVE  IInv'
<1> USE DEF IInv, Abort
<1>1. TypeOK'
  BY DEF TypeOK, Top, Labels
<1>2. ConnectorOK' /\ SlotOK' /\ ExecutedOK'
  BY DEF ConnectorOK, SlotOK, ExecutedOK, WriteLabels, BackLabels
<1>3. /\ slot' # NoMessage => slot'.digests = <<>>
      /\ call'.by = "registry" => call'.request.type # "SHUTDOWN"
  BY DEF DigestsOK, CallerOK
<1>4. AnswerIsGenuine' /\ AnswerArrives'
  BY DEF AnswerIsGenuine, AnswerArrives
<1>5. pc' \in {"idle", "aborted"}
  OBVIOUS
<1> HIDE DEF IInv, Abort
<1> QED
  BY <1>1, <1>2, <1>3, <1>4, <1>5, NothingInHand

\* A write fails on the way down or in S.  It must not have run if it says BUSY, and
\* there is a reason: a fault, an unread response or a shutdown.
LEMMA WriteFailureKeeps ==
    ASSUME IInv, pc \in WriteLabels \cup {"reply"},
           NEW stage, NEW code \in Codes \ {"OK"}, WriteFails(stage, code),
           code = "BUSY" => call.executed = 0,
           UNCHANGED <<chain, slot, call, owed, open, calls>>,
           server' \in {"none", "running", "freed"},
           server' = "running" => server = "running",
           conn' = [server_bytes |-> NoMessage, client_bytes |-> NoMessage],
           faults' \in Nat,
           faults' # 0 \/ owed \/ server' # "running"
    PROVE  IInv'
<1> USE DEF IInv, WriteFails, Returns, Goto
<1> DEFINE answer == IF stage < Top THEN "UNKNOWN" ELSE code
<1>1. /\ pc' = "wrote" /\ at' = 0 /\ buf' = NoMessage /\ result' = [code |-> answer, out |-> <<>>]
      /\ answer \in Codes \ {"OK"} /\ (answer = "BUSY" => call.executed = 0)
  BY DEF Codes, OpenErrors
<1> HIDE DEF answer, WriteFails, Returns, Goto
<1>2. result'.code \in Codes \ {"OK"} /\ (result'.code = "BUSY" => call'.executed = 0)
  BY <1>1
<1>3. TypeOK'
  <2>1. Top \in Nat /\ Top' = Top
    BY DEF TypeOK, Top
  <2>2. conn' \in [server_bytes : Slot, client_bytes : Slot] /\ buf' \in Slot
    BY <1>1 DEF Slot
  <2>3. result' \in [code : Codes, out : Seq(Values \cup Counts \cup DatabaseErrors)]
    BY <1>1
  <2> QED
    BY <1>1, <2>1, <2>2, <2>3 DEF TypeOK, Labels
<1>4. ~Answered' /\ pc' \notin WriteLabels
  BY <1>1, <1>2 DEF Answered, WriteLabels, BackLabels
<1>5. ConnectorOK' /\ StageOK'
  BY <1>1 DEF ConnectorOK, StageOK
<1>6. CallerOK'
  BY <1>1 DEF CallerOK, WriteLabels, BackLabels
<1>7. DigestsOK' /\ HandOK'
  BY <1>1, <1>4 DEF DigestsOK, HandOK
<1>8. SlotOK'
  BY <1>1, <1>2 DEF SlotOK, WriteLabels, BackLabels
<1>9. ExecutedOK'
  BY <1>1, <1>2 DEF ExecutedOK, WriteLabels
<1>10. AnswerOK' /\ ArrivalOK'
  BY <1>4 DEF AnswerOK, ArrivalOK
<1>11. AnswerIsGenuine' /\ AnswerArrives'
  BY <1>1 DEF AnswerIsGenuine, AnswerArrives
<1> QED
  BY <1>3, <1>5, <1>6, <1>7, <1>8, <1>9, <1>10, <1>11

\* A read fails.  Only a reader who finds the slot empty does so without a fault.
LEMMA ReadFailureKeeps ==
    ASSUME IInv, pc \in BackLabels \cup {"take"},
           NEW code \in Codes \ {"OK"}, ReadFails(code),
           code = "BUSY" => call.by = "reader",
           UNCHANGED <<chain, server, slot, call, owed, open, calls>>,
           conn' = [server_bytes |-> NoMessage, client_bytes |-> NoMessage],
           slot = NoMessage, faults' \in Nat,
           faults' # 0 \/ call.by = "reader"
    PROVE  IInv'
<1> USE DEF IInv, ReadFails, Returns, Goto
<1>1. /\ pc' = "read" /\ at' = 0 /\ buf' = NoMessage /\ result' = [code |-> code, out |-> <<>>]
  OBVIOUS
<1> HIDE DEF ReadFails, Returns, Goto
<1>2. /\ result'.code \in Codes \ {"OK"}
      /\ result'.code = "BUSY" => call'.by = "reader" /\ call'.executed = 0
  BY <1>1 DEF ExecutedOK
<1>3. TypeOK'
  <2>1. Top \in Nat /\ Top' = Top
    BY DEF TypeOK, Top
  <2>2. conn' \in [server_bytes : Slot, client_bytes : Slot] /\ buf' \in Slot
    BY <1>1 DEF Slot
  <2>3. result' \in [code : Codes, out : Seq(Values \cup Counts \cup DatabaseErrors)]
    BY <1>1
  <2> QED
    BY <1>1, <2>1, <2>2, <2>3 DEF TypeOK, Labels
<1>4. ~Answered' /\ pc' \notin WriteLabels
  BY <1>1, <1>2 DEF Answered, WriteLabels, BackLabels
<1>5. ConnectorOK' /\ StageOK'
  BY <1>1 DEF ConnectorOK, StageOK
<1>6. CallerOK'
  BY <1>1, <1>2 DEF CallerOK, WriteLabels, BackLabels
<1>7. DigestsOK' /\ HandOK'
  BY <1>1, <1>4 DEF DigestsOK, HandOK
<1>8. SlotOK'
  BY <1>1, <1>2 DEF SlotOK, WriteLabels, BackLabels
<1>9. ExecutedOK'
  BY <1>1, <1>2 DEF ExecutedOK, WriteLabels
<1>10. AnswerOK' /\ ArrivalOK'
  BY <1>4 DEF AnswerOK, ArrivalOK
<1>11. AnswerIsGenuine' /\ AnswerArrives'
  BY <1>1 DEF AnswerIsGenuine, AnswerArrives
<1> QED
  BY <1>3, <1>5, <1>6, <1>7, <1>8, <1>9, <1>10, <1>11

----------------------------------------------------------------------------
(* The failures of the chain, and the other ends of a write. *)

\* In the middle of a step through the stages both buffers of C are NULL.
LEMMA ConnectorEmpty ==
    ASSUME IInv, pc \notin {"fetch", "collect"}
    PROVE  conn = [server_bytes |-> NoMessage, client_bytes |-> NoMessage]
BY DEF IInv, ConnectorOK, TypeOK

LEMMA FaultCounts ==
    ASSUME IInv, Fault
    PROVE  faults' \in Nat /\ faults' # 0
BY DEF IInv, TypeOK, Fault

LEMMA SignFailsKeeps ==
    ASSUME IInv, SignFails, Fault, UNCHANGED <<open, calls>>
    PROVE  IInv'
<1> USE FaultCounts
<1>1. calls \in Nat /\ server \in {"none", "running", "freed"}
  BY DEF IInv, TypeOK
<1>2. CASE pc = "sign" /\ WriteFails(at, "MEMORY") /\ UNCHANGED <<chain, server, slot, conn, call, owed>>
  BY <1>1, <1>2, ConnectorEmpty, WriteFailureKeeps DEF WriteLabels, Codes, OpenErrors
<1>3. CASE pc = "signBack" /\ WriteBackFails(at, "MEMORY") /\ UNCHANGED <<chain, server, slot, conn, call, owed>>
  <2>1. slot = NoMessage
    BY <1>3 DEF IInv, SlotOK, BackLabels
  <2>2. PICK code \in {"MEMORY", "UNKNOWN"} : ReadFails(code)
    BY <1>3 DEF WriteBackFails
  <2> QED
    BY <1>3, <2>1, <2>2, ConnectorEmpty, ReadFailureKeeps DEF BackLabels, Codes, OpenErrors
<1>4. CASE pc \in {"sign", "signBack"} /\ Abort
  BY <1>1, <1>4, AbortKeeps
<1> QED
  BY <1>2, <1>3, <1>4 DEF SignFails

LEMMA VerifyFailsKeeps ==
    ASSUME IInv, VerifyFails, Fault, UNCHANGED <<open, calls>>
    PROVE  IInv'
<1> USE FaultCounts
<1>1. /\ calls \in Nat /\ server \in {"none", "running", "freed"}
      /\ pc \in {"verify", "verifyBack"}
  BY DEF IInv, TypeOK, VerifyFails
<1>2. conn = [server_bytes |-> NoMessage, client_bytes |-> NoMessage]
  BY <1>1, ConnectorEmpty
<1>3. LeaveConnector => conn' = conn
  BY <1>2 DEF LeaveConnector
<1>4. CASE Abort
  BY <1>1, <1>4, AbortKeeps
<1>5. ASSUME NEW code \in {"MEMORY", "UNKNOWN"}, pc = "verify", WriteFails(0, code), LeaveConnector,
             UNCHANGED <<chain, server, slot, call, owed>>
      PROVE  IInv'
  BY <1>1, <1>2, <1>3, <1>5, WriteFailureKeeps DEF WriteLabels, Codes, OpenErrors
<1>6. ASSUME NEW code \in {"MEMORY", "UNKNOWN"}, pc = "verifyBack", ReadFails(code), UNCHANGED conn,
             UNCHANGED <<chain, server, slot, call, owed>>
      PROVE  IInv'
  <2>1. slot = NoMessage
    BY <1>6 DEF IInv, SlotOK, BackLabels
  <2> QED
    BY <1>2, <1>6, <2>1, ReadFailureKeeps DEF BackLabels, Codes, OpenErrors
<1> QED
  BY <1>1, <1>4, <1>5, <1>6 DEF VerifyFails

LEMMA ConnectorFailsKeeps ==
    ASSUME IInv, ConnectorFails, Fault, UNCHANGED <<open, calls>>
    PROVE  IInv'
<1> USE FaultCounts
<1>1. /\ server \in {"none", "running", "freed"}
      /\ UNCHANGED <<chain, server, slot, conn, call, owed>>
  BY DEF IInv, TypeOK, ConnectorFails
<1>2. CASE pc = "connect" /\ WriteFails(0, "MEMORY")
  BY <1>1, <1>2, ConnectorEmpty, WriteFailureKeeps DEF WriteLabels, Codes, OpenErrors
<1>3. CASE pc = "store" /\ WriteBackFails(0, "MEMORY")
  <2>1. slot = NoMessage
    BY <1>3 DEF IInv, SlotOK, BackLabels
  <2>2. PICK code \in {"MEMORY", "UNKNOWN"} : ReadFails(code)
    BY <1>3 DEF WriteBackFails
  <2> QED
    BY <1>1, <1>3, <2>1, <2>2, ConnectorEmpty, ReadFailureKeeps DEF BackLabels, Codes, OpenErrors
<1> QED
  BY <1>2, <1>3 DEF ConnectorFails

\* S has an unread response, so it is owed to a direct write: the request is refused.
LEMMA RefuseKeeps ==
    ASSUME IInv, cs_client_write_bytes, UNCHANGED <<open, calls, faults>>
    PROVE  IInv'
<1>1. /\ pc = "serve" /\ slot # NoMessage /\ WriteFails(0, "BUSY")
      /\ UNCHANGED <<chain, server, slot, conn, call, owed>>
  BY DEF cs_client_write_bytes, SlotFull
<1>2. owed /\ call.executed = 0
  BY <1>1 DEF IInv, SlotOK, ExecutedOK, WriteLabels
<1>3. server \in {"none", "running", "freed"} /\ faults \in Nat
  BY DEF IInv, TypeOK
<1> QED
  BY <1>1, <1>2, <1>3, ConnectorEmpty, WriteFailureKeeps DEF WriteLabels, Codes

LEMMA ShutdownKeeps ==
    ASSUME IInv, server_shutdown, UNCHANGED <<open, calls, faults>>
    PROVE  IInv'
<1>1. /\ pc = "serve" /\ server' = "freed" /\ WriteFails(0, "CHANNEL_FAILED")
      /\ UNCHANGED <<chain, slot, conn, call, owed>>
  BY DEF server_shutdown
<1>2. faults \in Nat
  BY DEF IInv, TypeOK
<1> QED
  BY <1>1, <1>2, ConnectorEmpty, WriteFailureKeeps DEF WriteLabels, Codes

\* S holds a response packet that it has not put into its slot yet.
LEMMA ResponseKeeps ==
    ASSUME IInv, pc \in {"serve", "reply"}, slot = NoMessage,
           NEW response \in Response,
           Goto("reply", 0, [packet |-> response, digests |-> <<>>]),
           UNCHANGED <<chain, server, slot, conn, result, owed, open, calls>>,
           call'.by = call.by, call'.request = call.request, call'.executed <= 1,
           call' \in [by : Callers, request : Request, executed : Nat, outcome : Outcome],
           faults' \in Nat, AnswerOK', ArrivalOK'
    PROVE  IInv'
<1> USE DEF IInv
<1> DEFINE m == [packet |-> response, digests |-> <<>>]
<1>1. pc' = "reply" /\ at' = 0 /\ buf' = m
  BY DEF Goto
<1>2. m \in Message /\ m.packet = response /\ m.digests = <<>>
  BY DEF Message
<1>3. m # NoMessage
  BY <1>2, ConstantsAssumption
<1> HIDE DEF m
<1>4. TypeOK'
  BY <1>1, <1>2 DEF TypeOK, Top, Labels, Slot
<1>5. conn' = [server_bytes |-> NoMessage, client_bytes |-> NoMessage]
  BY ConnectorEmpty
<1>6. ConnectorOK' /\ StageOK' /\ DigestsOK'
  BY <1>1, <1>2, <1>5 DEF ConnectorOK, StageOK, DigestsOK
<1>7. CallerOK' /\ ExecutedOK'
  BY <1>1 DEF CallerOK, ExecutedOK, WriteLabels, BackLabels
<1>8. HandOK'
  BY <1>1, <1>2, <1>3 DEF HandOK, Hand, WriteLabels
<1>9. SlotOK'
  BY <1>1 DEF SlotOK, WriteLabels, BackLabels
<1>10. AnswerIsGenuine' /\ AnswerArrives'
  BY <1>1 DEF AnswerIsGenuine, AnswerArrives
<1> QED
  BY <1>4, <1>6, <1>7, <1>8, <1>9, <1>10

\* An error packet that does not claim NO_SUCH_KEY or INVALID answers any call.
LEMMA ErrorResponse ==
    ASSUME NEW code \in DatabaseErrors
    PROVE  ErrorPacket(code) \in Response
BY DEF ErrorPacket, Response, ResponseTypes

LEMMA ErrorKeeps ==
    ASSUME IInv, pc \in {"serve", "reply"}, slot = NoMessage,
           NEW code \in DatabaseErrors,
           Goto("reply", 0, [packet |-> ErrorPacket(code), digests |-> <<>>]),
           UNCHANGED <<chain, server, slot, conn, call, result, owed, open, calls>>,
           faults' \in Nat,
           server # "running" \/ (code \in {"MEMORY", "UNKNOWN"} /\ faults' # 0)
    PROVE  IInv'
<1>1. pc' = "reply" /\ buf' = [packet |-> ErrorPacket(code), digests |-> <<>>]
  BY DEF Goto
<1>2. AnswerOK'
  BY <1>1 DEF AnswerOK, Answers, Hand, ErrorPacket
<1>3. ArrivalOK'
  BY DEF ArrivalOK
<1>4. /\ call' \in [by : Callers, request : Request, executed : Nat, outcome : Outcome]
      /\ call'.executed <= 1
  BY DEF IInv, TypeOK, ExecutedOK
<1> QED
  BY <1>2, <1>3, <1>4, ErrorResponse, ResponseKeeps

LEMMA UseAfterShutdownKeeps ==
    ASSUME IInv, UseAfterShutdown, UNCHANGED <<open, calls, faults>>
    PROVE  IInv'
<1>1. pc = "serve" /\ slot = NoMessage /\ server = "freed" /\ faults \in Nat /\ calls \in Nat
  BY DEF UseAfterShutdown, SlotFull, IInv, TypeOK
<1>2. CASE Abort
  BY <1>1, <1>2, AbortKeeps
<1>3. CASE WriteFails(0, "CHANNEL_FAILED") /\ UNCHANGED <<chain, server, slot, conn, call, owed>>
  BY <1>1, <1>3, ConnectorEmpty, WriteFailureKeeps DEF WriteLabels, Codes
<1>4. ASSUME NEW code \in DatabaseErrors,
             Goto("reply", 0, [packet |-> ErrorPacket(code), digests |-> <<>>]),
             UNCHANGED <<chain, server, slot, conn, call, result, owed>>
      PROVE  IInv'
  BY <1>1, <1>4, ErrorKeeps
<1> QED
  BY <1>2, <1>3, <1>4 DEF UseAfterShutdown

LEMMA ServeFailsKeeps ==
    ASSUME IInv, ServeFails, Fault, UNCHANGED <<open, calls>>
    PROVE  IInv'
<1> USE FaultCounts
<1>1. /\ pc = "serve" /\ slot = NoMessage /\ server = "running"
      /\ UNCHANGED <<chain, server, slot, conn, call, owed>>
  BY DEF ServeFails, SlotFull
<1>2. CASE WriteFails(0, "CHANNEL_FAILED")
  BY <1>1, <1>2, ConnectorEmpty, WriteFailureKeeps DEF WriteLabels, Codes
<1>3. ASSUME NEW code \in {"MEMORY", "UNKNOWN"},
             Goto("reply", 0, [packet |-> ErrorPacket(code), digests |-> <<>>]), UNCHANGED result
      PROVE  IInv'
  BY <1>1, <1>3, ErrorKeeps DEF DatabaseErrors
<1> QED
  BY <1>2, <1>3 DEF ServeFails

LEMMA ReplyFailsKeeps ==
    ASSUME IInv, ReplyFails, Fault, UNCHANGED <<open, calls>>
    PROVE  IInv'
<1> USE FaultCounts
<1>1. pc = "reply" /\ slot = NoMessage /\ calls \in Nat /\ server \in {"none", "running", "freed"}
  BY DEF ReplyFails, IInv, SlotOK, TypeOK
<1>2. ASSUME NEW code \in {"CHANNEL_FAILED", "MEMORY"}, WriteFails(0, code),
             UNCHANGED <<chain, server, slot, conn, call, owed>>
      PROVE  IInv'
  BY <1>1, <1>2, ConnectorEmpty, WriteFailureKeeps DEF Codes, OpenErrors
<1>3. CASE Abort
  BY <1>1, <1>3, AbortKeeps
<1>4. CASE Goto("reply", 0, [packet |-> ErrorPacket("UNKNOWN"), digests |-> <<>>])
           /\ UNCHANGED <<chain, server, slot, conn, call, result, owed>>
  BY <1>1, <1>4, ErrorKeeps DEF DatabaseErrors
<1> QED
  BY <1>2, <1>3, <1>4 DEF ReplyFails

----------------------------------------------------------------------------
(* The database answers, and its answer travels back. *)

LEMMA Outcomes ==
    ASSUME NEW type \in RequestTypes \ {"SHUTDOWN"}, NEW outcome \in DatabaseOutcomes(type)
    PROVE  /\ outcome \in Outcome
           /\ ResponseTo(type, outcome) \in Response
           /\ outcome.code = "OK" =>
                ResponseTo(type, outcome) = [type |-> AnswerType[type], fields |-> outcome.out]
           /\ outcome.code # "OK" =>
                ResponseTo(type, outcome) = [type |-> "ERROR", fields |-> <<outcome.code>>]
<1>1. Found(type) \subseteq Seq(Values \cup Counts)
  <2> DEFINE S == Values \cup Counts
  <2>1. Values \subseteq S /\ "zero" \in S /\ "some" \in S
    BY DEF Counts
  <2> HIDE DEF S
  <2>2. /\ <<>> \in Seq(S) /\ <<"zero">> \in Seq(S)
        /\ \A v \in Values : <<v>> \in Seq(S)
        /\ \A v \in Values : <<"some", v>> \in Seq(S)
    BY <2>1
  <2>3. Found(type) \subseteq Seq(S)
    BY <2>2 DEF Found
  <2> QED
    BY <2>3 DEF S
<1>2. /\ outcome.code \in DatabaseErrors \cup {"OK"}
      /\ outcome.out \in Seq(Values \cup Counts)
      /\ outcome = [code |-> outcome.code, out |-> outcome.out]
  <2> DEFINE Codes0 == DatabaseErrors \ (IF type \in Getters THEN {} ELSE {"NO_SUCH_KEY"})
  <2>1. outcome \in [code : {"OK"}, out : Found(type)] \/ outcome \in [code : Codes0, out : {<<>>}]
    BY DEF DatabaseOutcomes
  <2>2. Codes0 \subseteq DatabaseErrors /\ <<>> \in Seq(Values \cup Counts)
    OBVIOUS
  <2> HIDE DEF Codes0
  <2>3. CASE outcome \in [code : {"OK"}, out : Found(type)]
    BY <1>1, <2>3
  <2>4. CASE outcome \in [code : Codes0, out : {<<>>}]
    BY <2>2, <2>4
  <2> QED
    BY <2>1, <2>3, <2>4
<1>3. AnswerType[type] \in ResponseTypes
  BY DEF AnswerType, RequestTypes, ResponseTypes, Getters, Setters
<1>4. outcome.out \in Seq(Values \cup Counts \cup DatabaseErrors)
  BY <1>2
<1>5. CASE outcome.code = "OK"
  BY <1>2, <1>3, <1>4, <1>5 DEF ResponseTo, Response, Outcome
<1>6. CASE outcome.code # "OK"
  BY <1>2, <1>6 DEF ResponseTo, ErrorPacket, Response, ResponseTypes, Outcome
<1> QED
  BY <1>5, <1>6

LEMMA ProcessKeeps ==
    ASSUME IInv, server_process, UNCHANGED <<open, calls, faults>>
    PROVE  IInv'
<1>1. /\ pc = "serve" /\ slot = NoMessage /\ server = "running" /\ faults \in Nat
      /\ UNCHANGED <<chain, server, slot, conn, result, owed>>
  BY DEF server_process, SlotFull, IInv, TypeOK
<1>2. buf.packet = call.request /\ call.executed = 0
  BY <1>1 DEF IInv, HandOK, Hand, ExecutedOK, WriteLabels
<1> DEFINE type == call.request.type
<1>3. type \in RequestTypes \ {"SHUTDOWN"}
  BY <1>1, <1>2 DEF server_process, IInv, TypeOK, Request
<1>4. PICK outcome \in DatabaseOutcomes(type) :
        /\ call' = [call EXCEPT !.executed = @ + 1, !.outcome = outcome]
        /\ Goto("reply", 0, [packet |-> ResponseTo(type, outcome), digests |-> <<>>])
  BY <1>2 DEF server_process
<1> DEFINE response == ResponseTo(type, outcome)
<1>5. /\ outcome \in Outcome /\ response \in Response
      /\ outcome.code = "OK" => response = [type |-> AnswerType[type], fields |-> outcome.out]
      /\ outcome.code # "OK" => response = [type |-> "ERROR", fields |-> <<outcome.code>>]
  BY <1>3, <1>4, Outcomes
<1> HIDE DEF type, response
<1>6. /\ call'.by = call.by /\ call'.request = call.request
      /\ call'.executed = 1 /\ call'.outcome = outcome
      /\ call' \in [by : Callers, request : Request, executed : Nat, outcome : Outcome]
  <2> DEFINE executed == call.executed + 1
  <2>1. call' = [call EXCEPT !.executed = executed, !.outcome = outcome]
    BY <1>4
  <2>2. executed = 1 /\ executed \in Nat
    BY <1>2
  <2>3. call \in [by : Callers, request : Request, executed : Nat, outcome : Outcome]
    BY DEF IInv, TypeOK
  <2> HIDE DEF executed
  <2>4. /\ call'.by = call.by /\ call'.request = call.request
        /\ call'.executed = executed /\ call'.outcome = outcome
        /\ call' \in [by : Callers, request : Request, executed : Nat, outcome : Outcome]
    BY <1>5, <2>1, <2>2, <2>3
  <2> QED
    BY <2>2, <2>4
<1>7. pc' = "reply" /\ buf' = [packet |-> response, digests |-> <<>>] /\ Hand'.packet = response
  BY <1>4 DEF Goto, Hand, response
<1>8. response.type = "ERROR" <=> outcome.code # "OK"
  BY <1>3, <1>5 DEF AnswerType, RequestTypes, Getters, Setters
<1>9. AnswerOK'
  BY <1>5, <1>6, <1>7, <1>8 DEF AnswerOK, Answers, type
<1>10. ArrivalOK'
  BY <1>4, <1>6, <1>7 DEF ArrivalOK, type, response
<1> QED
  BY <1>1, <1>4, <1>5, <1>6, <1>9, <1>10, ResponseKeeps DEF type, response

\* The response goes into the empty slot, and is owed if nobody reads it right away.
LEMMA ReplyKeeps ==
    ASSUME IInv, cs_server_write_bytes, UNCHANGED <<open, calls, faults>>
    PROVE  IInv'
<1> USE DEF IInv
<1>1. pc = "reply" /\ slot = NoMessage /\ buf \in Message /\ buf # NoMessage /\ Hand = buf
  BY DEF cs_server_write_bytes, SlotFull, TypeOK, HandOK, Answered, Hand, Slot
<1>2. /\ pc' = "wrote" /\ at' = 0 /\ buf' = NoMessage /\ slot' = buf
      /\ result' = [code |-> "OK", out |-> <<>>]
      /\ owed' = (call.by = "channel")
      /\ UNCHANGED <<chain, server, conn, call>>
  BY DEF cs_server_write_bytes, Returns, Goto
<1>3. /\ Hand' = buf /\ Answered /\ buf.packet \in Response /\ buf.digests = <<>>
      /\ call.by \in {"registry", "channel"} /\ ~owed
  BY <1>1, <1>2 DEF Hand, HandOK, Answered, DigestsOK, CallerOK, SlotOK
<1>4. TypeOK'
  <2>1. result' \in [code : Codes, out : Seq(Values \cup Counts \cup DatabaseErrors)]
    BY <1>2 DEF Codes
  <2> QED
    BY <1>1, <1>2, <2>1 DEF TypeOK, Labels, Slot, Top
<1>5. ConnectorOK' /\ StageOK' /\ CallerOK'
  BY <1>1, <1>2, <1>3 DEF ConnectorOK, StageOK, CallerOK, WriteLabels, BackLabels
<1>6. DigestsOK' /\ HandOK'
  BY <1>1, <1>2, <1>3 DEF DigestsOK, HandOK, WriteLabels
<1>7. SlotOK'
  BY <1>1, <1>2, <1>3 DEF SlotOK, BackLabels
<1>8. ExecutedOK'
  BY <1>1, <1>2 DEF ExecutedOK, WriteLabels
<1>9. AnswerOK' /\ ArrivalOK'
  BY <1>1, <1>2, <1>3 DEF AnswerOK, ArrivalOK, Answers
<1>10. AnswerIsGenuine' /\ AnswerArrives'
  BY <1>2 DEF AnswerIsGenuine, AnswerArrives
<1> QED
  BY <1>4, <1>5, <1>6, <1>7, <1>8, <1>9, <1>10

\* Steps that take the response out of the slot, or out of the last stage.
LEMMA ResponseTaken ==
    ASSUME IInv, pc \in {"take"} \cup BackLabels, NEW m \in Message,
           m.packet = Hand.packet, Hand.packet \in Response,
           slot' = NoMessage, owed' = FALSE,
           UNCHANGED <<chain, server, conn, call, open, calls, faults>>,
           conn = [server_bytes |-> NoMessage, client_bytes |-> NoMessage],
           buf' = m,
           \/ pc' = "read" /\ at' = 0 /\ result' = [code |-> "OK", out |-> <<>>]
           \/ pc' = "signBack" /\ at' = Top /\ Top > 0 /\ result' = result /\ m.digests = <<>>
    PROVE  IInv'
<1> USE DEF IInv
<1>1. m # NoMessage
  BY ConstantsAssumption
<1>2. /\ call.by \in {"registry", "reader"} /\ Top \in Nat /\ Top' = Top
      /\ (~owed \/ call.by = "reader")
  BY DEF CallerOK, TypeOK, Top, SlotOK, BackLabels
<1>3. TypeOK'
  <2>1. result' \in [code : Codes, out : Seq(Values \cup Counts \cup DatabaseErrors)]
    <3>1. CASE result' = result
      BY <3>1 DEF TypeOK
    <3>2. CASE result' = [code |-> "OK", out |-> <<>>]
      BY <3>2 DEF Codes
    <3> QED
      BY <3>1, <3>2
  <2>2. at' \in 0 .. Top' /\ pc' \in Labels /\ buf' \in Slot /\ slot' \in Slot
    BY <1>2 DEF Labels, Slot
  <2> QED
    BY <2>1, <2>2 DEF TypeOK
<1>4. Hand' = m
  BY DEF Hand
<1>5. ConnectorOK' /\ StageOK' /\ CallerOK'
  BY <1>2 DEF ConnectorOK, StageOK, CallerOK, WriteLabels, BackLabels, Top
<1>6. DigestsOK' /\ HandOK'
  BY <1>1, <1>2, <1>4 DEF DigestsOK, HandOK, WriteLabels, BackLabels, Carries, Top
<1>7. SlotOK' /\ ExecutedOK'
  BY <1>1, <1>2 DEF SlotOK, ExecutedOK, BackLabels, WriteLabels
<1>8. call.by = "registry" => Answered
  BY DEF Answered
<1>9. AnswerOK' /\ ArrivalOK'
  BY <1>2, <1>4, <1>8 DEF AnswerOK, ArrivalOK, Answers
<1>10. AnswerIsGenuine' /\ AnswerArrives'
  BY DEF AnswerIsGenuine, AnswerArrives
<1> QED
  BY <1>3, <1>5, <1>6, <1>7, <1>9, <1>10

LEMMA TakeKeeps ==
    ASSUME IInv, cs_client_read_bytes, UNCHANGED <<open, calls, faults>>
    PROVE  IInv'
<1>1. /\ pc = "take" /\ UNCHANGED <<chain, server, conn, call>>
      /\ conn = [server_bytes |-> NoMessage, client_bytes |-> NoMessage]
      /\ Hand = slot /\ faults \in Nat /\ Top \in Nat
      /\ call.by \in {"registry", "reader"} /\ slot \in Slot
  BY ConnectorEmpty DEF cs_client_read_bytes, Hand, IInv, TypeOK, Top, CallerOK
<1>2. CASE slot = NoMessage
  <2>1. ReadFails("BUSY") /\ UNCHANGED <<slot, owed>>
    BY <1>2 DEF cs_client_read_bytes
  <2>2. call.by = "reader" /\ call.executed = 0
    BY <1>1, <1>2 DEF IInv, SlotOK, ExecutedOK
  <2> QED
    BY <1>1, <1>2, <2>1, <2>2, ReadFailureKeeps DEF Codes
<1>3. CASE slot # NoMessage
  <2>1. slot \in Message /\ slot.digests = <<>> /\ slot.packet \in Response
    BY <1>1, <1>3 DEF Slot, IInv, DigestsOK, SlotOK
  <2>2. /\ slot' = NoMessage /\ owed' = FALSE /\ buf' = slot
        /\ \/ pc' = "read" /\ at' = 0 /\ result' = [code |-> "OK", out |-> <<>>]
           \/ pc' = "signBack" /\ at' = Top /\ Top > 0 /\ result' = result
    BY <1>1, <1>3 DEF cs_client_read_bytes, Goto
  <2> QED
    BY <1>1, <2>1, <2>2, ResponseTaken
<1> QED
  BY <1>2, <1>3

LEMMA VerifyBackKeeps ==
    ASSUME IInv, ch_client_read_bytes, UNCHANGED <<open, calls, faults>>
    PROVE  IInv'
<1>1. /\ pc = "verifyBack" /\ at \in 1 .. Top /\ buf \in Message /\ Hand = buf
      /\ buf.packet \in Response /\ Hand # NoMessage /\ TypeOK
  BY DEF IInv, ch_client_read_bytes, TypeOK, StageOK, HandOK, Answered, BackLabels, Hand, Slot
<1> DEFINE stripped == Stripped(buf, chain[at])
<1>2. stripped \in Message /\ stripped.packet = buf.packet /\ stripped # NoMessage
  BY <1>1, StrippedMessage, ConstantsAssumption
<1>3. Genuine(buf, chain[at]) /\ Carries(stripped, Top + 1 - (at + 1))
  BY <1>1, StrippedMessage DEF IInv, DigestsOK
<1>4. /\ conn = [server_bytes |-> NoMessage, client_bytes |-> NoMessage]
      /\ slot = NoMessage /\ owed = FALSE
      /\ UNCHANGED <<chain, server, slot, conn, call, owed>>
  BY <1>1, ConnectorEmpty DEF IInv, SlotOK, BackLabels, TypeOK, ch_client_read_bytes
<1>5. CASE at = Top
  <2>1. /\ pc' = "read" /\ at' = 0 /\ buf' = stripped
        /\ result' = [code |-> "OK", out |-> <<>>]
    BY <1>3, <1>5 DEF ch_client_read_bytes
  <2> HIDE DEF stripped
  <2> QED
    BY <1>1, <1>2, <1>4, <2>1, ResponseTaken DEF BackLabels
<1>6. CASE at # Top
  <2>1. pc' = "verifyBack" /\ at' = at + 1 /\ buf' = stripped /\ result' = result
    BY <1>1, <1>3, <1>6 DEF ch_client_read_bytes, Goto
  <2> HIDE DEF stripped
  <2>2. Hand' = stripped
    BY <2>1 DEF Hand
  <2>3. Top' = Top /\ Top \in Nat
    BY <1>4 DEF Top, TypeOK, IInv
  <2>4. ConnectorOK' /\ StageOK'
    BY <1>1, <1>4, <2>1, <2>3 DEF ConnectorOK, StageOK
  <2>5. DigestsOK'
    BY <1>3, <1>4, <2>1, <2>2, <2>3 DEF DigestsOK, Carries
  <2> QED
    BY <1>1, <1>2, <1>4, <1>6, <2>1, <2>2, <2>3, <2>4, <2>5, MoveKeeps DEF TypeOK, Slot, BackLabels
<1> QED
  BY <1>5, <1>6

----------------------------------------------------------------------------
(* The calls of the registry, and of the caller that uses the channel. *)

LEMMA Packets ==
    ASSUME NEW packet \in Request
    PROVE  /\ [packet |-> packet, digests |-> <<>>] \in Message
           /\ [packet |-> packet, digests |-> <<>>] # NoMessage
<1>1. [packet |-> packet, digests |-> <<>>] \in Message
  BY DEF Message
<1> QED
  BY <1>1, ConstantsAssumption

\* A request is sent: by a new call, or again by one that was told BUSY.
LEMMA SendKeeps ==
    ASSUME IInv, pc \in {"idle", "wrote"}, slot # NoMessage <=> owed,
           call' \in [by : Callers, request : Request, executed : Nat, outcome : Outcome],
           call'.by \in {"registry", "channel"}, call'.executed = 0,
           call'.by = "registry" => call'.request.type # "SHUTDOWN",
           Send(call'.request), calls' \in Nat,
           UNCHANGED <<chain, server, slot, conn, result, owed, open, faults>>
    PROVE  IInv'
<1> USE DEF IInv
<1> DEFINE m == [packet |-> call'.request, digests |-> <<>>]
<1>1. m \in Message /\ m # NoMessage /\ m.packet = call'.request /\ m.digests = <<>>
  BY Packets
<1>2. Top \in Nat /\ Top' = Top
  BY DEF TypeOK, Top
<1>3. /\ pc' = (IF Top = 0 THEN "serve" ELSE "sign") /\ at' = Top /\ buf' = m
      /\ conn' = [server_bytes |-> NoMessage, client_bytes |-> NoMessage]
  BY ConnectorEmpty DEF Send, Goto
<1> HIDE DEF m
<1>4. TypeOK'
  BY <1>1, <1>2, <1>3 DEF TypeOK, Labels, Slot
<1>5. Hand' = m
  BY <1>3 DEF Hand
<1>6. ConnectorOK' /\ StageOK' /\ CallerOK'
  BY <1>2, <1>3 DEF ConnectorOK, StageOK, CallerOK, WriteLabels, BackLabels
<1>7. ~Answered'
  BY <1>3 DEF Answered, BackLabels
<1>8. DigestsOK' /\ HandOK'
  BY <1>1, <1>2, <1>3, <1>5, <1>7 DEF DigestsOK, HandOK, Carries
<1>9. SlotOK' /\ ExecutedOK'
  BY <1>3 DEF SlotOK, ExecutedOK, WriteLabels, BackLabels
<1>10. AnswerOK' /\ ArrivalOK' /\ AnswerIsGenuine' /\ AnswerArrives'
  BY <1>3, <1>7 DEF AnswerOK, ArrivalOK, AnswerIsGenuine, AnswerArrives
<1> QED
  BY <1>4, <1>6, <1>8, <1>9, <1>10

LEMMA NewCall ==
    ASSUME NEW caller \in Callers, NEW request \in Request
    PROVE  /\ CallBy(caller, request) \in [by : Callers, request : Request, executed : Nat, outcome : Outcome]
           /\ CallBy(caller, request).by = caller
           /\ CallBy(caller, request).request = request
           /\ CallBy(caller, request).executed = 0
BY DEF CallBy, NoOutcome, Outcome, DatabaseErrors

\* Each of the ten calls packs a request of its type.
LEMMA RegistryCalls ==
    ASSUME RegistryCall
    PROVE  \E type \in RequestTypes \ {"SHUTDOWN"} :
                Invoke(type, NoArgument) \/ Invoke(type, OneArgument)
<1>1. Getters \cup Setters \cup {"GET_ENUM"} \subseteq RequestTypes \ {"SHUTDOWN"}
  BY DEF RequestTypes, Getters, Setters
<1>2. /\ registry_get_int64 => Invoke("GET_INT", NoArgument)
      /\ registry_set_int64 => Invoke("SET_INT", OneArgument)
      /\ registry_get_double => Invoke("GET_DOUBLE", NoArgument)
      /\ registry_set_double => Invoke("SET_DOUBLE", OneArgument)
      /\ registry_get_string => Invoke("GET_STRING", NoArgument)
      /\ registry_set_string => Invoke("SET_STRING", OneArgument)
      /\ registry_get_blob => Invoke("GET_BLOB", NoArgument)
      /\ registry_set_blob => Invoke("SET_BLOB", OneArgument)
      /\ registry_enum_keys => Invoke("GET_ENUM", NoArgument)
      /\ registry_key_get_value_type => Invoke("GET_VALUE_TYPE", NoArgument)
  BY DEF registry_get_int64, registry_set_int64, registry_get_double, registry_set_double,
         registry_get_string, registry_set_string, registry_get_blob, registry_set_blob,
         registry_enum_keys, registry_key_get_value_type
<1>3. \E type \in Getters \cup Setters \cup {"GET_ENUM"} :
        Invoke(type, NoArgument) \/ Invoke(type, OneArgument)
  BY <1>2 DEF RegistryCall, Getters, Setters
<1> QED
  BY <1>1, <1>3

LEMMA Arguments ==
    ASSUME NEW type \in RequestTypes, NEW fields \in NoArgument \cup OneArgument
    PROVE  [type |-> type, fields |-> fields] \in Request
<1>1. <<>> \in Seq(Values) /\ \A v \in Values : <<v>> \in Seq(Values)
  OBVIOUS
<1>2. fields \in Seq(Values)
  BY <1>1 DEF NoArgument, OneArgument
<1> QED
  BY <1>2 DEF Request

LEMMA CallKeeps ==
    ASSUME IInv, RegistryCall, NoFault
    PROVE  IInv'
<1>1. PICK type \in RequestTypes \ {"SHUTDOWN"} : Invoke(type, NoArgument) \/ Invoke(type, OneArgument)
  BY RegistryCalls
<1>2. PICK fields \in NoArgument \cup OneArgument :
        /\ Begin("registry", [type |-> type, fields |-> fields])
        /\ Send([type |-> type, fields |-> fields])
        /\ UNCHANGED <<chain, server, slot, conn, result, owed, open>>
  BY <1>1 DEF Invoke
<1> DEFINE request == [type |-> type, fields |-> fields]
<1>3. request \in Request /\ request.type # "SHUTDOWN"
  BY <1>1, <1>2, Arguments
<1> HIDE DEF request
<1>4. /\ pc = "idle" /\ calls' = calls + 1 /\ call' = CallBy("registry", request)
      /\ Send(request) /\ calls \in Nat
      /\ slot # NoMessage <=> owed
  BY <1>2 DEF Begin, IInv, TypeOK, SlotOK, request
<1>5. /\ call' \in [by : Callers, request : Request, executed : Nat, outcome : Outcome]
      /\ call'.by = "registry" /\ call'.request = request /\ call'.executed = 0
  BY <1>3, <1>4, NewCall DEF Callers
<1> QED
  BY <1>2, <1>3, <1>4, <1>5, SendKeeps DEF NoFault

LEMMA DirectWriteKeeps ==
    ASSUME IInv, DirectWrite, NoFault
    PROVE  IInv'
<1>1. PICK type \in RequestTypes, fields \in NoArgument \cup OneArgument :
        /\ Begin("channel", [type |-> type, fields |-> fields])
        /\ Send([type |-> type, fields |-> fields])
        /\ UNCHANGED <<chain, server, slot, conn, result, owed, open>>
  BY DEF DirectWrite
<1> DEFINE request == [type |-> type, fields |-> fields]
<1>2. request \in Request
  BY <1>1, Arguments
<1> HIDE DEF request
<1>3. /\ pc = "idle" /\ calls' = calls + 1 /\ call' = CallBy("channel", request)
      /\ Send(request) /\ calls \in Nat
      /\ slot # NoMessage <=> owed
  BY <1>1 DEF Begin, IInv, TypeOK, SlotOK, request
<1>4. /\ call' \in [by : Callers, request : Request, executed : Nat, outcome : Outcome]
      /\ call'.by = "channel" /\ call'.request = request /\ call'.executed = 0
  BY <1>2, <1>3, NewCall DEF Callers
<1> QED
  BY <1>1, <1>2, <1>3, <1>4, SendKeeps DEF NoFault

\* A response is read: by the call that wrote, whose response is in the slot, or by
\* a reader.
LEMMA ReceiveKeeps ==
    ASSUME IInv, pc \in {"idle", "wrote"},
           call' \in [by : Callers, request : Request, executed : Nat, outcome : Outcome],
           Receive, calls' \in Nat, UNCHANGED <<chain, server, slot, conn, result, owed, open, faults>>,
           \/ call' = call /\ call.by = "registry" /\ pc = "wrote" /\ result.code = "OK"
           \/ call'.by = "reader" /\ call'.executed = 0 /\ pc = "idle"
    PROVE  IInv'
<1> USE DEF IInv
<1>1. Top \in Nat /\ Top' = Top /\ slot \in Slot
  BY DEF TypeOK, Top
<1>2. /\ pc' = "take" /\ at' = Top /\ buf' = NoMessage /\ Hand' = slot
      /\ conn' = [server_bytes |-> NoMessage, client_bytes |-> NoMessage]
  BY ConnectorEmpty DEF Receive, Goto, Hand
<1>3. TypeOK'
  BY <1>1, <1>2 DEF TypeOK, Labels, Slot
<1>4. ConnectorOK' /\ StageOK' /\ CallerOK'
  BY <1>2 DEF ConnectorOK, StageOK, CallerOK, WriteLabels, BackLabels
<1>5. DigestsOK'
  BY <1>2 DEF DigestsOK
<1>6. SlotOK' /\ ExecutedOK'
  BY <1>2 DEF SlotOK, ExecutedOK, WriteLabels, BackLabels
<1>7. Answered' => call' = call /\ call.by = "registry" /\ Answered /\ Hand = slot /\ slot # NoMessage
  BY <1>2 DEF Answered, BackLabels, Hand, SlotOK
<1>8. HandOK' /\ AnswerOK' /\ ArrivalOK'
  BY <1>2, <1>7 DEF HandOK, AnswerOK, ArrivalOK, Answers, WriteLabels
<1>9. AnswerIsGenuine' /\ AnswerArrives'
  BY <1>2 DEF AnswerIsGenuine, AnswerArrives
<1> QED
  BY <1>3, <1>4, <1>5, <1>6, <1>8, <1>9

LEMMA DirectReadKeeps ==
    ASSUME IInv, DirectRead, NoFault
    PROVE  IInv'
<1>1. NoRequest \in Request
  BY DEF NoRequest, Request, RequestTypes, Getters
<1>2. /\ pc = "idle" /\ calls' = calls + 1 /\ call' = CallBy("reader", NoRequest) /\ Receive
      /\ calls \in Nat /\ UNCHANGED <<chain, server, slot, conn, result, owed, open, faults>>
  BY DEF DirectRead, Begin, NoFault, IInv, TypeOK
<1>3. /\ call' \in [by : Callers, request : Request, executed : Nat, outcome : Outcome]
      /\ call'.by = "reader" /\ call'.executed = 0
  BY <1>1, <1>2, NewCall DEF Callers
<1> QED
  BY <1>2, <1>3, ReceiveKeeps

\* The call whose response is in hand reports it.
LEMMA FinishKeeps ==
    ASSUME IInv, pc \in {"wrote", "read", "unpack"},
           NEW code \in Codes, NEW out \in Seq(Values \cup Counts \cup DatabaseErrors),
           Finish(code, out),
           code = "BUSY" => call.executed = 0,
           slot # NoMessage <=> owed,
           UNCHANGED <<chain, server, slot, conn, call, owed, open, calls>>, faults' \in Nat,
           AnswerIsGenuine', AnswerArrives'
    PROVE  IInv'
<1> USE DEF IInv
<1>1. /\ pc' = "idle" /\ at' = 0 /\ buf' = NoMessage
      /\ result' = [code |-> code, out |-> out]
      /\ conn' = [server_bytes |-> NoMessage, client_bytes |-> NoMessage]
  BY ConnectorEmpty DEF Finish, Returns, Goto
<1>2. TypeOK'
  <2>1. result' \in [code : Codes, out : Seq(Values \cup Counts \cup DatabaseErrors)]
    BY <1>1
  <2>2. Top \in Nat /\ Top' = Top
    BY DEF TypeOK, Top
  <2> QED
    BY <1>1, <2>1, <2>2 DEF TypeOK, Labels, Slot
<1>3. ConnectorOK' /\ ExecutedOK' /\ SlotOK'
  BY <1>1 DEF ConnectorOK, ExecutedOK, SlotOK, WriteLabels, BackLabels
<1>4. /\ slot' # NoMessage => slot'.digests = <<>>
      /\ call'.by = "registry" => call'.request.type # "SHUTDOWN"
  BY DEF DigestsOK, CallerOK
<1> HIDE DEF IInv
<1> QED
  BY <1>1, <1>2, <1>3, <1>4, NothingInHand

LEMMA WrittenKeeps ==
    ASSUME IInv, Written, NoFault
    PROVE  IInv'
<1>1. /\ pc = "wrote" /\ call.by = "registry" /\ faults' = faults /\ faults \in Nat
      /\ UNCHANGED <<chain, server, slot, conn, call, owed, open, calls>> /\ calls \in Nat
      /\ call \in [by : Callers, request : Request, executed : Nat, outcome : Outcome]
      /\ call.request.type # "SHUTDOWN"
  BY DEF Written, NoFault, IInv, TypeOK, CallerOK
<1>2. CASE result.code = "BUSY" /\ Send(call.request) /\ UNCHANGED result
  <2>1. call.executed = 0 /\ (slot # NoMessage <=> owed)
    BY <1>1, <1>2 DEF IInv, ExecutedOK, SlotOK
  <2>2. Send(call'.request) /\ call' = call
    BY <1>1, <1>2
  <2> QED
    BY <1>1, <1>2, <2>1, <2>2, SendKeeps
<1>3. CASE result.code = "OK" /\ Receive /\ UNCHANGED result
  BY <1>1, <1>3, ReceiveKeeps
<1>4. CASE result.code \notin {"BUSY", "OK"} /\ Finish("UNKNOWN", <<>>)
  <2>1. slot # NoMessage <=> owed
    BY <1>1, <1>4 DEF IInv, SlotOK
  <2>2. result'.code = "UNKNOWN"
    BY <1>4 DEF Finish, Returns
  <2>3. AnswerIsGenuine'
    BY <2>2 DEF AnswerIsGenuine
  <2>4. AnswerArrives'
    BY <1>1, <1>4 DEF IInv, ArrivalOK, AnswerArrives
  <2>5. "UNKNOWN" \in Codes /\ <<>> \in Seq(Values \cup Counts \cup DatabaseErrors)
    BY DEF Codes, OpenErrors
  <2> QED
    BY <1>1, <1>4, <2>1, <2>3, <2>4, <2>5, FinishKeeps
<1> QED
  BY <1>2, <1>3, <1>4 DEF Written

LEMMA ReadDoneKeeps ==
    ASSUME IInv, ReadDone, NoFault
    PROVE  IInv'
<1>1. /\ pc = "read" /\ call.by = "registry" /\ faults' = faults /\ faults \in Nat
      /\ UNCHANGED <<chain, server, slot, conn, call, owed, open, calls>> /\ calls \in Nat
      /\ slot = NoMessage /\ ~owed /\ result.code # "BUSY"
  BY DEF ReadDone, NoFault, IInv, TypeOK, CallerOK, SlotOK
<1>2. CASE result.code = "OK"
  <2> USE DEF IInv
  <2>1. pc' = "unpack" /\ UNCHANGED <<at, buf, result>>
    BY <1>1, <1>2 DEF ReadDone
  <2>2. conn' = [server_bytes |-> NoMessage, client_bytes |-> NoMessage]
    BY <1>1, ConnectorEmpty
  <2>3. TypeOK'
    BY <1>1, <2>1 DEF TypeOK, Labels, Top
  <2>4. ConnectorOK' /\ StageOK' /\ CallerOK' /\ DigestsOK'
    BY <1>1, <2>1, <2>2 DEF ConnectorOK, StageOK, CallerOK, DigestsOK, WriteLabels, BackLabels
  <2>5. Answered /\ Hand' = Hand
    BY <1>1, <1>2, <2>1 DEF Answered, Hand
  <2>6. HandOK' /\ SlotOK' /\ ExecutedOK'
    BY <1>1, <2>1, <2>5 DEF HandOK, SlotOK, ExecutedOK, WriteLabels, BackLabels
  <2>7. AnswerOK' /\ ArrivalOK'
    BY <1>1, <2>1, <2>5 DEF AnswerOK, ArrivalOK, Answers
  <2>8. AnswerIsGenuine' /\ AnswerArrives'
    BY <2>1 DEF AnswerIsGenuine, AnswerArrives
  <2> QED
    BY <2>3, <2>4, <2>6, <2>7, <2>8
<1>3. CASE result.code # "OK"
  <2>1. Finish("UNKNOWN", <<>>)
    BY <1>1, <1>3 DEF ReadDone
  <2>2. result'.code = "UNKNOWN"
    BY <2>1 DEF Finish, Returns
  <2>3. AnswerIsGenuine'
    BY <2>2 DEF AnswerIsGenuine
  <2>4. AnswerArrives'
    BY <1>1, <1>3 DEF IInv, ArrivalOK, AnswerArrives
  <2>5. "UNKNOWN" \in Codes /\ <<>> \in Seq(Values \cup Counts \cup DatabaseErrors)
    BY DEF Codes, OpenErrors
  <2> QED
    BY <1>1, <2>1, <2>3, <2>4, <2>5, FinishKeeps
<1> QED
  BY <1>2, <1>3

LEMMA UnpackKeeps ==
    ASSUME IInv, Unpack, NoFault
    PROVE  IInv'
<1> DEFINE type == call.request.type
           response == buf.packet
<1>1. /\ pc = "unpack" /\ call.by = "registry" /\ faults' = faults /\ faults \in Nat
      /\ UNCHANGED <<chain, server, slot, conn, call, owed, open, calls>>
      /\ slot = NoMessage /\ ~owed
      /\ response \in Response /\ type \in RequestTypes \ {"SHUTDOWN"}
      /\ call.outcome \in Outcome
  BY DEF Unpack, NoFault, IInv, TypeOK, CallerOK, SlotOK, HandOK, Hand, Answered, Request
<1>2. server = "running" => Answers(response)
  BY <1>1 DEF IInv, AnswerOK, Answered, Hand
<1>3. Expected[type] = AnswerType[type] /\ AnswerType[type] # "ERROR"
  BY <1>1 DEF Expected, AnswerType, RequestTypes, Getters, Setters
<1>4. response.fields \in Seq(Values \cup Counts \cup DatabaseErrors)
  BY <1>1 DEF Response
<1> DEFINE error == ErrorCode(type, response.fields[1])
           ok == response.type = Expected[type] /\ Readable(type, response.fields)
<1>5. CASE response.type = "ERROR"
  <2>1. Finish(error, <<>>)
    BY <1>5 DEF Unpack
  <2>2. /\ error \in {"REGISTRY_INVALID_STATE", "REGISTRY_NO_SUCH_KEY", "UNKNOWN"}
        /\ error = "REGISTRY_INVALID_STATE" => response.fields[1] = "INVALID"
        /\ error = "REGISTRY_NO_SUCH_KEY" => response.fields[1] = "NO_SUCH_KEY"
    BY DEF ErrorCode
  <2> HIDE DEF error
  <2>3. result'.code = error /\ result'.out = <<>>
    BY <2>1 DEF Finish, Returns
  <2>4. AnswerIsGenuine'
    BY <1>1, <1>2, <1>5, <2>2, <2>3 DEF AnswerIsGenuine, Answers
  <2>5. AnswerArrives'
    <3>1. SUFFICES ASSUME faults = 0, server = "running"
                   PROVE  /\ call.executed = 1
                          /\ call.outcome.code # "OK"
                          /\ call.outcome.code = "NO_SUCH_KEY" => error = "REGISTRY_NO_SUCH_KEY"
      BY <1>1, <2>3 DEF AnswerArrives
    <3>2. /\ call.executed = 1 /\ call.outcome \in DatabaseOutcomes(type)
          /\ response = ResponseTo(type, call.outcome)
      BY <1>1, <3>1 DEF IInv, ArrivalOK, Answered, Hand
    <3>3. /\ call.outcome.code = "OK" => response = [type |-> AnswerType[type], fields |-> call.outcome.out]
          /\ call.outcome.code # "OK" => response = [type |-> "ERROR", fields |-> <<call.outcome.code>>]
      BY <1>1, <3>2, Outcomes
    <3>4. call.outcome.code = "NO_SUCH_KEY" => type \notin Setters
      BY <3>2 DEF DatabaseOutcomes, Getters, Setters
    <3> QED
      BY <1>3, <1>5, <3>2, <3>3, <3>4 DEF ErrorCode, error
  <2>6. error \in Codes /\ error # "BUSY" /\ <<>> \in Seq(Values \cup Counts \cup DatabaseErrors)
    BY <2>2 DEF Codes, OpenErrors
  <2> QED
    BY <1>1, <2>1, <2>4, <2>5, <2>6, FinishKeeps
<1>6. CASE response.type # "ERROR" /\ ok
  <2>1. Finish("OK", response.fields)
    BY <1>6 DEF Unpack
  <2>2. result'.code = "OK" /\ result'.out = response.fields
    BY <2>1 DEF Finish, Returns
  <2>3. call.outcome = [code |-> call.outcome.code, out |-> call.outcome.out]
    BY <1>1 DEF Outcome
  <2>4. AnswerIsGenuine'
    BY <1>1, <1>2, <1>6, <2>2, <2>3 DEF AnswerIsGenuine, Answers
  <2>5. AnswerArrives'
    BY <1>1, <1>2, <1>6, <2>2 DEF AnswerArrives, Answers
  <2> QED
    BY <1>1, <1>4, <2>1, <2>4, <2>5, FinishKeeps DEF Codes
<1>7. CASE response.type # "ERROR" /\ ~ok
  <2>1. Finish("UNKNOWN", <<>>)
    BY <1>7 DEF Unpack
  <2>2. result'.code = "UNKNOWN"
    BY <2>1 DEF Finish, Returns
  <2>3. AnswerIsGenuine'
    BY <2>2 DEF AnswerIsGenuine
  <2>4. ~(faults = 0 /\ server = "running")
    <3>1. SUFFICES ASSUME faults = 0, server = "running" PROVE FALSE
      OBVIOUS
    <3>2. call.outcome \in DatabaseOutcomes(type) /\ response = ResponseTo(type, call.outcome)
      BY <1>1, <3>1 DEF IInv, ArrivalOK, Answered, Hand
    <3>3. response = [type |-> AnswerType[type], fields |-> call.outcome.out] /\ call.outcome.code = "OK"
      BY <1>1, <1>7, <3>2, Outcomes
    <3>4. call.outcome.out \in Found(type)
      BY <3>2, <3>3 DEF DatabaseOutcomes, DatabaseErrors
    <3>5. Readable(type, call.outcome.out)
      BY <3>4 DEF Readable, Found, Setters
    <3> QED
      BY <1>3, <1>7, <3>3, <3>5
  <2>5. AnswerArrives'
    BY <1>1, <2>4 DEF AnswerArrives
  <2>6. "UNKNOWN" \in Codes /\ <<>> \in Seq(Values \cup Counts \cup DatabaseErrors)
    BY DEF Codes, OpenErrors
  <2> QED
    BY <1>1, <2>1, <2>3, <2>5, <2>6, FinishKeeps
<1> QED
  BY <1>5, <1>6, <1>7

\* A call that runs out of memory after the read; the response is lost with it.
LEMMA UnpackFailsKeeps ==
    ASSUME IInv, UnpackFails, Fault
    PROVE  IInv'
<1> USE FaultCounts
<1>1. pc = "unpack" /\ slot = NoMessage /\ ~owed /\ calls \in Nat
  BY DEF UnpackFails, IInv, SlotOK, TypeOK
<1>2. CASE Finish("UNKNOWN", <<>>) /\ UNCHANGED <<chain, server, slot, conn, call, owed, open, calls>>
  <2>1. result'.code = "UNKNOWN"
    BY <1>2 DEF Finish, Returns
  <2>2. AnswerIsGenuine' /\ AnswerArrives'
    BY <2>1 DEF AnswerIsGenuine, AnswerArrives
  <2>3. "UNKNOWN" \in Codes /\ <<>> \in Seq(Values \cup Counts \cup DatabaseErrors)
    BY DEF Codes, OpenErrors
  <2> QED
    BY <1>1, <1>2, <2>2, <2>3, FinishKeeps
<1>3. CASE Abort /\ UNCHANGED <<open, calls>>
  BY <1>1, <1>3, AbortKeeps
<1> QED
  BY <1>2, <1>3 DEF UnpackFails

LEMMA DirectReturnKeeps ==
    ASSUME IInv, DirectReturn, NoFault
    PROVE  IInv'
<1>1. /\ pc \in {"wrote", "read"} /\ call.by \in {"channel", "reader"}
      /\ pc = "wrote" => call.by = "channel"
      /\ faults' = faults /\ faults \in Nat
      /\ UNCHANGED <<chain, server, slot, conn, call, owed, open, calls>>
      /\ result.code \in Codes
  BY DEF DirectReturn, NoFault, IInv, TypeOK
<1>2. slot # NoMessage <=> owed
  BY <1>1 DEF IInv, SlotOK
<1>3. PICK out \in {<<>>, buf.packet.fields} :
        Finish(result.code, out) /\ (out # <<>> => pc = "read" /\ result.code = "OK")
  BY <1>1 DEF DirectReturn
<1>4. out \in Seq(Values \cup Counts \cup DatabaseErrors)
  <2>1. CASE out = <<>>
    BY <2>1
  <2>2. CASE out # <<>>
    <3>1. buf.packet \in Response /\ out = buf.packet.fields
      BY <1>3, <2>2 DEF IInv, HandOK, Answered, Hand
    <3> QED
      BY <3>1 DEF Response
  <2> QED
    BY <2>1, <2>2
<1>5. AnswerIsGenuine' /\ AnswerArrives'
  BY <1>1 DEF AnswerIsGenuine, AnswerArrives
<1>6. result.code = "BUSY" => call.executed = 0
  BY <1>1 DEF IInv, ExecutedOK
<1> QED
  BY <1>1, <1>2, <1>3, <1>4, <1>5, <1>6, FinishKeeps

----------------------------------------------------------------------------
(* Opening and closing. *)

\* A call that neither writes nor reads leaves an idle handle, or none.
LEMMA IdleKeeps ==
    ASSUME IInv, pc = "idle", NEW code \in Codes \ {"BUSY"}, Finish(code, <<>>),
           NEW request \in Request, request.type # "SHUTDOWN",
           \/ call' = CallBy("none", request)
           \/ call' = CallBy("registry", request) /\ code = "UNKNOWN" /\ faults' # 0,
           calls' \in Nat, faults' \in Nat, open' \in BOOLEAN,
           chain' \in Seq(Stages), server' \in {"none", "running", "freed"},
           \/ UNCHANGED <<slot, conn, owed>>
           \/ /\ slot' = NoMessage /\ owed' = FALSE
              /\ conn' = [server_bytes |-> NoMessage, client_bytes |-> NoMessage]
    PROVE  IInv'
<1>1. /\ pc' = "idle" /\ at' = 0 /\ buf' = NoMessage
      /\ result' = [code |-> code, out |-> <<>>]
      /\ conn' = [server_bytes |-> NoMessage, client_bytes |-> NoMessage]
  BY ConnectorEmpty DEF Finish, Returns, Goto
<1>2. /\ call' \in [by : Callers, request : Request, executed : Nat, outcome : Outcome]
      /\ call'.by \in {"none", "registry"} /\ call'.executed = 0 /\ call'.request = request
      /\ call'.by = "registry" => code = "UNKNOWN" /\ faults' # 0
  BY NewCall DEF Callers
<1>3. /\ slot' \in Slot /\ owed' \in BOOLEAN /\ (slot' # NoMessage <=> owed')
      /\ slot' # NoMessage => slot'.digests = <<>> /\ slot'.packet \in Response
  <2>1. CASE slot' = NoMessage /\ owed' = FALSE
    BY <2>1 DEF Slot
  <2>2. CASE UNCHANGED <<slot, owed>>
    BY <2>2 DEF IInv, TypeOK, SlotOK, DigestsOK
  <2> QED
    BY <2>1, <2>2
<1>4. TypeOK'
  <2>1. result' \in [code : Codes, out : Seq(Values \cup Counts \cup DatabaseErrors)]
    BY <1>1
  <2>2. conn' \in [server_bytes : Slot, client_bytes : Slot] /\ buf' \in Slot
    BY <1>1 DEF Slot
  <2>3. Top' \in Nat
    BY DEF Top
  <2> QED
    BY <1>1, <1>2, <1>3, <2>1, <2>2, <2>3 DEF TypeOK, Labels
<1>5. ConnectorOK' /\ SlotOK' /\ ExecutedOK'
  BY <1>1, <1>2, <1>3 DEF ConnectorOK, SlotOK, ExecutedOK, WriteLabels, BackLabels
<1>6. AnswerIsGenuine' /\ AnswerArrives'
  BY <1>1, <1>2 DEF AnswerIsGenuine, AnswerArrives
<1> QED
  BY <1>1, <1>2, <1>3, <1>4, <1>5, <1>6, NothingInHand

LEMMA EmptyRequest ==
    ASSUME NEW type \in RequestTypes
    PROVE  [type |-> type, fields |-> <<>>] \in Request
BY DEF Request

LEMMA OpenKeeps ==
    ASSUME IInv, registry_open, NoFault
    PROVE  IInv'
<1>1. NoRequest \in Request /\ NoRequest.type # "SHUTDOWN"
  BY EmptyRequest DEF NoRequest, RequestTypes, Getters
<1>2. PICK id \in Identifiers, database \in {"OK", "DATABASE_OPEN", "DATABASE_INVALID", "MEMORY", "UNKNOWN"} :
        LET code == OpenCode(id, database) IN
        /\ Finish(code, <<>>)
        /\ IF code = "OK"
           THEN /\ open' = TRUE /\ server' = "running"
                /\ chain' = [i \in 1 .. Len(id.parts) - 1 |-> id.parts[i + 1].arg]
                /\ UNCHANGED <<slot, conn, owed>>
           ELSE UNCHANGED <<open, server, chain, slot, conn, owed>>
  BY DEF registry_open
<1>3. OpenCode(id, database) \in OpenErrors \cup {"OK"}
  BY DEF OpenCode, OpenErrors
<1>4. OpenCode(id, database) \in Codes \ {"BUSY"}
  BY <1>3 DEF Codes, OpenErrors
<1>5. chain' \in Seq(Stages) /\ server' \in {"none", "running", "freed"} /\ open' \in BOOLEAN
  <2>1. CASE OpenCode(id, database) = "OK"
    <3>1. id.parts \in Seq(Part) \ {<<>>}
      BY ConstantsAssumption DEF Identifier
    <3> DEFINE n == Len(id.parts) - 1
    <3>2. n \in Nat /\ \A i \in 1 .. n : id.parts[i + 1] \in Part
      BY <3>1
    <3>3. \A i \in 1 .. n : id.parts[i + 1].arg \in Stages
      BY <3>2 DEF Part
    <3>4. [i \in 1 .. n |-> id.parts[i + 1].arg] \in Seq(Stages)
      <4> HIDE DEF n
      <4> QED
        BY <3>2, <3>3
    <3> QED
      BY <1>2, <2>1, <3>4
  <2>2. CASE OpenCode(id, database) # "OK"
    BY <1>2, <2>2 DEF IInv, TypeOK
  <2> QED
    BY <2>1, <2>2
<1>6. /\ pc = "idle" /\ calls' \in Nat /\ call' = CallBy("none", NoRequest)
      /\ faults' \in Nat /\ UNCHANGED <<slot, conn, owed>>
  BY <1>2 DEF registry_open, Begin, NoFault, IInv, TypeOK
<1>7. Finish(OpenCode(id, database), <<>>)
  BY <1>2
<1> QED
  BY <1>1, <1>4, <1>5, <1>6, <1>7, IdleKeeps

LEMMA OpenFailsKeeps ==
    ASSUME IInv, OpenFails, Fault
    PROVE  IInv'
<1> USE FaultCounts
<1>1. NoRequest \in Request /\ NoRequest.type # "SHUTDOWN"
  BY EmptyRequest DEF NoRequest, RequestTypes, Getters
<1>2. CASE /\ Begin("none", NoRequest) /\ Finish("MEMORY", <<>>)
           /\ UNCHANGED <<chain, server, slot, conn, owed, open>>
  <2>1. /\ pc = "idle" /\ calls' \in Nat /\ call' = CallBy("none", NoRequest)
        /\ chain \in Seq(Stages) /\ server \in {"none", "running", "freed"} /\ open \in BOOLEAN
    BY <1>2 DEF Begin, IInv, TypeOK
  <2>2. "MEMORY" \in Codes \ {"BUSY"}
    BY DEF Codes, OpenErrors
  <2> QED
    BY <1>1, <1>2, <2>1, <2>2, IdleKeeps
<1>3. CASE pc = "idle" /\ calls' = calls + 1 /\ Abort /\ UNCHANGED open
  <2>1. calls' \in Nat
    BY <1>3 DEF IInv, TypeOK
  <2> QED
    BY <1>3, <2>1, AbortKeeps
<1> QED
  BY <1>2, <1>3 DEF OpenFails

LEMMA PackFailsKeeps ==
    ASSUME IInv, PackFails, Fault
    PROVE  IInv'
<1> USE FaultCounts
<1>1. ASSUME NEW type \in RequestTypes \ {"SHUTDOWN"},
             Begin("registry", [type |-> type, fields |-> <<>>]), Finish("UNKNOWN", <<>>),
             UNCHANGED <<chain, server, slot, conn, owed, open>>
      PROVE  IInv'
  <2> DEFINE request == [type |-> type, fields |-> <<>>]
  <2>1. request \in Request /\ request.type # "SHUTDOWN"
    BY EmptyRequest
  <2> HIDE DEF request
  <2>2. /\ pc = "idle" /\ calls' \in Nat /\ call' = CallBy("registry", request)
        /\ chain \in Seq(Stages) /\ server \in {"none", "running", "freed"} /\ open \in BOOLEAN
    BY <1>1 DEF Begin, IInv, TypeOK, request
  <2>3. "UNKNOWN" \in Codes \ {"BUSY"}
    BY DEF Codes, OpenErrors
  <2> QED
    BY <1>1, <2>1, <2>2, <2>3, IdleKeeps
<1>2. CASE pc = "idle" /\ calls' = calls + 1 /\ Abort /\ UNCHANGED open
  <2>1. calls' \in Nat
    BY <1>2 DEF IInv, TypeOK
  <2> QED
    BY <1>2, <2>1, AbortKeeps
<1> QED
  BY <1>1, <1>2 DEF PackFails

LEMMA CloseKeeps ==
    ASSUME IInv, registry_close, NoFault
    PROVE  IInv'
<1>1. NoRequest \in Request /\ NoRequest.type # "SHUTDOWN"
  BY EmptyRequest DEF NoRequest, RequestTypes, Getters
<1>2. /\ pc = "idle" /\ calls' \in Nat /\ call' = CallBy("none", NoRequest)
      /\ Finish("OK", <<>>) /\ faults' \in Nat
      /\ open' = FALSE /\ chain' \in Seq(Stages) /\ server' = "none"
      /\ slot' = NoMessage /\ owed' = FALSE
      /\ conn' = [server_bytes |-> NoMessage, client_bytes |-> NoMessage]
  BY DEF registry_close, Begin, Closed, NoFault, IInv, TypeOK
<1>3. "OK" \in Codes \ {"BUSY"}
  BY DEF Codes, OpenErrors
<1> QED
  BY <1>1, <1>2, <1>3, IdleKeeps

LEMMA CloseAfterShutdownKeeps ==
    ASSUME IInv, CloseAfterShutdown, NoFault
    PROVE  IInv'
<1>1. pc = "idle" /\ calls' \in Nat /\ faults' \in Nat /\ Abort /\ UNCHANGED open
  BY DEF CloseAfterShutdown, NoFault, IInv, TypeOK
<1> QED
  BY <1>1, AbortKeeps

----------------------------------------------------------------------------
(* The theorems. *)

LEMMA InitHolds ==
    ASSUME Init
    PROVE  IInv
<1>1. NoRequest \in Request /\ NoRequest.type # "SHUTDOWN"
  BY EmptyRequest DEF NoRequest, RequestTypes, Getters
<1>2. /\ call \in [by : Callers, request : Request, executed : Nat, outcome : Outcome]
      /\ call.by = "none" /\ call.executed = 0
  BY <1>1, NewCall DEF Init, Callers
<1>3. /\ result \in [code : Codes, out : Seq(Values \cup Counts \cup DatabaseErrors)]
      /\ result.code = "NONE"
  <2>1. result = [code |-> "NONE", out |-> <<>>]
    BY DEF Init
  <2>2. "NONE" \in Codes /\ <<>> \in Seq(Values \cup Counts \cup DatabaseErrors)
    BY DEF Codes
  <2> QED
    BY <2>1, <2>2
<1>4. TypeOK
  <2>1. conn \in [server_bytes : Slot, client_bytes : Slot] /\ slot \in Slot /\ buf \in Slot
    BY DEF Init, Slot
  <2>2. chain \in Seq(Stages) /\ at \in 0 .. Top
    BY DEF Init, Top
  <2>3. pc \in Labels /\ server \in {"none", "running", "freed"}
    BY DEF Init, Labels
  <2>4. owed \in BOOLEAN /\ open \in BOOLEAN /\ faults \in Nat /\ calls \in Nat
    BY DEF Init
  <2> QED
    BY <1>2, <1>3, <2>1, <2>2, <2>3, <2>4 DEF TypeOK
<1>5. ConnectorOK /\ StageOK /\ CallerOK
  BY <1>2 DEF Init, ConnectorOK, StageOK, CallerOK, WriteLabels, BackLabels
<1>6. ~Answered /\ pc \notin WriteLabels
  BY DEF Init, Answered, WriteLabels, BackLabels
<1>7. DigestsOK /\ HandOK
  BY <1>6 DEF Init, DigestsOK, HandOK
<1>8. SlotOK /\ ExecutedOK
  BY <1>2, <1>3 DEF Init, SlotOK, ExecutedOK, WriteLabels, BackLabels
<1>9. AnswerOK /\ ArrivalOK /\ AnswerIsGenuine /\ AnswerArrives
  BY <1>2, <1>6 DEF AnswerOK, ArrivalOK, AnswerIsGenuine, AnswerArrives
<1> QED
  BY <1>4, <1>5, <1>7, <1>8, <1>9 DEF IInv

LEMMA StutterKeeps ==
    ASSUME IInv, UNCHANGED vars
    PROVE  IInv'
BY DEF vars, channelVars, IInv, TypeOK, ConnectorOK, StageOK, CallerOK, DigestsOK, HandOK, SlotOK,
       ExecutedOK, AnswerOK, ArrivalOK, AnswerIsGenuine, AnswerArrives, Hand, Answered, Answers,
       Carries, Top

LEMMA NextKeeps ==
    ASSUME IInv, [Next]_vars
    PROVE  IInv'
<1>1. CASE Start /\ NoFault
  BY <1>1, OpenKeeps, CloseKeeps, CloseAfterShutdownKeeps, CallKeeps, DirectWriteKeeps, DirectReadKeeps
     DEF Start
<1>2. CASE ChannelStep /\ UNCHANGED <<open, calls>> /\ NoFault
  <2>1. UNCHANGED <<open, calls, faults>>
    BY <1>2 DEF NoFault
  <2> QED
    BY <1>2, <2>1, SignKeeps, SignBackKeeps, VerifyKeeps, VerifyBackKeeps, ConnectKeeps, FetchKeeps,
       StoreKeeps, CollectLeaves, RefuseKeeps, ProcessKeeps, ShutdownKeeps, UseAfterShutdownKeeps,
       ReplyKeeps, TakeKeeps
       DEF ChannelStep
<1>3. CASE (Written \/ ReadDone \/ Unpack \/ DirectReturn) /\ NoFault
  BY <1>3, WrittenKeeps, ReadDoneKeeps, UnpackKeeps, DirectReturnKeeps
<1>4. CASE Failure /\ Fault
  BY <1>4, SignFailsKeeps, VerifyFailsKeeps, ConnectorFailsKeeps, ServeFailsKeeps, ReplyFailsKeeps,
     OpenFailsKeeps, PackFailsKeeps, UnpackFailsKeeps
     DEF Failure, ChannelFault
<1>5. CASE UNCHANGED vars
  BY <1>5, StutterKeeps
<1> QED
  BY <1>1, <1>2, <1>3, <1>4, <1>5 DEF Next, Run, Finished

\* The inductive invariant: whatever fails wherever in the chain, each step finds the
\* message, the digests, the buffers and the caller the code takes for granted.
THEOREM RegistryInvariant == Spec => []IInv
<1>1. Init => IInv
  BY InitHolds
<1>2. IInv /\ [Next]_vars => IInv'
  BY NextKeeps
<1> QED
  BY <1>1, <1>2, PTL DEF Spec

\* registry.c, channel-*.c: between calls C is empty, and S holds a response exactly if
\* a direct write is owed it, for any chain of stages and any number of failures.
THEOREM RegistrySlotsInStep == Spec => []SlotsInStep
<1>1. IInv => SlotsInStep
  BY DEF IInv, SlotsInStep, ConnectorOK, SlotOK, TypeOK
<1> QED
  BY <1>1, RegistryInvariant, PTL

\* A call that reports anything but UNKNOWN reports its own, single execution.
THEOREM RegistryAnswerIsGenuine == Spec => []AnswerIsGenuine
<1>1. IInv => AnswerIsGenuine
  BY DEF IInv
<1> QED
  BY <1>1, RegistryInvariant, PTL

\* The BUSY loops never run a request twice, and a refused write did not run at all.
THEOREM RegistryAtMostOnce == Spec => []AtMostOnce
<1>1. IInv => AtMostOnce
  BY DEF IInv, AtMostOnce, ExecutedOK
<1> QED
  BY <1>1, RegistryInvariant, PTL

\* Without a failing allocation, an unread response or a shutdown, what the database
\* answered arrives through any number of hmac stages, with or without keys.
THEOREM RegistryAnswerArrives == Spec => []AnswerArrives
<1>1. IInv => AnswerArrives
  BY DEF IInv
<1> QED
  BY <1>1, RegistryInvariant, PTL

\* The slot changes only with what is owed: every other step leaves it alone.
LEMMA SlotChanges ==
    ASSUME IInv, [Next]_vars, owed, owed'
    PROVE  slot' = slot
<1>1. pc # "reply"
  BY DEF IInv, SlotOK
<1>2. ~registry_close
  BY DEF registry_close, Closed
<1>3. ChannelStep => slot' = slot
  BY <1>1 DEF ChannelStep, ch_client_write_bytes, ch_server_write_bytes, ch_server_read_bytes,
     ch_client_read_bytes, cec_client_write_bytes, cec_server_read_bytes, cec_server_write_bytes,
     Collect, cs_client_write_bytes, server_process, server_shutdown, UseAfterShutdown,
     cs_server_write_bytes, cs_client_read_bytes, Abort
<1>4. ChannelFault => slot' = slot
  BY DEF ChannelFault, SignFails, VerifyFails, ConnectorFails, ServeFails, ReplyFails, Abort
<1>5. RegistryCall => slot' = slot
  BY RegistryCalls DEF Invoke
<1>6. Start => slot' = slot
  BY <1>2, <1>5 DEF Start, registry_open, CloseAfterShutdown, DirectWrite, DirectRead, Abort
<1>7. Run => slot' = slot
  BY <1>3 DEF Run, Written, ReadDone, Unpack, DirectReturn
<1>8. Failure => slot' = slot
  BY <1>4 DEF Failure, OpenFails, PackFails, UnpackFails, Abort
<1>9. UNCHANGED vars => slot' = slot
  BY DEF vars, channelVars
<1> QED
  BY <1>6, <1>7, <1>8, <1>9 DEF Next, Finished

\* channel-with-server.c: a response somebody still has to read is never overwritten.
THEOREM RegistryOwedResponseKept == Spec => OwedResponseKept
<1>1. IInv /\ [Next]_vars => [owed /\ owed' => slot' = slot]_vars
  BY SlotChanges
<1> QED
  BY <1>1, RegistryInvariant, PTL DEF Spec, OwedResponseKept
=============================================================================
