------------------------- MODULE DatabaseStoreProofs -------------------------
(***************************************************************************)
(* Database implements KeyValueStore, for every number of handles, keys,   *)
(* values and faults.                                                      *)
(*                                                                         *)
(* Each step of a call either leaves the abstract state alone, or is one   *)
(* of the abstract steps: the SELECT of a reader is its Look, the COMMIT   *)
(* of a setter its Set.  What a COMMIT does to the store is known only     *)
(* from the statements before it, so the invariant StoreInv says of every  *)
(* transaction how far its tables have come from the committed ones, and   *)
(* of every setter whether what it looked up is still true.                *)
(***************************************************************************)
EXTENDS DatabaseStore, DatabaseProofs

----------------------------------------------------------------------------
(* The store read off the tables. *)

\* Tables whose constraints hold and whose keys all have a value.
Sound(tables) ==
    /\ tables \in Tables
    /\ Keyed(tables) /\ ValuesKeyed(tables)
    /\ \A k \in tables.keyInfo : RowComplete(tables, k)

\* A key with a row has its type and its value in the store.
LEMMA StoreOfRow ==
    ASSUME NEW tables, Sound(tables), NEW i \in tables.keyInfo, NEW v \in tables.values,
           v.type = i.type, v.id = i.id
    PROVE  StoreOf(tables)[i.key] = [type |-> i.type, val |-> v.val]
<1>1. i.key \in Keys
  BY DEF Sound, Tables, KeyRow
<1>2. (CHOOSE j \in tables.keyInfo : j.key = i.key) = i
  BY DEF Sound, Keyed
<1>3. (CHOOSE w \in tables.values : w.type = i.type /\ w.id = i.id) = v
  BY DEF Sound, ValuesKeyed
<1> QED
  BY <1>1, <1>2, <1>3 DEF StoreOf

\* A key without a row is absent.
LEMMA StoreOfNoRow ==
    ASSUME NEW tables, NEW key \in Keys, \A i \in tables.keyInfo : i.key # key
    PROVE  StoreOf(tables)[key] = Absent
  BY DEF StoreOf

\* Nothing that is stored looks like an absent key.
LEMMA RowIsNotAbsent ==
    ASSUME NEW tables \in Tables, NEW i \in tables.keyInfo, NEW v \in tables.values
    PROVE  [type |-> i.type, val |-> v.val] # Absent
<1>1. i.type \in Types /\ v \in ValueRow
  BY DEF Tables, KeyRow
<1>2. v.val \in Data \cup Paths
  BY <1>1, BlobRowsHavePaths
<1> QED
  BY <1>1, <1>2, AbsentAssumption

\* Either way, what the store has for a key.
LEMMA StoreAt ==
    ASSUME NEW tables, Sound(tables), NEW key \in Keys
    PROVE  \/ /\ \A i \in tables.keyInfo : i.key # key
              /\ StoreOf(tables)[key] = Absent
           \/ \E i \in tables.keyInfo, v \in tables.values :
              /\ i.key = key /\ v.type = i.type /\ v.id = i.id
              /\ StoreOf(tables)[key] = [type |-> i.type, val |-> v.val]
              /\ StoreOf(tables)[key] # Absent
<1>1. CASE \A i \in tables.keyInfo : i.key # key
  BY <1>1, StoreOfNoRow
<1>2. ASSUME NEW i \in tables.keyInfo, i.key = key
      PROVE  \E v \in tables.values :
                /\ v.type = i.type /\ v.id = i.id
                /\ StoreOf(tables)[key] = [type |-> i.type, val |-> v.val]
                /\ StoreOf(tables)[key] # Absent
  <2>1. PICK v \in tables.values : v.type = i.type /\ v.id = i.id
    BY DEF Sound, RowComplete
  <2>2. StoreOf(tables)[key] = [type |-> i.type, val |-> v.val]
    BY <1>2, <2>1, StoreOfRow
  <2>3. StoreOf(tables)[key] # Absent
    BY <2>2, RowIsNotAbsent DEF Sound
  <2> QED
    BY <2>1, <2>2, <2>3
<1> QED
  BY <1>1, <1>2

\* Tables with the same rows for a key have the same in the store.
LEMMA SameRowsSameStore ==
    ASSUME NEW old, NEW new, Sound(old), Sound(new), NEW key \in Keys,
           \A k \in new.keyInfo : k.key = key => k \in old.keyInfo,
           \A k \in old.keyInfo : k.key = key => k \in new.keyInfo,
           \A k \in old.keyInfo, v \in old.values : k.key = key /\ v.id = k.id => v \in new.values
    PROVE  StoreOf(new)[key] = StoreOf(old)[key]
<1>1. CASE \A k \in old.keyInfo : k.key # key
  <2>1. \A k \in new.keyInfo : k.key # key
    BY <1>1
  <2> QED
    BY <1>1, <2>1, StoreOfNoRow
<1>2. ASSUME NEW k \in old.keyInfo, k.key = key
      PROVE  StoreOf(new)[key] = StoreOf(old)[key]
  <2>1. PICK v \in old.values : v.type = k.type /\ v.id = k.id
    BY DEF Sound, RowComplete
  <2>2. k \in new.keyInfo /\ v \in new.values
    BY <1>2, <2>1
  <2>3. StoreOf(old)[k.key] = [type |-> k.type, val |-> v.val]
    BY <2>1, StoreOfRow
  <2>4. StoreOf(new)[k.key] = [type |-> k.type, val |-> v.val]
    BY <2>1, <2>2, StoreOfRow
  <2> QED
    BY <1>2, <2>3, <2>4
<1> QED
  BY <1>1, <1>2

LEMMA CommittedSound ==
    ASSUME StoreInv
    PROVE  Sound(db) /\ Store = StoreOf(db)
  BY DEF StoreInv, IInv, TypeOK, KeyHasValue, Sound, Store

----------------------------------------------------------------------------
(* Steps by what they do to the abstract state. *)

\* The step is one of the abstract specification, or one of the two faults that
\* forget a set, or nothing that the abstract state shows.
Mapped == KVS!KVNext \/ UNCHANGED KVS!kvVars \/ \E h \in Handles : Forgets(h)

\* When no row changes and no call begins, nobody is overtaken.
LEMMA NobodyOvertaken ==
    ASSUME StoreInv, Overtaking, db' = db, \A h \in Handles : ~Started(h)
    PROVE  Store' = Store /\ overtaken' = overtaken
<1>1. Store' = Store
  BY DEF Store, StoreOf
<1> QED
  BY <1>1 DEF StoreInv, Overtaking

\* A step of h leaves what the other handles know of the store true.
LEMMA StepKeepsStore ==
    ASSUME StoreInv, IInv', NEW h \in Handles, db' = db, overtaken' = overtaken, Store' = Store,
           OthersSame(h), \A g \in Handles \ {h} : res'[g] = res[g],
           dirty' = dirty \/ Alone(h), SetterOK(h)'
    PROVE  StoreInv'
<1>1. ValuesKeyed(db)' /\ SeqAbove(db)' /\ PathsKept' /\ (overtaken \subseteq Handles)'
  BY DEF StoreInv, ValuesKeyed, SeqAbove, PathsKept
<1>2. ASSUME NEW g \in Handles, g # h  PROVE SetterOK(g)'
  <2>1. pc'[g] = pc[g] /\ row'[g] = row[g] /\ req'[g] = req[g] /\ lock'[g] = lock[g] /\ res'[g] = res[g]
    BY <1>2 DEF OthersSame
  <2>2. SetterOK(g)
    BY DEF StoreInv
  <2>3. CallOK(g)'
    BY <2>1, <2>2 DEF SetterOK, CallOK, SetsBlob
  <2>4. SeenOK(g)'
    BY <2>1, <2>2 DEF SetterOK, SeenOK
  <2>5. ASSUME Writing(g)'  PROVE WritingOK(g)'
    <3>1. Writing(g)
      BY <2>1, <2>5 DEF Writing
    <3>2. dirty' = dirty
      BY <1>2, <3>1 DEF Alone
    <3>3. WritingOK(g)
      BY <2>2, <3>1 DEF SetterOK
    <3>4. RowOf(req[g])' = RowOf(req[g]) /\ StoreOf(dirty)' = StoreOf(dirty)
      BY <2>1, <3>2 DEF RowOf, StoreOf
    <3>5. EffectOK(g) => EffectOK(g)'
      BY <2>1, <3>4 DEF EffectOK
    <3> QED
      BY <2>1, <3>2, <3>3, <3>5 DEF WritingOK, ChangeOK, ValuesKeyed, SeqAbove, KeyInfoAccepts
  <2> QED
    BY <2>3, <2>4, <2>5 DEF SetterOK
<1> QED
  BY <1>1, <1>2 DEF StoreInv

\* A step inside a call that says nothing to the caller yet is none of the store's.
LEMMA InsideStep ==
    ASSUME StoreInv, IInv', Overtaking, NEW h \in Handles, NEW label \in Labels \ {"idle"},
           pc[h] # "idle", Goto(h, label), UNCHANGED <<db, req, res>>,
           \A g \in Handles \ {h} : row'[g] = row[g] /\ lock'[g] = lock[g],
           dirty' = dirty \/ Alone(h),
           overtaken' = overtaken => SetterOK(h)'
    PROVE  StoreInv' /\ Mapped
<1>1. TypeOK
  BY DEF StoreInv, IInv
<1>2. pc'[h] = label /\ \A g \in Handles \ {h} : pc'[g] = pc[g]
  BY <1>1, GotoTyped
<1>3. \A g \in Handles : ~Started(g)
  BY <1>2 DEF Started
<1>4. Store' = Store /\ overtaken' = overtaken
  BY <1>3, NobodyOvertaken
<1>5. OthersSame(h) /\ \A g \in Handles \ {h} : res'[g] = res[g]
  BY <1>2 DEF OthersSame
<1>6. StoreInv'
  BY <1>4, <1>5, StepKeepsStore
<1>7. UNCHANGED KVS!kvVars
  <2>1. {g \in Handles : pc[g] # "idle"}' = {g \in Handles : pc[g] # "idle"}
    BY <1>2
  <2>2. [g \in Handles |-> Answer(g)]' = [g \in Handles |-> Answer(g)]
    BY DEF Answer
  <2> QED
    BY <1>4, <2>1, <2>2 DEF KVS!kvVars
<1> QED
  BY <1>6, <1>7 DEF Mapped

\* The end of a call that changes no row, whatever it returns.
LEMMA ReturnKeepsStore ==
    ASSUME StoreInv, IInv', Overtaking, NEW h \in Handles, pc[h] # "idle",
           NEW code \in Codes, NEW out \in Answers, Return(h, code, out), db' = db,
           Release(h) \/ (lock' = lock /\ dirty' = dirty /\ ~Writing(h))
    PROVE  /\ StoreInv'
           /\ Store' = Store /\ overtaken' = overtaken /\ req' = req
           /\ {g \in Handles : pc'[g] # "idle"} = {g \in Handles : pc[g] # "idle"} \ {h}
           /\ res'[h] = [code |-> code, out |-> out]
           /\ \A g \in Handles \ {h} : res'[g] = res[g]
<1>1. TypeOK /\ SingleWriter
  BY DEF StoreInv, IInv
<1>2. /\ pc'[h] = "idle" /\ row'[h] = NoRow
      /\ \A g \in Handles \ {h} : pc'[g] = pc[g] /\ row'[g] = row[g] /\ req'[g] = req[g]
  BY <1>1, ReturnTyped
<1>3. /\ res'[h] = [code |-> code, out |-> out] /\ req' = req
      /\ \A g \in Handles \ {h} : res'[g] = res[g]
  BY <1>1 DEF Return, TypeOK
<1>4. \A g \in Handles : ~Started(g)
  BY <1>2 DEF Started
<1>5. Store' = Store /\ overtaken' = overtaken
  BY <1>4, NobodyOvertaken
<1>6. /\ ~Writing(h)'
      /\ dirty' = dirty \/ Alone(h)
      /\ \A g \in Handles \ {h} : lock'[g] = lock[g]
  <2>1. CASE Release(h)
    BY <1>1, <2>1, ReleaseTyped
  <2>2. CASE lock' = lock /\ dirty' = dirty /\ ~Writing(h)
    BY <2>2 DEF Writing
  <2> QED
    BY <2>1, <2>2
<1>7. SetterOK(h)'
  <2>1. CallOK(h)'
    BY <1>2, <1>3 DEF CallOK, StoreInv, SetterOK
  <2>2. SeenOK(h)'
    BY <1>2 DEF SeenOK, NoRow
  <2> QED
    BY <1>6, <2>1, <2>2 DEF SetterOK
<1>8. StoreInv'
  BY <1>2, <1>3, <1>5, <1>6, <1>7, StepKeepsStore DEF OthersSame
<1>9. {g \in Handles : pc'[g] # "idle"} = {g \in Handles : pc[g] # "idle"} \ {h}
  BY <1>2
<1> QED
  BY <1>3, <1>5, <1>8, <1>9

FailCodes == {"INVALID", "MEMORY", "IO", "NO_SUCH_KEY", "ABORTED", "KILLED"}

\* A call that returns an error is a failed call of the store.
LEMMA FailStep ==
    ASSUME StoreInv, IInv', Overtaking, NEW h \in Handles, pc[h] # "idle",
           NEW code \in FailCodes, Return(h, code, {}), db' = db,
           Release(h) \/ (lock' = lock /\ dirty' = dirty /\ ~Writing(h))
    PROVE  StoreInv' /\ Mapped
<1>1. code \in Codes /\ code # "OK"
  BY DEF FailCodes, Codes
<1>2. /\ StoreInv'
      /\ Store' = Store /\ overtaken' = overtaken /\ req' = req
      /\ {g \in Handles : pc'[g] # "idle"} = {g \in Handles : pc[g] # "idle"} \ {h}
      /\ res'[h] = [code |-> code, out |-> {}]
      /\ \A g \in Handles \ {h} : res'[g] = res[g]
  BY <1>1, ReturnKeepsStore, NothingRead
<1>3. [g \in Handles |-> Answer(g)]' =
        [[g \in Handles |-> Answer(g)] EXCEPT ![h] = [code |-> code, out |-> {}]]
  <2>1. Answer(h)' = [code |-> code, out |-> {}]
    BY <1>1, <1>2 DEF Answer
  <2>2. ASSUME NEW g \in Handles, g # h  PROVE Answer(g)' = Answer(g)
    BY <1>2, <2>2 DEF Answer
  <2> QED
    BY <2>1, <2>2
<1>4. KVS!Fail(h)
  BY <1>2, <1>3 DEF KVS!Fail, FailCodes
<1> QED
  BY <1>2, <1>4 DEF Mapped, KVS!KVNext

\* The answer of a reader that returns what it has looked up.
LEMMA EndLookStep ==
    ASSUME StoreInv, IInv', Overtaking, NEW h \in Handles, pc[h] # "idle",
           NEW code \in Codes, NEW out \in Answers, Return(h, code, out), db' = db,
           Release(h) \/ (lock' = lock /\ dirty' = dirty /\ ~Writing(h)),
           Answer(h) # KVS!Pending, Answer(h)' = Answer(h)
    PROVE  StoreInv' /\ Mapped
<1>1. /\ StoreInv'
      /\ Store' = Store /\ overtaken' = overtaken /\ req' = req
      /\ {g \in Handles : pc'[g] # "idle"} = {g \in Handles : pc[g] # "idle"} \ {h}
      /\ \A g \in Handles \ {h} : res'[g] = res[g]
  BY ReturnKeepsStore
<1>2. [g \in Handles |-> Answer(g)]' = [g \in Handles |-> Answer(g)]
  BY <1>1 DEF Answer
<1>3. KVS!EndLook(h)
  BY <1>1, <1>2 DEF KVS!EndLook
<1> QED
  BY <1>1, <1>3 DEF Mapped, KVS!KVNext

----------------------------------------------------------------------------
(* The beginning of a call, and the statements before the first write. *)

LEMMA CallMaps ==
    ASSUME StoreInv, IInv', Overtaking, NEW h \in Handles, NEW r \in Requests, Call(h, r)
    PROVE  StoreInv' /\ Mapped
<1> USE ConstantsAssumption
<1>1. TypeOK /\ pc[h] = "idle" /\ r \in Request
  BY DEF StoreInv, IInv, Call
<1>2. /\ pc'[h] = (IF r.op # "set" THEN "select" ELSE IF r.type # "Blob" THEN "lookup" ELSE "openFile")
      /\ \A g \in Handles \ {h} : pc'[g] = pc[g]
  BY <1>1 DEF TypeOK, Call, Goto
<1>3. /\ req' = [req EXCEPT ![h] = r] /\ req'[h] = r
      /\ \A g \in Handles \ {h} : req'[g] = req[g]
  BY <1>1 DEF TypeOK, Call
<1>4. /\ res' = [res EXCEPT ![h] = NoResult] /\ res'[h] = NoResult
      /\ \A g \in Handles \ {h} : res'[g] = res[g]
  BY <1>1 DEF TypeOK, Call
<1>5. /\ row'[h].type = row[h].type
      /\ r.op = "set" /\ r.type = "Blob" => row'[h].path = PathOf[r.key]
      /\ \A g \in Handles \ {h} : row'[g] = row[g]
  BY <1>1 DEF TypeOK, Call, Know
<1>6. db' = db /\ dirty' = dirty /\ lock' = lock
  BY DEF Call
<1>7. Store' = Store
  BY <1>6 DEF Store, StoreOf
<1>8. \A g \in Handles : Started(g) <=> g = h
  BY <1>1, <1>2 DEF Started
<1>9. overtaken' = overtaken \ {h}
  BY <1>7, <1>8 DEF StoreInv, Overtaking
<1>10. HandleOK(h) /\ ~Writing(h)
  BY <1>1 DEF StoreInv, IInv, HandleOK, ControlOK
<1>11. StoreInv'
  <2>1. ValuesKeyed(db)' /\ SeqAbove(db)' /\ PathsKept' /\ (overtaken \subseteq Handles)'
    BY <1>6, <1>9 DEF StoreInv, ValuesKeyed, SeqAbove, PathsKept
  <2>2. ASSUME NEW g \in Handles, g # h  PROVE SetterOK(g)'
    <3>1. SetterOK(g) /\ (g \in overtaken' <=> g \in overtaken)
      BY <1>9, <2>2 DEF StoreInv
    <3>2. /\ pc'[g] = pc[g] /\ row'[g] = row[g] /\ req'[g] = req[g]
          /\ lock'[g] = lock[g] /\ res'[g] = res[g]
      BY <1>2, <1>3, <1>4, <1>5, <1>6, <2>2
    <3>3. CallOK(g)' /\ SeenOK(g)'
      BY <1>6, <3>1, <3>2 DEF SetterOK, CallOK, SeenOK, SetsBlob
    <3>4. ASSUME Writing(g)'  PROVE WritingOK(g)'
      <4>1. WritingOK(g)
        BY <3>1, <3>2, <3>4 DEF SetterOK, Writing
      <4>2. RowOf(req[g])' = RowOf(req[g]) /\ StoreOf(dirty)' = StoreOf(dirty)
        BY <1>6, <3>2 DEF RowOf, StoreOf
      <4>3. EffectOK(g) => EffectOK(g)'
        BY <1>7, <3>1, <3>2, <4>2 DEF EffectOK
      <4> QED
        BY <1>6, <3>2, <4>1, <4>3 DEF WritingOK, ChangeOK, ValuesKeyed, SeqAbove, KeyInfoAccepts
    <3> QED
      BY <3>3, <3>4 DEF SetterOK
  <2>3. SetterOK(h)'
    <3>1. ~Writing(h)'
      BY <1>6, <1>10 DEF Writing
    <3>2. row'[h].type = "none"
      BY <1>1, <1>5, <1>10 DEF HandleOK, ControlOK
    <3>3. CallOK(h)'
      BY <1>2, <1>3, <1>4, <1>5 DEF CallOK, SetsBlob
    <3>4. SeenOK(h)'
      BY <3>2 DEF SeenOK
    <3> QED
      BY <3>1, <3>3, <3>4 DEF SetterOK
  <2> QED
    BY <2>1, <2>2, <2>3 DEF StoreInv
<1>12. KVS!Begin(h, r)
  <2>1. h \notin {g \in Handles : pc[g] # "idle"}
    BY <1>1
  <2>2. {g \in Handles : pc[g] # "idle"}' = {g \in Handles : pc[g] # "idle"} \cup {h}
    BY <1>2
  <2>3. Answer(h)' = KVS!Pending
    BY <1>4 DEF Answer, NoResult, KVS!Pending
  <2>4. ASSUME NEW g \in Handles, g # h  PROVE Answer(g)' = Answer(g)
    BY <1>3, <1>4, <2>4 DEF Answer
  <2>5. [g \in Handles |-> Answer(g)]' = [[g \in Handles |-> Answer(g)] EXCEPT ![h] = KVS!Pending]
    BY <2>3, <2>4
  <2> QED
    BY <1>3, <1>7, <1>9, <2>1, <2>2, <2>5 DEF KVS!Begin
<1> QED
  BY <1>11, <1>12 DEF Mapped, KVS!KVNext

\* A quiet step of a setter, up to its first write: what it knows of the datatype
\* comes from the tables as they are.
LEMMA BeforeWrite ==
    ASSUME StoreInv, IInv', Overtaking, NEW h \in Handles, req[h].op = "set",
           pc[h] \notin {"idle", "selected", "readFile"},
           NEW label \in Labels \ {"idle", "select", "selected", "readFile"}, Goto(h, label),
           UNCHANGED <<db, req, res>>,
           \A g \in Handles \ {h} : row'[g] = row[g] /\ lock'[g] = lock[g],
           dirty' = dirty \/ Alone(h), ~Writing(h)',
           SetsBlob(h) => row'[h].path = row[h].path,
           label = "update" => row'[h].type = req[h].type,
           \/ row'[h].type = row[h].type
           \/ \E k \in db.keyInfo : k.key = req[h].key /\ k.type = row'[h].type
    PROVE  StoreInv' /\ Mapped
<1>1. TypeOK /\ SetterOK(h)
  BY DEF StoreInv, IInv
<1>2. pc'[h] = label
  BY <1>1, GotoTyped
<1>3. CallOK(h)'
  BY <1>1, <1>2 DEF SetterOK, CallOK, SetsBlob
<1>4. overtaken' = overtaken => SeenOK(h)'
  BY <1>1 DEF SetterOK, SeenOK
<1>5. overtaken' = overtaken => SetterOK(h)'
  BY <1>3, <1>4 DEF SetterOK
<1> QED
  BY <1>5, InsideStep

LEMMA FileStepsMap ==
    ASSUME StoreInv, IInv', Overtaking, NEW h \in Handles, SetsBlob(h),
           OpenBlobFile(h) \/ CheckBlobFile(h) \/ WriteBlobFile(h)
    PROVE  StoreInv' /\ Mapped
<1>1. /\ pc[h] \notin {"idle", "selected", "readFile"}
      /\ UNCHANGED <<db, dirty, lock>>
  BY DEF OpenBlobFile, CheckBlobFile, WriteBlobFile
<1>2. HandleOK(h) /\ ~Writing(h) /\ req[h].op = "set"
  BY DEF StoreInv, IInv, HandleOK, ControlOK, OpenBlobFile, CheckBlobFile, WriteBlobFile, SetsBlob
<1>3. CASE Return(h, "INVALID", {})
  BY <1>1, <1>2, <1>3, FailStep DEF FailCodes
<1>4. ASSUME NEW label \in {"checkFile", "writeFile", "lookup"},
             Goto(h, label), UNCHANGED <<req, row, res>>
      PROVE  StoreInv' /\ Mapped
  <2>1. label \in Labels \ {"idle", "select", "selected", "readFile"} /\ label # "update"
    BY DEF Labels
  <2>2. ~Writing(h)'
    BY <1>1, <1>2 DEF Writing
  <2> QED
    BY <1>1, <1>2, <1>4, <2>1, <2>2, BeforeWrite
<1> QED
  BY <1>3, <1>4 DEF OpenBlobFile, CheckBlobFile, WriteBlobFile

LEMMA LookupMaps ==
    ASSUME StoreInv, IInv', Overtaking, NEW h \in Handles, req[h].op = "set", Lookup(h)
    PROVE  StoreInv' /\ Mapped
<1>1. TypeOK /\ HandleOK(h) /\ pc[h] = "lookup" /\ UNCHANGED <<db, dirty, req, res>>
  BY DEF StoreInv, IInv, Lookup
<1>2. /\ ~Writing(h)'
      /\ \A g \in Handles \ {h} : lock'[g] = lock[g]
  BY <1>1, SelectTakesShared DEF Lookup
<1>3. CASE /\ \A k \in db.keyInfo : k.key # req[h].key
           /\ Goto(h, IF SetsBlob(h) THEN BranchOf(h, "none") ELSE "looked")
           /\ UNCHANGED row
  <2>1. PICK label \in {"insertKey", "looked"} : Goto(h, label)
    BY <1>1, <1>3, Branches
  <2>2. label \in Labels \ {"idle", "select", "selected", "readFile"} /\ label # "update"
    BY DEF Labels, WriteLabels
  <2> QED
    BY <1>1, <1>2, <1>3, <2>1, <2>2, BeforeWrite
<1>4. ASSUME NEW k \in db.keyInfo, k.key = req[h].key,
             Goto(h, IF SetsBlob(h) THEN BranchOf(h, k.type) ELSE "looked"),
             Know(h, k.id, k.type, row[h].path)
      PROVE  StoreInv' /\ Mapped
  <2>1. k.id \in Nat /\ k.type \in Types /\ row[h].path \in Paths \cup {NoPath}
    BY <1>1 DEF TypeOK, Tables, KeyRow
  <2>2. /\ row'[h].type = k.type /\ row'[h].path = row[h].path
        /\ \A g \in Handles \ {h} : row'[g] = row[g]
    BY <1>1, <1>4, <2>1, KnowTyped
  <2>3. BranchOf(h, k.type) = "update" => k.type = req[h].type
    BY DEF BranchOf
  <2>4. PICK label \in {"update", "deleteValue", "looked"} :
            Goto(h, label) /\ (label = "update" => k.type = req[h].type)
    BY <1>1, <1>4, <2>1, <2>3, Branches
  <2>5. label \in Labels \ {"idle", "select", "selected", "readFile"}
    BY DEF Labels, WriteLabels
  <2> QED
    BY <1>1, <1>2, <1>4, <2>2, <2>4, <2>5, BeforeWrite
<1> QED
  BY <1>3, <1>4 DEF Lookup

LEMMA SelectBusyMaps ==
    ASSUME StoreInv, IInv', Overtaking, NEW h \in Handles, SelectBusy(h)
    PROVE  StoreInv' /\ Mapped
<1>1. HandleOK(h) /\ ~Writing(h)
  BY DEF StoreInv, IInv, HandleOK, ControlOK, SelectBusy
<1> QED
  BY <1>1, FailStep DEF SelectBusy, FailCodes

LEMMA EndLookupMaps ==
    ASSUME StoreInv, IInv', Overtaking, NEW h \in Handles, req[h].op = "set", EndLookup(h)
    PROVE  StoreInv' /\ Mapped
<1>1. /\ TypeOK /\ SingleWriter /\ pc[h] = "looked"
      /\ UNCHANGED <<db, req, row, res>>
  BY DEF StoreInv, IInv, EndLookup
<1>2. BranchOf(h, row[h].type) = "update" => row[h].type = req[h].type
  BY DEF BranchOf
<1>3. PICK label \in {"insertKey", "update", "deleteValue", "findFile"} :
        Goto(h, label) /\ (label = "update" => row[h].type = req[h].type)
  <2>1. row[h].type \in Types \/ row[h].type = "none"
    BY <1>1 DEF TypeOK
  <2> QED
    BY <1>1, <1>2, <2>1, Branches DEF EndLookup
<1>4. /\ ~Writing(h)'
      /\ dirty' = dirty \/ Alone(h)
      /\ \A g \in Handles \ {h} : lock'[g] = lock[g]
  BY <1>1, ReleaseTyped DEF EndLookup
<1>5. label \in Labels \ {"idle", "select", "selected", "readFile"}
  BY DEF Labels, WriteLabels
<1> QED
  BY <1>1, <1>3, <1>4, <1>5, BeforeWrite

LEMMA RemoveStepsMap ==
    ASSUME StoreInv, IInv', Overtaking, NEW h \in Handles, req[h].op = "set", ~SetsBlob(h),
           FindBlobFile(h) \/ EndFindBlobFile(h) \/ UnlinkBlobFile(h)
    PROVE  StoreInv' /\ Mapped
<1>1. /\ TypeOK /\ SingleWriter /\ HandleOK(h)
      /\ pc[h] \in {"findFile", "foundFile", "unlink"} /\ db' = db
  BY DEF StoreInv, IInv, FindBlobFile, EndFindBlobFile, UnlinkBlobFile
<1>2. ~Writing(h)
  BY <1>1 DEF HandleOK, ControlOK
<1>3. \A label \in {"foundFile", "unlink", "deleteValue"} :
        label \in Labels \ {"idle", "select", "selected", "readFile"} /\ label # "update"
  BY DEF Labels, WriteLabels
<1>4. CASE FindBlobFile(h)
  <2>1. Goto(h, "foundFile") /\ UNCHANGED <<dirty, req, res>>
    BY <1>4 DEF FindBlobFile
  <2>2. ~Writing(h)' /\ \A g \in Handles \ {h} : lock'[g] = lock[g]
    BY <1>1, <1>4, SelectTakesShared DEF FindBlobFile
  <2>3. row'[h].type = row[h].type /\ \A g \in Handles \ {h} : row'[g] = row[g]
    BY <1>1, <1>4 DEF FindBlobFile, Know, TypeOK
  <2> QED
    BY <1>1, <1>3, <2>1, <2>2, <2>3, BeforeWrite
<1>5. CASE EndFindBlobFile(h) /\ row[h].path = NoPath
  BY <1>1, <1>5, FailStep DEF EndFindBlobFile, FailCodes
<1>6. CASE EndFindBlobFile(h) /\ row[h].path # NoPath
  <2>1. Goto(h, "unlink") /\ UNCHANGED <<req, row, res>>
    BY <1>6 DEF EndFindBlobFile
  <2>2. /\ ~Writing(h)'
        /\ dirty' = dirty \/ Alone(h)
        /\ \A g \in Handles \ {h} : lock'[g] = lock[g]
    BY <1>1, <1>6, ReleaseTyped DEF EndFindBlobFile
  <2> QED
    BY <1>1, <1>3, <2>1, <2>2, BeforeWrite
<1>7. CASE UnlinkBlobFile(h) /\ Return(h, "INVALID", {})
  BY <1>1, <1>2, <1>7, FailStep DEF UnlinkBlobFile, FailCodes
<1>8. CASE Goto(h, "deleteValue") /\ UNCHANGED <<dirty, lock, req, row, res>>
  <2>1. ~Writing(h)'
    BY <1>2, <1>8 DEF Writing
  <2> QED
    BY <1>1, <1>3, <1>8, <2>1, BeforeWrite
<1> QED
  BY <1>4, <1>5, <1>6, <1>7, <1>8 DEF UnlinkBlobFile

LEMMA RemoveFailsMaps ==
    ASSUME StoreInv, IInv', Overtaking, NEW h \in Handles, RemoveFails(h)
    PROVE  StoreInv' /\ Mapped
<1>1. /\ HandleOK(h) /\ SetterOK(h) /\ pc[h] = "unlink" /\ Goto(h, "deleteValue")
      /\ UNCHANGED <<db, dirty, lock, req, row, res>>
  BY DEF StoreInv, IInv, RemoveFails, Fault
<1>2. req[h].op = "set" /\ ~Writing(h) /\ ~Writing(h)'
  BY <1>1 DEF SetterOK, CallOK, HandleOK, ControlOK, Writing
<1>3. "deleteValue" \in Labels \ {"idle", "select", "selected", "readFile"}
  BY DEF Labels, WriteLabels
<1> QED
  BY <1>1, <1>2, <1>3, BeforeWrite

----------------------------------------------------------------------------
(* The functions that read: SELECT is the instant at which they look. *)

\* What the tables answer is what the abstract store answers.
LEMMA KeysLooked ==
    ASSUME StoreInv
    PROVE  KVS!Present = KeyNames
<1>1. Sound(db) /\ Store = StoreOf(db)
  BY CommittedSound
<1>2. KeyNames \subseteq Keys
  BY <1>1 DEF Sound, Tables, KeyRow, KeyNames
<1>3. ASSUME NEW key \in Keys  PROVE Store[key] # Absent <=> key \in KeyNames
  <2>1. CASE \A i \in db.keyInfo : i.key # key
    BY <1>1, <2>1, StoreOfNoRow DEF KeyNames
  <2>2. ASSUME NEW i \in db.keyInfo, i.key = key
        PROVE  Store[key] # Absent /\ key \in KeyNames
    <3>1. PICK v \in db.values : v.type = i.type /\ v.id = i.id
      BY <1>1 DEF Sound, RowComplete
    <3>2. Store[key] = [type |-> i.type, val |-> v.val]
      BY <1>1, <2>2, <3>1, StoreOfRow
    <3>3. Store[key] # Absent
      BY <1>1, <3>2, RowIsNotAbsent DEF Sound
    <3> QED
      BY <2>2, <3>3 DEF KeyNames
  <2> QED
    BY <2>1, <2>2
<1> QED
  BY <1>2, <1>3 DEF KVS!Present

LEMMA TypeLooked ==
    ASSUME StoreInv, NEW key \in Keys
    PROVE  {Store[k].type : k \in KVS!Present \cap {key}} = TypesOf(key)
<1>1. Sound(db) /\ Store = StoreOf(db)
  BY CommittedSound
<1>2. CASE \A i \in db.keyInfo : i.key # key
  BY <1>2, KeysLooked DEF TypesOf, KeyNames
<1>3. ASSUME NEW i \in db.keyInfo, i.key = key
      PROVE  {Store[k].type : k \in KVS!Present \cap {key}} = TypesOf(key)
  <2>1. PICK v \in db.values : v.type = i.type /\ v.id = i.id
    BY <1>1 DEF Sound, RowComplete
  <2>2. Store[i.key] = [type |-> i.type, val |-> v.val]
    BY <1>1, <2>1, StoreOfRow
  <2>3. Store[key].type = i.type
    BY <1>3, <2>2
  <2>4. KVS!Present \cap {key} = {key}
    BY <1>3, KeysLooked DEF KeyNames
  <2>5. TypesOf(key) = {i.type}
    BY <1>1, <1>3 DEF TypesOf, Sound, Keyed
  <2> QED
    BY <2>3, <2>4, <2>5
<1> QED
  BY <1>2, <1>3

LEMMA ValueLooked ==
    ASSUME StoreInv, NEW key \in Keys, NEW type
    PROVE  {Store[k].val : k \in {j \in KVS!Present \cap {key} : Store[j].type = type}}
                = ValuesOf(key, type)
<1>1. Sound(db) /\ Store = StoreOf(db)
  BY CommittedSound
<1>2. CASE \A i \in db.keyInfo : i.key # key
  <2>1. KVS!Present \cap {key} = {}
    BY <1>2, KeysLooked DEF KeyNames
  <2>2. ValuesOf(key, type) = {}
    BY <1>2 DEF ValuesOf
  <2> QED
    BY <2>1, <2>2
<1>3. ASSUME NEW i \in db.keyInfo, i.key = key
      PROVE  {Store[k].val : k \in {j \in KVS!Present \cap {key} : Store[j].type = type}}
                = ValuesOf(key, type)
  <2>1. PICK v \in db.values : v.type = i.type /\ v.id = i.id
    BY <1>1 DEF Sound, RowComplete
  <2>2. Store[i.key] = [type |-> i.type, val |-> v.val]
    BY <1>1, <2>1, StoreOfRow
  <2>3. Store[key].type = i.type /\ Store[key].val = v.val
    BY <1>3, <2>2
  <2>4. KVS!Present \cap {key} = {key}
    BY <1>3, KeysLooked DEF KeyNames
  <2>5. ASSUME NEW w \in db.values
        PROVE  (w.type = type /\ \E j \in db.keyInfo : j.key = key /\ j.type = type /\ j.id = w.id)
                 <=> (i.type = type /\ w = v)
    BY <1>1, <1>3, <2>1 DEF Sound, Keyed, ValuesKeyed
  <2>6. ValuesOf(key, type) = IF i.type = type THEN {v.val} ELSE {}
    <3>1. {w \in db.values : w.type = type /\ \E j \in db.keyInfo :
                j.key = key /\ j.type = type /\ j.id = w.id} = IF i.type = type THEN {v} ELSE {}
      BY <2>1, <2>5
    <3> QED
      BY <3>1 DEF ValuesOf
  <2>7. {j \in KVS!Present \cap {key} : Store[j].type = type} = IF i.type = type THEN {key} ELSE {}
    BY <2>3, <2>4
  <2> QED
    BY <2>3, <2>6, <2>7
<1> QED
  BY <1>2, <1>3

\* The path that get_blob selects is the one the store has for the key.
LEMMA PathLooked ==
    ASSUME StoreInv, NEW key \in Keys
    PROVE  /\ \A v \in BlobRows(key) : v.val = PathOf[key]
           /\ ValuesOf(key, "Blob") = IF BlobRows(key) = {} THEN {} ELSE {PathOf[key]}
<1>1. \A v \in BlobRows(key) : v.val = PathOf[key]
  BY DEF BlobRows, StoreInv, PathsKept
<1>2. ValuesOf(key, "Blob") = {v.val : v \in BlobRows(key)}
  BY DEF ValuesOf, BlobRows
<1> QED
  BY <1>1, <1>2

\* The SELECT of a reader: its code, what it found and the path it goes on with are
\* what the abstract reader sees at this instant.
LEMMA LookStep ==
    ASSUME StoreInv, IInv', Overtaking, NEW h \in Handles, req[h].op # "set",
           NEW code \in {"OK", "NO_SUCH_KEY"}, NEW out, NEW path \in Paths \cup {NoPath},
           SelectStep(h, code, out, path),
           path # NoPath => req[h].op = "get" /\ req[h].type = "Blob" /\ code = "OK",
           LET found == KVS!Looked(req[h]) IN
              /\ code = IF found = {} /\ req[h].op # "enum_keys" THEN "NO_SUCH_KEY" ELSE "OK"
              /\ \/ req[h].op = "get" /\ req[h].type = "Blob" /\ code = "OK"
                    /\ found = {PathOf[req[h].key]}
                 \/ ~(req[h].op = "get" /\ req[h].type = "Blob" /\ code = "OK") /\ found = out
    PROVE  StoreInv' /\ Mapped
<1>1. /\ TypeOK /\ SetterOK(h)
      /\ pc[h] = "select" /\ UNCHANGED <<db, dirty, req>>
  BY DEF StoreInv, IInv, SelectStep
<1>2. ~Writing(h)' /\ \A g \in Handles \ {h} : lock'[g] = lock[g]
  BY <1>1, SelectTakesShared DEF SelectStep
<1>3. /\ res'[h] = [code |-> code, out |-> out]
      /\ \A g \in Handles \ {h} : res'[g] = res[g]
  BY <1>1 DEF SelectStep, TypeOK
<1>4. /\ row'[h].type = row[h].type /\ row'[h].path = path
      /\ \A g \in Handles \ {h} : row'[g] = row[g]
  BY <1>1 DEF SelectStep, Know, TypeOK
<1>5. pc'[h] = "selected" /\ \A g \in Handles \ {h} : pc'[g] = pc[g]
  BY <1>1 DEF SelectStep, Goto, TypeOK
<1>6. \A g \in Handles : ~Started(g)
  BY <1>1, <1>5 DEF Started
<1>7. Store' = Store /\ overtaken' = overtaken
  BY <1>1, <1>6, NobodyOvertaken
<1>8. StoreInv'
  <2>1. CallOK(h)'
    BY <1>1, <1>3, <1>4, <1>5 DEF SetterOK, CallOK, SetsBlob
  <2>2. SeenOK(h)'
    BY <1>1, <1>4, <1>7 DEF SetterOK, SeenOK
  <2>3. SetterOK(h)'
    BY <1>2, <2>1, <2>2 DEF SetterOK
  <2> QED
    BY <1>1, <1>2, <1>3, <1>4, <1>5, <1>7, <2>3, StepKeepsStore DEF OthersSame
<1>9. KVS!Look(h)
  <2> DEFINE found == KVS!Looked(req[h])
  <2>1. {g \in Handles : pc[g] # "idle"}' = {g \in Handles : pc[g] # "idle"}
    BY <1>1, <1>5
  <2>2. h \in {g \in Handles : pc[g] # "idle"}
    BY <1>1
  <2>3. Answer(h) = KVS!Pending
    BY <1>1 DEF SetterOK, CallOK, Answer, NoResult, KVS!Pending
  <2>4. Answer(h)' = [code |-> code, out |-> found]
    <3> HIDE DEF found
    <3> QED
      BY <1>1, <1>3 DEF Answer, found
  <2>5. ASSUME NEW g \in Handles, g # h  PROVE Answer(g)' = Answer(g)
    BY <1>1, <1>3, <2>5 DEF Answer
  <2>6. [g \in Handles |-> Answer(g)]' =
            [[g \in Handles |-> Answer(g)] EXCEPT ![h] = [code |-> code, out |-> found]]
    BY <2>4, <2>5
  <2>7. code = IF found = {} /\ req[h].op # "enum_keys" THEN "NO_SUCH_KEY" ELSE "OK"
    OBVIOUS
  <2> HIDE DEF found
  <2> QED
    BY <1>1, <1>7, <2>1, <2>2, <2>3, <2>6, <2>7 DEF KVS!Look, found
<1> QED
  BY <1>8, <1>9 DEF Mapped, KVS!KVNext

\* The four kinds of SELECT.
LEMMA SelectsMap ==
    ASSUME StoreInv, IInv', Overtaking, NEW h \in Handles,
           \/ req[h].op = "get" /\ req[h].type # "Blob" /\ SelectValue(h)
           \/ req[h].op = "get" /\ req[h].type = "Blob" /\ SelectPath(h)
           \/ req[h].op = "get_type" /\ SelectType(h)
           \/ req[h].op = "enum_keys" /\ SelectKeys(h)
    PROVE  StoreInv' /\ Mapped
<1>1. TypeOK /\ req[h].key \in Keys /\ NoPath \in Paths \cup {NoPath}
  BY DEF StoreInv, IInv, TypeOK, Request
<1>2. \A out : Found(out) \in {"OK", "NO_SUCH_KEY"}
  BY DEF Found
<1>3. CASE req[h].op = "get" /\ req[h].type # "Blob" /\ SelectValue(h)
  <2>1. KVS!Looked(req[h]) = ValuesOf(req[h].key, req[h].type)
    BY <1>1, <1>3, ValueLooked DEF KVS!Looked
  <2> QED
    BY <1>1, <1>2, <1>3, <2>1, LookStep DEF SelectValue, Found
<1>4. CASE req[h].op = "get" /\ req[h].type = "Blob" /\ SelectPath(h)
  <2>1. KVS!Looked(req[h]) = IF BlobRows(req[h].key) = {} THEN {} ELSE {PathOf[req[h].key]}
    BY <1>1, <1>4, ValueLooked, PathLooked DEF KVS!Looked
  <2>2. CASE BlobRows(req[h].key) = {}
    BY <1>1, <1>4, <2>1, <2>2, LookStep DEF SelectPath
  <2>3. CASE BlobRows(req[h].key) # {}
    <3>1. PICK v \in BlobRows(req[h].key) : SelectStep(h, "OK", {}, v.val)
      BY <1>4, <2>3 DEF SelectPath
    <3>2. v.val \in Paths
      BY <1>1, BlobRowsHavePaths DEF BlobRows, TypeOK, Tables
    <3> QED
      BY <1>1, <1>4, <2>1, <2>3, <3>1, <3>2, LookStep
  <2> QED
    BY <2>2, <2>3
<1>5. CASE req[h].op = "get_type" /\ SelectType(h)
  <2>1. KVS!Looked(req[h]) = TypesOf(req[h].key)
    BY <1>1, <1>5, TypeLooked DEF KVS!Looked
  <2> QED
    BY <1>1, <1>2, <1>5, <2>1, LookStep DEF SelectType, Found
<1>6. CASE req[h].op = "enum_keys" /\ SelectKeys(h)
  <2>1. KVS!Looked(req[h]) = KeyNames
    BY <1>6, KeysLooked DEF KVS!Looked
  <2> QED
    BY <1>1, <1>6, <2>1, LookStep DEF SelectKeys
<1> QED
  BY <1>3, <1>4, <1>5, <1>6

\* Between SELECT and its return a reader gives the answer it has; only the file of a
\* blob may have become unreadable.
LEMMA EndReadsMap ==
    ASSUME StoreInv, IInv', Overtaking, NEW h \in Handles, req[h].op # "set",
           EndSelect(h) \/ ReadBlobFile(h)
    PROVE  StoreInv' /\ Mapped
<1>1. TypeOK /\ SingleWriter /\ HandleOK(h) /\ SetterOK(h) /\ db' = db
  BY DEF StoreInv, IInv, EndSelect, ReadBlobFile
<1>2. CASE EndSelect(h) /\ row[h].path = NoPath
  <2>1. res[h].code \in Codes /\ res[h].out \in Answers
    BY <1>1 DEF TypeOK, Answers
  <2>2. Return(h, res[h].code, res[h].out) /\ Release(h) /\ pc[h] = "selected"
    BY <1>2 DEF EndSelect
  <2>3. res[h].code # "NONE"
    BY <1>1, <2>2 DEF SetterOK, CallOK
  <2>4. Answer(h) # KVS!Pending
    BY <2>3 DEF Answer, KVS!Pending
  <2>5. res'[h] = res[h] /\ req' = req
    BY <1>1, <2>2 DEF Return, TypeOK
  <2>6. Answer(h)' = Answer(h)
    BY <2>5 DEF Answer
  <2> QED
    BY <1>1, <2>1, <2>2, <2>4, <2>6, EndLookStep
<1>3. CASE EndSelect(h) /\ row[h].path # NoPath
  <2>1. Goto(h, "readFile") /\ UNCHANGED <<req, row, res>> /\ pc[h] = "selected" /\ Release(h)
    BY <1>3 DEF EndSelect
  <2>2. pc'[h] = "readFile" /\ "readFile" \in Labels \ {"idle"}
    BY <1>1, <2>1, GotoTyped DEF Labels
  <2>3. /\ ~Writing(h)'
        /\ dirty' = dirty \/ Alone(h)
        /\ \A g \in Handles \ {h} : lock'[g] = lock[g]
    BY <1>1, <2>1, ReleaseTyped
  <2>4. CallOK(h)'
    BY <1>1, <1>3, <2>1, <2>2 DEF SetterOK, CallOK, SetsBlob
  <2>5. overtaken' = overtaken => SeenOK(h)'
    BY <1>1, <2>1 DEF SetterOK, SeenOK
  <2>6. overtaken' = overtaken => SetterOK(h)'
    BY <2>3, <2>4, <2>5 DEF SetterOK
  <2> QED
    BY <1>1, <2>1, <2>2, <2>3, <2>6, InsideStep
<1>4. CASE ReadBlobFile(h)
  <2>1. /\ ~Writing(h) /\ row[h].path \in Paths /\ pc[h] = "readFile"
        /\ UNCHANGED <<dirty, lock>>
    BY <1>1, <1>4 DEF HandleOK, ControlOK, ReadBlobFile
  <2>2. CASE Return(h, "INVALID", {})
    BY <1>1, <2>1, <2>2, FailStep DEF FailCodes
  <2>3. CASE files[row[h].path] # NoFile /\ Return(h, "OK", {files[row[h].path].data})
    <3>1. {files[row[h].path].data} \in Answers /\ "OK" \in Codes
      BY <1>1, <2>1, <2>3 DEF TypeOK, Answers, File, Codes
    <3>2. req[h].op = "get" /\ req[h].type = "Blob" /\ res[h].code = "OK"
      BY <1>1, <2>1 DEF SetterOK, CallOK
    <3>3. res'[h].code = "OK" /\ req' = req
      BY <1>1, <2>3 DEF Return, TypeOK
    <3>4. Answer(h) # KVS!Pending /\ Answer(h)' = Answer(h)
      BY <3>2, <3>3 DEF Answer, KVS!Pending
    <3> QED
      BY <1>1, <2>1, <2>3, <3>1, <3>4, EndLookStep
  <2> QED
    BY <1>4, <2>2, <2>3 DEF ReadBlobFile
<1> QED
  BY <1>2, <1>3, <1>4

----------------------------------------------------------------------------
(* The write statements: how far the transaction has come. *)

\* A write statement that is not COMMIT shows nothing to anyone yet.
LEMMA WriteStepMaps ==
    ASSUME StoreInv, IInv', Overtaking, NEW h \in Handles, req[h].op = "set",
           pc[h] \in WriteLabels, NEW next \in WriteLabels, NEW tables \in Tables,
           WriteStep(h, next, tables),
           row'[h].type = row[h].type, row'[h].path = row[h].path,
           \A g \in Handles \ {h} : row'[g] = row[g],
           next # "update",
           overtaken' = overtaken => WritingOK(h)'
    PROVE  StoreInv' /\ Mapped
<1>1. IInv /\ TypeOK /\ SetterOK(h)
  BY DEF StoreInv, IInv
<1>2. next \in Labels \ {"idle", "select", "selected", "readFile"}
  BY DEF Labels, WriteLabels
<1>3. /\ pc'[h] = next /\ Writing(h)' /\ Alone(h)
      /\ \A g \in Handles \ {h} : lock'[g] = lock[g]
      /\ UNCHANGED <<db, req, res>>
  BY <1>1, <1>2, WriteStepTyped
<1>4. Goto(h, next)
  BY DEF WriteStep
<1>5. pc[h] \notin {"idle", "select", "selected", "readFile"}
  BY DEF WriteLabels
<1>6. CallOK(h)'
  BY <1>1, <1>2, <1>3, <1>5 DEF SetterOK, CallOK, SetsBlob
<1>7. overtaken' = overtaken => SeenOK(h)'
  BY <1>1, <1>3 DEF SetterOK, SeenOK
<1>8. overtaken' = overtaken => SetterOK(h)'
  BY <1>6, <1>7 DEF SetterOK
<1> QED
  BY <1>2, <1>3, <1>4, <1>5, <1>8, InsideStep

LEMMA DeleteValueMaps ==
    ASSUME StoreInv, IInv', Overtaking, NEW h \in Handles, req[h].op = "set", DeleteValue(h)
    PROVE  StoreInv' /\ Mapped
<1> DEFINE rest == {v \in db.values : v.type # row[h].type \/ v.id # row[h].id}
           tables == [db EXCEPT !.values = rest]
<1>1. /\ IInv /\ TypeOK /\ HandleOK(h) /\ pc[h] = "deleteValue"
      /\ Keyed(db) /\ ValuesKeyed(db) /\ SeqAbove(db) /\ PathsKept /\ db \in Tables
  BY DEF StoreInv, IInv, TypeOK, DeleteValue
<1>2. ~Writing(h) /\ row[h].type # "none"
  BY <1>1 DEF HandleOK, ControlOK
<1>3. /\ tables \in Tables
      /\ tables.keyInfo = db.keyInfo /\ tables.values = rest /\ tables.seq = db.seq
  BY <1>1 DEF Tables
<1>4. WriteStep(h, "deleteKey", tables) /\ UNCHANGED row
  BY <1>2 DEF DeleteValue, Image
<1>5. \A v \in rest : v.type = "Blob" /\ v.id = row[h].id => v.val = PathOf[req[h].key]
  BY <1>1, <1>2 DEF HandleOK, LookupOK, PathsKept
<1> HIDE DEF tables
<1>6. dirty' = tables /\ pc'[h] = "deleteKey" /\ UNCHANGED <<db, req>>
  BY <1>1, <1>3, <1>4, WriteStepTyped DEF Labels, WriteLabels
<1>7. ChangeOK(h)'
  BY <1>1, <1>2, <1>3, <1>4, <1>5, <1>6 DEF ChangeOK, ValuesKeyed, SeqAbove
<1>8. WritingOK(h)'
  BY <1>6, <1>7 DEF WritingOK
<1> QED
  BY <1>1, <1>3, <1>4, <1>8, WriteStepMaps DEF WriteLabels

LEMMA DeleteKeyMaps ==
    ASSUME StoreInv, IInv', Overtaking, NEW h \in Handles, req[h].op = "set", DeleteKey(h)
    PROVE  StoreInv' /\ Mapped
<1> DEFINE rest == {k \in dirty.keyInfo : k.id # row[h].id}
           tables == [dirty EXCEPT !.keyInfo = rest]
<1>1. /\ IInv /\ TypeOK /\ HandleOK(h) /\ SetterOK(h) /\ pc[h] = "deleteKey"
      /\ Keyed(db) /\ dirty \in Tables
  BY DEF StoreInv, IInv, TypeOK, DeleteKey
<1>2. Writing(h) /\ row[h].type # "none"
  BY <1>1 DEF HandleOK, ControlOK
<1>3. ChangeOK(h)
  BY <1>1, <1>2 DEF SetterOK, WritingOK
<1>4. /\ tables \in Tables
      /\ tables.keyInfo = rest /\ tables.values = dirty.values /\ tables.seq = dirty.seq
  BY <1>1 DEF Tables
<1>5. WriteStep(h, "insertKey", tables) /\ UNCHANGED row
  BY <1>2 DEF DeleteKey, Image
<1>6. \A k \in db.keyInfo : k.id = row[h].id => k.key = req[h].key
  BY <1>1, <1>2 DEF HandleOK, LookupOK, Keyed
<1>7. {k \in rest : k.key # req[h].key} = {k \in db.keyInfo : k.key # req[h].key}
  BY <1>3, <1>6 DEF ChangeOK
<1> HIDE DEF tables
<1>8. dirty' = tables /\ pc'[h] = "insertKey" /\ UNCHANGED <<db, req>>
  BY <1>1, <1>4, <1>5, WriteStepTyped DEF Labels, WriteLabels
<1>9. ChangeOK(h)'
  BY <1>2, <1>3, <1>4, <1>5, <1>7, <1>8 DEF ChangeOK, ValuesKeyed, SeqAbove
<1>10. WritingOK(h)'
  BY <1>2, <1>5, <1>8, <1>9 DEF WritingOK
<1> QED
  BY <1>1, <1>4, <1>5, <1>10, WriteStepMaps DEF WriteLabels

LEMMA InsertKeyMaps ==
    ASSUME StoreInv, IInv', Overtaking, NEW h \in Handles, req[h].op = "set", InsertKey(h)
    PROVE  StoreInv' /\ Mapped
<1> DEFINE id == KeyId(h)
           new == [id |-> id, key |-> req[h].key, type |-> req[h].type]
           seq == IF id > Image(h).seq THEN id ELSE Image(h).seq
           tables == [Image(h) EXCEPT !.keyInfo = @ \cup {new}, !.seq = seq]
<1>1. /\ IInv /\ TypeOK /\ HandleOK(h) /\ SetterOK(h) /\ pc[h] = "insertKey"
      /\ Keyed(db) /\ ValuesKeyed(db) /\ SeqAbove(db)
      /\ db \in Tables /\ Image(h) \in Tables /\ req[h] \in Request
  BY ImageTyped DEF StoreInv, IInv, TypeOK, InsertKey
<1>2. id \in Nat /\ new \in KeyRow /\ seq \in Nat /\ id <= seq /\ Image(h).seq <= seq
  <2>1. id \in Nat
    BY <1>1 DEF KeyId, Tables, TypeOK
  <2>2. Image(h).seq \in Nat
    BY <1>1 DEF Tables
  <2> HIDE DEF id
  <2> QED
    BY <1>1, <2>1, <2>2 DEF KeyRow, Request
<1>3. /\ tables \in Tables
      /\ tables.keyInfo = Image(h).keyInfo \cup {new}
      /\ tables.values = Image(h).values /\ tables.seq = seq
  BY <1>1, <1>2 DEF Tables
<1>4. WriteStep(h, "insertValue", tables) /\ Know(h, id, row[h].type, row[h].path)
  BY DEF InsertKey
<1>5. /\ row'[h].id = id /\ row'[h].type = row[h].type /\ row'[h].path = row[h].path
      /\ \A g \in Handles \ {h} : row'[g] = row[g]
  BY <1>1, <1>4 DEF Know, TypeOK
<1>6. KeyInfoAccepts(Image(h), id, req[h].key)
  BY DEF InsertKey
<1>7. /\ ValuesKeyed(Image(h))
      /\ SeqAbove(Image(h))
      /\ {k \in Image(h).keyInfo : k.key # req[h].key} = {k \in db.keyInfo : k.key # req[h].key}
      /\ {v \in Image(h).values : v.id # id} = {v \in db.values : v.id # id}
      /\ \A v \in Image(h).values : v.type = "Blob" /\ v.id = id => v.val = PathOf[req[h].key]
      /\ row[h].type = "none" => KeyInfoAccepts(db, id, req[h].key)
  <2>1. CASE row[h].type = "none"
    <3>1. Image(h) = db
      BY <1>1, <2>1 DEF Image, SetterOK, WritingOK
    <3>2. \A v \in db.values : v.id \in Nat /\ v.id <= db.seq
      BY <1>1, BlobRowsHavePaths DEF SeqAbove, Tables
    <3>3. id = db.seq + 1 /\ db.seq \in Nat
      BY <1>1, <2>1, <3>1 DEF KeyId, Tables
    <3>4. \A v \in db.values : v.id # id
      BY <3>2, <3>3
    <3> QED
      BY <1>1, <1>6, <3>1, <3>4
  <2>2. CASE row[h].type # "none"
    <3>1. Writing(h) /\ Image(h) = dirty /\ id = row[h].id
      BY <1>1, <2>2 DEF HandleOK, ControlOK, Image, KeyId
    <3>2. ChangeOK(h)
      BY <1>1, <2>2, <3>1 DEF SetterOK, WritingOK
    <3> QED
      BY <2>2, <3>1, <3>2 DEF ChangeOK
  <2> QED
    BY <2>1, <2>2
<1>8. new.id = id /\ new.key = req[h].key
  OBVIOUS
<1> HIDE DEF tables, new, id, seq
<1>9. dirty' = tables /\ pc'[h] = "insertValue" /\ UNCHANGED <<db, req>>
  BY <1>1, <1>3, <1>4, WriteStepTyped DEF Labels, WriteLabels
<1>10. ValuesKeyed(tables) /\ SeqAbove(tables)
  <2>1. \A k \in Image(h).keyInfo : k.id \in Nat /\ k.id <= Image(h).seq
    BY <1>1, <1>7 DEF SeqAbove, Tables, KeyRow
  <2>2. \A v \in Image(h).values : v.id \in Nat /\ v.id <= Image(h).seq
    BY <1>1, <1>7, BlobRowsHavePaths DEF SeqAbove, Tables
  <2>3. Image(h).seq \in Nat
    BY <1>1 DEF Tables
  <2>4. SeqAbove(tables)
    BY <1>2, <1>3, <1>8, <2>1, <2>2, <2>3 DEF SeqAbove
  <2> QED
    BY <1>3, <1>7, <2>4 DEF ValuesKeyed
<1>11. {k \in tables.keyInfo : k.key # req[h].key} = {k \in db.keyInfo : k.key # req[h].key}
  BY <1>3, <1>7, <1>8
<1>12. \E k \in tables.keyInfo : k.key = req[h].key /\ k.id = id
  BY <1>3, <1>8
<1>13. ChangeOK(h)'
  BY <1>3, <1>5, <1>7, <1>9, <1>10, <1>11, <1>12 DEF ChangeOK, KeyInfoAccepts, ValuesKeyed, SeqAbove
<1>14. WritingOK(h)'
  BY <1>9, <1>13 DEF WritingOK
<1> QED
  BY <1>1, <1>3, <1>4, <1>5, <1>14, WriteStepMaps DEF WriteLabels

\* A refused INSERT writes the tables as they were.
LEMMA InsertKeyRefusedMaps ==
    ASSUME StoreInv, IInv', Overtaking, NEW h \in Handles, req[h].op = "set", InsertKeyRefused(h)
    PROVE  StoreInv' /\ Mapped
<1>1. IInv /\ TypeOK /\ HandleOK(h) /\ db \in Tables /\ UNCHANGED row /\ ~Writing(h)
  BY DEF StoreInv, IInv, TypeOK, InsertKeyRefused
<1>2. pc[h] = "insertKey" /\ WriteStep(h, "insertKey", db) /\ row[h].type = "none"
  BY <1>1 DEF InsertKeyRefused, HandleOK, ControlOK
<1>3. dirty' = db /\ pc'[h] = "insertKey" /\ UNCHANGED <<db, req>>
  BY <1>1, <1>2, WriteStepTyped DEF Labels, WriteLabels
<1>4. WritingOK(h)'
  BY <1>1, <1>2, <1>3 DEF WritingOK
<1> QED
  BY <1>1, <1>2, <1>4, WriteStepMaps DEF WriteLabels

\* Tables that differ from the committed ones in the rows of one key and its id only
\* give every other key what it had.
LEMMA OtherKeysSame ==
    ASSUME StoreInv, NEW tables, Sound(tables), NEW key \in Keys, NEW id,
           {k \in tables.keyInfo : k.key # key} = {k \in db.keyInfo : k.key # key},
           {v \in tables.values : v.id # id} = {v \in db.values : v.id # id},
           \E k \in tables.keyInfo : k.key = key /\ k.id = id
    PROVE  \A other \in Keys \ {key} : StoreOf(tables)[other] = Store[other]
<1> SUFFICES ASSUME NEW other \in Keys, other # key
             PROVE  StoreOf(tables)[other] = Store[other]
  OBVIOUS
<1>1. Sound(db) /\ Store = StoreOf(db)
  BY CommittedSound
<1>2. \A k \in tables.keyInfo : k.key = other => k \in db.keyInfo
  OBVIOUS
<1>3. \A k \in db.keyInfo : k.key = other => k \in tables.keyInfo /\ k.id # id
  BY DEF Sound, Keyed
<1>4. \A k \in db.keyInfo, v \in db.values : k.key = other /\ v.id = k.id => v \in tables.values
  BY <1>3
<1>5. StoreOf(tables)[other] = StoreOf(db)[other]
  BY <1>1, <1>2, <1>3, <1>4, SameRowsSameStore
<1> QED
  BY <1>1, <1>5

\* The store is a function on the keys.
LEMMA StoreEquals ==
    ASSUME NEW tables, NEW other
    PROVE  /\ (\A key \in Keys : StoreOf(tables)[key] = StoreOf(other)[key])
                => StoreOf(tables) = StoreOf(other)
           /\ \A key \in Keys : \A r :
                /\ StoreOf(tables)[key] = r
                /\ \A k \in Keys \ {key} : StoreOf(tables)[k] = StoreOf(other)[k]
                => StoreOf(tables) = [StoreOf(other) EXCEPT ![key] = r]
<1>1. /\ StoreOf(tables) = [k \in Keys |-> StoreOf(tables)[k]]
      /\ StoreOf(other) = [k \in Keys |-> StoreOf(other)[k]]
  BY DEF StoreOf
<1> QED
  BY <1>1

\* What the setter writes to the table of its type is what it was given.
LEMMA StoresItsRow ==
    ASSUME StoreInv, NEW h \in Handles, req[h].op = "set", pc[h] # "idle"
    PROVE  RowOf(req[h]) = [type |-> req[h].type, val |-> Stored(h)]
<1>1. CallOK(h)
  BY DEF StoreInv, SetterOK
<1> QED
  BY <1>1 DEF CallOK, SetsBlob, RowOf, Stored

LEMMA InsertValueMaps ==
    ASSUME StoreInv, IInv', Overtaking, NEW h \in Handles, req[h].op = "set", InsertValue(h)
    PROVE  StoreInv' /\ Mapped
<1> DEFINE new == [type |-> req[h].type, id |-> row[h].id, val |-> Stored(h)]
           tables == [dirty EXCEPT !.values = @ \cup {new}]
<1>1. /\ IInv /\ TypeOK /\ HandleOK(h) /\ SetterOK(h) /\ pc[h] = "insertValue"
      /\ row[h].id \in Nat /\ req[h].key \in Keys
  BY DEF StoreInv, IInv, InsertValue, TypeOK, Request
<1>2. Writing(h) /\ Image(h) = dirty
  BY <1>1 DEF HandleOK, ControlOK, Image
<1>3. ChangeOK(h) /\ DirtyOK(h) /\ dirty \in Tables
  BY <1>1, <1>2 DEF SetterOK, WritingOK, HandleOK, TypeOK
<1>4. new \in ValueRow
  BY <1>1, StoredFits
<1>5. /\ tables \in Tables
      /\ tables.keyInfo = dirty.keyInfo
      /\ tables.values = dirty.values \cup {new} /\ tables.seq = dirty.seq
  BY <1>3, <1>4 DEF Tables
<1>6. WriteStep(h, "commit", tables) /\ UNCHANGED row
  BY <1>2 DEF InsertValue
<1>7. \A v \in dirty.values : v.type # new.type \/ v.id # new.id
  BY <1>2 DEF InsertValue
<1>8. PICK k \in dirty.keyInfo : k.key = req[h].key /\ k.id = row[h].id /\ k.type = req[h].type
  BY <1>1, <1>3 DEF ChangeOK, DirtyOK
<1>9. new.type = req[h].type /\ new.id = row[h].id /\ new.val = Stored(h)
  OBVIOUS
<1> HIDE DEF tables, new
<1>10. ValuesKeyed(tables)
  BY <1>3, <1>5, <1>7 DEF ChangeOK, ValuesKeyed
<1>11. Sound(tables)
  <2>1. Keyed(tables)
    BY <1>3, <1>5 DEF DirtyOK, Keyed
  <2>2. ASSUME NEW j \in tables.keyInfo  PROVE RowComplete(tables, j)
    <3>1. CASE RowComplete(dirty, j)
      BY <1>5, <3>1 DEF RowComplete
    <3>2. CASE j.id = row[h].id
      <4>1. j.type = new.type /\ j.id = new.id
        BY <1>1, <1>3, <1>5, <1>9, <3>2 DEF DirtyOK
      <4> QED
        BY <1>5, <4>1 DEF RowComplete
    <3> QED
      BY <1>1, <1>3, <1>5, <2>2, <3>1, <3>2 DEF DirtyOK
  <2> QED
    BY <1>5, <1>10, <2>1, <2>2 DEF Sound
<1>12. /\ {i \in tables.keyInfo : i.key # req[h].key} = {i \in db.keyInfo : i.key # req[h].key}
       /\ {v \in tables.values : v.id # row[h].id} = {v \in db.values : v.id # row[h].id}
       /\ \E i \in tables.keyInfo : i.key = req[h].key /\ i.id = row[h].id
  BY <1>3, <1>5, <1>8, <1>9 DEF ChangeOK
<1>13. StoreOf(tables) = [Store EXCEPT ![req[h].key] = RowOf(req[h])]
  <2>1. RowOf(req[h]) = [type |-> k.type, val |-> new.val]
    BY <1>1, <1>8, <1>9, StoresItsRow
  <2>2. k \in tables.keyInfo /\ new \in tables.values /\ new.type = k.type /\ new.id = k.id
    BY <1>5, <1>8, <1>9
  <2>3. StoreOf(tables)[k.key] = [type |-> k.type, val |-> new.val]
    BY <1>11, <2>2, StoreOfRow
  <2>4. StoreOf(tables)[req[h].key] = RowOf(req[h])
    BY <1>8, <2>1, <2>3
  <2>5. \A other \in Keys \ {req[h].key} : StoreOf(tables)[other] = Store[other]
    BY <1>1, <1>11, <1>12, OtherKeysSame
  <2> QED
    BY <1>1, <2>4, <2>5, StoreEquals DEF Store
<1>14. SeqAbove(tables)
  BY <1>3, <1>5, <1>8, <1>9 DEF ChangeOK, SeqAbove
<1>15. \A v \in tables.values : v.type = "Blob" /\ v.id = row[h].id => v.val = PathOf[req[h].key]
  <2>1. new.type = "Blob" => new.val = PathOf[req[h].key]
    BY <1>1, <1>9 DEF SetterOK, CallOK, SetsBlob, Stored
  <2> QED
    BY <1>3, <1>5, <2>1 DEF ChangeOK
<1>16. dirty' = tables /\ pc'[h] = "commit" /\ UNCHANGED <<db, req>>
  BY <1>1, <1>5, <1>6, WriteStepTyped DEF Labels, WriteLabels
<1>17. EffectOK(h)'
  <2>1. StoreOf(dirty)' = StoreOf(tables) /\ Store' = Store /\ RowOf(req[h])' = RowOf(req[h])
    BY <1>16 DEF StoreOf, Store, RowOf
  <2> QED
    BY <1>13, <1>16, <2>1 DEF EffectOK
<1>18. WritingOK(h)'
  BY <1>3, <1>6, <1>10, <1>12, <1>14, <1>15, <1>16, <1>17
     DEF WritingOK, ChangeOK, ValuesKeyed, SeqAbove, KeyInfoAccepts
<1> QED
  BY <1>1, <1>5, <1>6, <1>18, WriteStepMaps DEF WriteLabels

LEMMA UpdateValueMaps ==
    ASSUME StoreInv, IInv', Overtaking, NEW h \in Handles, req[h].op = "set", UpdateValue(h)
    PROVE  StoreInv' /\ Mapped
<1> DEFINE Hit(v) == v.type = req[h].type /\ v.id = row[h].id
           Updated(v) == IF Hit(v) THEN [v EXCEPT !.val = Stored(h)] ELSE v
           new == {Updated(v) : v \in db.values}
           tables == [db EXCEPT !.values = new]
<1>1. /\ IInv /\ TypeOK /\ HandleOK(h) /\ SetterOK(h) /\ pc[h] = "update"
      /\ db \in Tables /\ Keyed(db) /\ ValuesKeyed(db) /\ SeqAbove(db) /\ PathsKept
      /\ row[h].id \in Nat /\ req[h].key \in Keys /\ req[h].type \in Types
  BY DEF StoreInv, IInv, UpdateValue, TypeOK, Request
<1>2. Image(h) = db
  BY <1>1 DEF Image, HandleOK, ControlOK
<1>3. Sound(db) /\ Store = StoreOf(db)
  BY CommittedSound
<1>4. row[h].type = req[h].type /\ row[h].type # "none"
  BY <1>1 DEF SetterOK, CallOK, Types
<1>5. PICK k \in db.keyInfo : k.key = req[h].key /\ k.id = row[h].id
  BY <1>1, <1>4 DEF HandleOK, LookupOK
<1>6. ASSUME NEW v \in db.values
      PROVE  /\ Updated(v) \in ValueRow /\ Updated(v).type = v.type /\ Updated(v).id = v.id
             /\ Hit(v) => Updated(v).val = Stored(h)
             /\ ~Hit(v) => Updated(v) = v
  <2>1. v \in ValueRow /\ (v.type = req[h].type => [v EXCEPT !.val = Stored(h)] \in ValueRow)
    BY <1>1, StoredFits DEF Tables
  <2>2. /\ [v EXCEPT !.val = Stored(h)].type = v.type
        /\ [v EXCEPT !.val = Stored(h)].id = v.id
        /\ [v EXCEPT !.val = Stored(h)].val = Stored(h)
    BY <2>1 DEF ValueRow
  <2> QED
    BY <2>1, <2>2
<1>7. WriteStep(h, "commit", tables) /\ UNCHANGED row
  BY <1>2 DEF UpdateValue
<1> HIDE DEF Updated
<1>8. new \subseteq ValueRow
  BY <1>6
<1>9. /\ tables \in Tables
      /\ tables.keyInfo = db.keyInfo /\ tables.values = new /\ tables.seq = db.seq
  BY <1>1, <1>8 DEF Tables
<1> HIDE DEF tables
<1>10. ValuesKeyed(tables) /\ SeqAbove(tables)
  BY <1>1, <1>6, <1>9 DEF ValuesKeyed, SeqAbove
<1>11. Sound(tables)
  BY <1>1, <1>3, <1>6, <1>9, <1>10 DEF Sound, Keyed, RowComplete
<1>12. {v \in tables.values : v.id # row[h].id} = {v \in db.values : v.id # row[h].id}
  <2>1. \A v \in db.values : v.id # row[h].id => Updated(v) = v
    BY <1>6
  <2> QED
    BY <1>6, <1>9, <2>1
<1>13. \A other \in Keys \ {req[h].key} : StoreOf(tables)[other] = Store[other]
  BY <1>1, <1>5, <1>9, <1>11, <1>12, OtherKeysSame
<1>14. PICK v \in db.values : v.type = k.type /\ v.id = k.id
  BY <1>3 DEF Sound, RowComplete
<1>15. StoreOf(tables)[req[h].key] = [type |-> k.type, val |-> Updated(v).val]
  <2>1. Updated(v) \in tables.values /\ Updated(v).type = k.type /\ Updated(v).id = k.id
    BY <1>6, <1>9, <1>14
  <2>2. StoreOf(tables)[k.key] = [type |-> k.type, val |-> Updated(v).val]
    BY <1>9, <1>11, <2>1, StoreOfRow
  <2> QED
    BY <1>5, <2>2
<1>16. \/ StoreOf(tables) = [Store EXCEPT ![req[h].key] = RowOf(req[h])]
       \/ StoreOf(tables) = Store /\ h \in overtaken
  <2>1. CASE k.type = req[h].type
    <3>1. Updated(v).val = Stored(h)
      BY <1>5, <1>6, <1>14, <2>1
    <3>2. StoreOf(tables)[req[h].key] = RowOf(req[h])
      BY <1>1, <1>15, <2>1, <3>1, StoresItsRow
    <3> QED
      BY <1>1, <1>13, <3>2, StoreEquals DEF Store
  <2>2. CASE k.type # req[h].type
    <3>1. h \in overtaken
      BY <1>1, <1>4, <1>5, <2>2 DEF SetterOK, SeenOK, Keyed
    <3>2. Updated(v) = v
      BY <1>6, <1>14, <2>2
    <3>3. StoreOf(db)[k.key] = [type |-> k.type, val |-> v.val]
      BY <1>3, <1>14, StoreOfRow
    <3>4. StoreOf(tables)[req[h].key] = Store[req[h].key]
      BY <1>3, <1>5, <1>15, <3>2, <3>3
    <3>5. \A key \in Keys : StoreOf(tables)[key] = StoreOf(db)[key]
      BY <1>3, <1>13, <3>4
    <3> QED
      BY <1>3, <3>1, <3>5, StoreEquals
  <2> QED
    BY <2>1, <2>2
<1>17. \A w \in tables.values : w.type = "Blob" /\ w.id = row[h].id => w.val = PathOf[req[h].key]
  <2>1. req[h].type = "Blob" => Stored(h) = PathOf[req[h].key]
    BY <1>1 DEF SetterOK, CallOK, SetsBlob, Stored
  <2>2. \A w \in db.values : w.type = "Blob" /\ w.id = row[h].id => w.val = PathOf[req[h].key]
    BY <1>1, <1>5 DEF PathsKept
  <2>3. ASSUME NEW w \in db.values, w.type = "Blob", w.id = row[h].id
        PROVE  Updated(w).val = PathOf[req[h].key]
    BY <1>6, <2>1, <2>2, <2>3
  <2> QED
    BY <1>6, <1>9, <2>3
<1>18. dirty' = tables /\ pc'[h] = "commit" /\ UNCHANGED <<db, req>>
  BY <1>1, <1>7, <1>9, WriteStepTyped DEF Labels, WriteLabels
<1>19. overtaken' = overtaken => EffectOK(h)'
  <2>1. StoreOf(dirty)' = StoreOf(tables) /\ Store' = Store /\ RowOf(req[h])' = RowOf(req[h])
    BY <1>18 DEF StoreOf, Store, RowOf
  <2> QED
    BY <1>16, <1>18, <2>1 DEF EffectOK
<1>20. overtaken' = overtaken => WritingOK(h)'
  <2>1. ValuesKeyed(dirty)' /\ SeqAbove(dirty)'
    BY <1>10, <1>18 DEF ValuesKeyed, SeqAbove
  <2>2. \E i \in tables.keyInfo : i.key = req[h].key /\ i.id = row[h].id
    BY <1>5, <1>9
  <2> QED
    BY <1>4, <1>7, <1>9, <1>12, <1>17, <1>18, <1>19, <2>1, <2>2 DEF WritingOK, ChangeOK
<1> QED
  BY <1>1, <1>7, <1>9, <1>20, WriteStepMaps DEF WriteLabels

----------------------------------------------------------------------------
(* COMMIT: the instant at which a setter acts. *)

LEMMA CommitMaps ==
    ASSUME StoreInv, IInv', Overtaking, NEW h \in Handles, req[h].op = "set",
           Commit(h) \/ CommitAborts(h)
    PROVE  StoreInv' /\ Mapped
<1>1. /\ IInv /\ TypeOK /\ SetterOK(h) /\ pc[h] = "commit" /\ PathsKept
      /\ db' = dirty /\ dirty \in Tables /\ req[h].key \in Keys
  BY DEF StoreInv, IInv, TypeOK, Request, Commit, CommitAborts
<1>2. /\ Writing(h) /\ Alone(h) /\ Keyed(dirty)
      /\ \A k \in dirty.keyInfo : RowComplete(dirty, k)
  BY <1>1, CommitReady
<1>3. ChangeOK(h) /\ EffectOK(h)
  BY <1>1, <1>2 DEF SetterOK, WritingOK, ChangeOK
<1>4. PICK code \in {"OK", "ABORTED"} : Return(h, code, {})
  BY DEF Commit, CommitAborts
<1>5. /\ pc'[h] = "idle" /\ row'[h] = NoRow
      /\ \A g \in Handles \ {h} : pc'[g] = pc[g] /\ row'[g] = row[g] /\ req'[g] = req[g]
  BY <1>1, <1>4, ReturnTyped, NothingRead DEF Codes
<1>6. /\ res'[h] = [code |-> code, out |-> {}] /\ req' = req
      /\ \A g \in Handles \ {h} : res'[g] = res[g]
  BY <1>1, <1>4 DEF Return, TypeOK
<1>7. \A g \in Handles : ~Writing(g)'
  BY <1>1, <1>2 DEF Commit, CommitAborts, TypeOK, Writing, Alone
<1>8. Store' = StoreOf(dirty)
  BY <1>1 DEF Store, StoreOf
<1>9. \A g \in Handles : ~Started(g)
  BY <1>5 DEF Started
<1>10. overtaken' = overtaken \cup {g \in Handles : Store'[req[g].key] # Store[req[g].key]}
  BY <1>9 DEF Overtaking, StoreInv
<1>11. Sound(dirty) /\ Sound(db) /\ Store = StoreOf(db)
  BY <1>1, <1>2, <1>3, CommittedSound DEF Sound, ChangeOK
<1>12. StoreInv'
  <2>1. ValuesKeyed(db)' /\ SeqAbove(db)' /\ (overtaken \subseteq Handles)'
    BY <1>1, <1>3, <1>10 DEF ChangeOK, ValuesKeyed, SeqAbove, StoreInv
  <2>2. ASSUME NEW k \in dirty.keyInfo, NEW v \in dirty.values, v.type = "Blob", v.id = k.id
        PROVE  v.val = PathOf[k.key]
    <3>1. PICK own \in dirty.keyInfo : own.key = req[h].key /\ own.id = row[h].id
      BY <1>1, <1>3 DEF ChangeOK
    <3>2. CASE k = own
      BY <1>3, <2>2, <3>1, <3>2 DEF ChangeOK
    <3>3. CASE k # own
      <4>1. k.key # req[h].key /\ k.id # row[h].id
        BY <1>2, <3>1, <3>3 DEF Keyed
      <4>2. k \in db.keyInfo /\ v \in db.values
        BY <1>3, <2>2, <4>1 DEF ChangeOK
      <4> QED
        BY <1>1, <2>2, <4>2 DEF PathsKept
    <3> QED
      BY <3>2, <3>3
  <2>3. PathsKept'
    BY <1>1, <2>2 DEF PathsKept
  <2>4. ASSUME NEW g \in Handles  PROVE SetterOK(g)'
    <3>1. CallOK(g) /\ SeenOK(g)
      BY DEF StoreInv, SetterOK
    <3>2. CallOK(g)'
      BY <1>5, <1>6, <3>1 DEF CallOK, SetsBlob
    <3>3. SeenOK(g)'
      <4>1. CASE g = h \/ g \in overtaken \/ row[g].type = "none"
        BY <1>5, <1>10, <4>1 DEF SeenOK, NoRow
      <4>2. ASSUME g # h, NEW k \in db.keyInfo, k.key = req[g].key, k.type = row[g].type
            PROVE  SeenOK(g)'
        <5>1. row'[g] = row[g] /\ req'[g] = req[g] /\ req[g].key \in Keys
          BY <1>1, <1>5, <4>2 DEF TypeOK, Request
        <5>2. CASE Store'[req[g].key] # Store[req[g].key]
          BY <1>10, <5>2 DEF SeenOK
        <5>3. CASE Store'[req[g].key] = Store[req[g].key]
          <6>1. PICK v \in db.values : v.type = k.type /\ v.id = k.id
            BY <1>11 DEF Sound, RowComplete
          <6>2. Store[k.key] = [type |-> k.type, val |-> v.val] /\ Store[k.key] # Absent
            BY <1>11, <6>1, StoreOfRow, RowIsNotAbsent DEF Sound
          <6>3. StoreOf(dirty)[k.key] = [type |-> k.type, val |-> v.val] /\ StoreOf(dirty)[k.key] # Absent
            BY <1>8, <4>2, <5>3, <6>2
          <6>4. PICK i \in dirty.keyInfo : i.key = k.key
            BY <4>2, <5>1, <6>3, StoreOfNoRow
          <6>5. PICK w \in dirty.values : w.type = i.type /\ w.id = i.id
            BY <1>11 DEF Sound, RowComplete
          <6>6. StoreOf(dirty)[i.key] = [type |-> i.type, val |-> w.val]
            BY <1>11, <6>5, StoreOfRow
          <6>7. i.type = k.type
            BY <6>3, <6>4, <6>6
          <6> QED
            BY <1>1, <4>2, <5>1, <6>4, <6>7 DEF SeenOK
        <5> QED
          BY <5>2, <5>3
      <4> QED
        BY <3>1, <4>1, <4>2 DEF SeenOK
    <3> QED
      BY <1>7, <3>2, <3>3 DEF SetterOK
  <2> QED
    BY <2>1, <2>3, <2>4 DEF StoreInv
<1>13. {g \in Handles : pc[g] # "idle"}' = {g \in Handles : pc[g] # "idle"} \ {h}
  BY <1>5
<1>14. h \in {g \in Handles : pc[g] # "idle"}
  BY <1>1
<1>15. [g \in Handles |-> Answer(g)]' =
        [[g \in Handles |-> Answer(g)] EXCEPT ![h] = [code |-> code, out |-> {}]]
  <2>1. Answer(h)' = [code |-> code, out |-> {}]
    BY <1>6 DEF Answer
  <2>2. ASSUME NEW g \in Handles, g # h  PROVE Answer(g)' = Answer(g)
    BY <1>6, <2>2 DEF Answer
  <2> QED
    BY <2>1, <2>2
<1>16. CASE StoreOf(dirty) = [Store EXCEPT ![req[h].key] = RowOf(req[h])]
  <2>1. KVS!Set(h)
    BY <1>6, <1>8, <1>10, <1>13, <1>14, <1>15, <1>16 DEF KVS!Set
  <2> QED
    BY <1>12, <2>1 DEF Mapped, KVS!KVNext
<1>17. CASE StoreOf(dirty) = Store /\ h \in overtaken
  <2>1. Store' = Store /\ overtaken' = overtaken
    BY <1>8, <1>10, <1>17
  <2>2. CASE code = "OK"
    <3>1. KVS!SetOverwritten(h)
      BY <1>6, <1>13, <1>14, <1>15, <1>17, <2>1, <2>2 DEF KVS!SetOverwritten
    <3> QED
      BY <1>12, <3>1 DEF Mapped, KVS!KVNext
  <2>3. CASE code = "ABORTED"
    <3>1. KVS!Fail(h)
      BY <1>6, <1>13, <1>14, <1>15, <2>1, <2>3 DEF KVS!Fail
    <3> QED
      BY <1>12, <3>1 DEF Mapped, KVS!KVNext
  <2> QED
    BY <2>2, <2>3
<1> QED
  BY <1>3, <1>16, <1>17 DEF EffectOK

LEMMA CommitBusyMaps ==
    ASSUME StoreInv, IInv', Overtaking, NEW h \in Handles, CommitBusy(h)
    PROVE  StoreInv' /\ Mapped
<1>1. /\ IInv /\ TypeOK /\ SetterOK(h) /\ pc[h] = "commit"
      /\ UNCHANGED <<db, dirty, pc, req, row, res>>
      /\ lock' = [lock EXCEPT ![h] = "pending"]
  BY DEF StoreInv, IInv, CommitBusy
<1>2. Writing(h)
  BY <1>1, CommitReady
<1>3. \A g \in Handles : ~Started(g)
  BY <1>1 DEF Started
<1>4. Store' = Store /\ overtaken' = overtaken
  BY <1>1, <1>3, NobodyOvertaken
<1>5. SetterOK(h)'
  <2>1. CallOK(h)' /\ SeenOK(h)'
    BY <1>1, <1>4 DEF SetterOK, CallOK, SeenOK, SetsBlob
  <2>2. StoreOf(dirty)' = StoreOf(dirty) /\ RowOf(req[h])' = RowOf(req[h])
    BY <1>1 DEF StoreOf, RowOf
  <2>3. EffectOK(h) => EffectOK(h)'
    BY <1>1, <1>4, <2>2 DEF EffectOK
  <2>4. WritingOK(h)'
    BY <1>1, <1>2, <2>3
       DEF SetterOK, WritingOK, ChangeOK, ValuesKeyed, SeqAbove, KeyInfoAccepts
  <2> QED
    BY <2>1, <2>4 DEF SetterOK
<1>6. StoreInv'
  <2>1. OthersSame(h) /\ \A g \in Handles \ {h} : res'[g] = res[g]
    BY <1>1 DEF OthersSame, TypeOK
  <2> QED
    BY <1>1, <1>4, <1>5, <2>1, StepKeepsStore
<1>7. UNCHANGED KVS!kvVars
  BY <1>1, <1>4 DEF KVS!kvVars, Answer
<1> QED
  BY <1>6, <1>7 DEF Mapped

----------------------------------------------------------------------------
(* Faults: all but two end a call that has changed nothing. *)

LEMMA FaultsMap ==
    ASSUME StoreInv, IInv', Overtaking, NEW h \in Handles,
           StatementFails(h) \/ OutOfMemory(h) \/ FileFails(h) \/ CommitFails(h) \/ Kill(h)
    PROVE  StoreInv' /\ Mapped
<1>1. TypeOK /\ HandleOK(h) /\ db' = db
  BY DEF StoreInv, IInv, StatementFails, OutOfMemory, FileFails, CommitFails, Kill, Fault
<1>2. pc[h] # "idle"
  BY DEF StatementFails, OutOfMemory, FileFails, CommitFails, Kill, WriteLabels
<1>3. ASSUME Return(h, "OK", {}), Release(h)
      PROVE  StoreInv' /\ res'[h].code = "OK"
  <2>1. "OK" \in Codes
    BY DEF Codes
  <2>2. StoreInv' /\ res'[h] = [code |-> "OK", out |-> {}]
    BY <1>1, <1>2, <1>3, <2>1, ReturnKeepsStore, NothingRead
  <2> QED
    BY <2>2
<1>4. \A code \in Aborting(h) : code = "ABORTED" /\ code \in FailCodes
  BY DEF Aborting, FailCodes
<1>5. CASE StatementFails(h)
  <2>1. PICK code \in FailCodes : Return(h, code, {})
    BY <1>4, <1>5 DEF StatementFails, FailCodes
  <2> QED
    BY <1>1, <1>2, <1>5, <2>1, FailStep DEF StatementFails
<1>6. CASE OutOfMemory(h)
  <2>1. CASE pc[h] = "update" /\ req[h].type = "String"
    <3>1. Return(h, "OK", {}) /\ Release(h)
      BY <1>6, <2>1 DEF OutOfMemory, MemoryCode
    <3> QED
      BY <1>3, <1>6, <2>1, <3>1 DEF Mapped, Forgets
  <2>2. CASE ~(pc[h] = "update" /\ req[h].type = "String")
    BY <1>1, <1>2, <1>6, <2>2, FailStep DEF OutOfMemory, MemoryCode, FailCodes
  <2> QED
    BY <2>1, <2>2
<1>7. CASE FileFails(h)
  <2>1. ~Writing(h) /\ dirty' = dirty /\ lock' = lock
    BY <1>1, <1>7 DEF HandleOK, ControlOK, FileFails
  <2>2. PICK code \in FileCodes(h) : Return(h, code, {})
    BY <1>7 DEF FileFails
  <2>3. pc[h] \in {"openFile", "checkFile", "writeFile", "unlink", "readFile"}
    BY <1>7 DEF FileFails
  <2>4. code \in FailCodes
    BY <2>2, <2>3 DEF FileCodes, FailCodes
  <2> QED
    BY <1>1, <1>2, <2>1, <2>2, <2>4, FailStep
<1>8. CASE CommitFails(h)
  <2>1. PICK code \in {"OK"} \cup Aborting(h) : Return(h, code, {})
    BY <1>8 DEF CommitFails
  <2>2. Release(h)
    BY <1>8 DEF CommitFails
  <2>3. CASE code = "OK"
    BY <1>3, <1>8, <2>1, <2>2, <2>3 DEF Mapped, Forgets
  <2>4. CASE code # "OK"
    BY <1>1, <1>2, <1>4, <2>1, <2>2, <2>4, FailStep
  <2> QED
    BY <2>3, <2>4
<1>9. CASE Kill(h)
  BY <1>1, <1>2, <1>9, FailStep DEF Kill, FailCodes
<1> QED
  BY <1>5, <1>6, <1>7, <1>8, <1>9

----------------------------------------------------------------------------
(* Every step, by the function that takes it. *)

LEMMA WriteStatementsMap ==
    ASSUME StoreInv, IInv', Overtaking, NEW h \in Handles, req[h].op = "set", WriteStatements(h)
    PROVE  StoreInv' /\ Mapped
  BY DeleteValueMaps, DeleteKeyMaps, InsertKeyMaps, InsertKeyRefusedMaps, InsertValueMaps, UpdateValueMaps,
     CommitMaps, CommitBusyMaps DEF WriteStatements

LEMMA SettersMap ==
    ASSUME StoreInv, IInv', Overtaking, NEW h \in Handles,
           SetInt64(h) \/ SetDouble(h) \/ SetString(h) \/ SetBlob(h)
    PROVE  StoreInv' /\ Mapped
<1>1. CASE SetBlob(h)
  BY <1>1, FileStepsMap, LookupMaps, SelectBusyMaps, WriteStatementsMap, CommitMaps
     DEF SetBlob, SetsBlob
<1>2. CASE req[h].op = "set" /\ ScalarSetter(h)
  BY <1>2, LookupMaps, SelectBusyMaps, EndLookupMaps, WriteStatementsMap DEF ScalarSetter
<1>3. CASE req[h].op = "set" /\ req[h].type # "Blob" /\ RemoveReferencedBlobFile(h)
  BY <1>3, RemoveStepsMap DEF RemoveReferencedBlobFile, SetsBlob
<1> QED
  BY <1>1, <1>2, <1>3 DEF SetInt64, SetDouble, SetString, Serves

LEMMA GettersMap ==
    ASSUME StoreInv, IInv', Overtaking, NEW h \in Handles,
           \/ GetInt64(h) \/ GetDouble(h) \/ GetString(h) \/ GetBlob(h)
           \/ GetType(h) \/ EnumKeys(h)
    PROVE  StoreInv' /\ Mapped
<1>1. CASE req[h].op = "get" /\ req[h].type # "Blob" /\ Getter(h)
  BY <1>1, SelectsMap, SelectBusyMaps, EndReadsMap DEF Getter
<1>2. CASE GetBlob(h)
  BY <1>2, SelectsMap, SelectBusyMaps, EndReadsMap DEF GetBlob, Serves
<1>3. CASE GetType(h) \/ EnumKeys(h)
  BY <1>3, SelectsMap, SelectBusyMaps, EndReadsMap DEF GetType, EnumKeys
<1> QED
  BY <1>1, <1>2, <1>3 DEF GetInt64, GetDouble, GetString, Serves

LEMMA NothingMaps ==
    ASSUME StoreInv, UNCHANGED vars, overtaken' = overtaken
    PROVE  StoreInv' /\ UNCHANGED KVS!kvVars
<1>1. IInv'
  BY NothingHappens DEF StoreInv
<1>2. UNCHANGED <<db, dirty, lock, pc, req, row, res>> /\ Store' = Store
  BY DEF vars, Store, StoreOf
<1>3. ASSUME NEW h \in Handles  PROVE SetterOK(h)'
  <2>1. SetterOK(h)
    BY DEF StoreInv
  <2>2. CallOK(h)' /\ SeenOK(h)'
    BY <1>2, <2>1 DEF SetterOK, CallOK, SeenOK, SetsBlob
  <2>3. StoreOf(dirty)' = StoreOf(dirty) /\ RowOf(req[h])' = RowOf(req[h])
    BY <1>2 DEF StoreOf, RowOf
  <2>4. EffectOK(h) => EffectOK(h)'
    BY <1>2, <2>3 DEF EffectOK
  <2>5. WritingOK(h) => WritingOK(h)'
    BY <1>2, <2>4 DEF WritingOK, ChangeOK, ValuesKeyed, SeqAbove, KeyInfoAccepts
  <2>6. Writing(h)' => Writing(h)
    BY <1>2 DEF Writing
  <2> QED
    BY <2>1, <2>2, <2>5, <2>6 DEF SetterOK
<1>4. StoreInv'
  BY <1>1, <1>2, <1>3 DEF StoreInv, ValuesKeyed, SeqAbove, PathsKept
<1>5. UNCHANGED KVS!kvVars
  BY <1>2 DEF KVS!kvVars, Answer
<1> QED
  BY <1>4, <1>5

\* StoreInv is inductive, and every step is an abstract one or forgets a set.
LEMMA HistoryStepMaps ==
    ASSUME StoreInv, [HistoryNext]_<<vars, overtaken>>
    PROVE  StoreInv' /\ Mapped
<1>1. CASE UNCHANGED <<vars, overtaken>>
  BY <1>1, NothingMaps DEF Mapped
<1>2. CASE HistoryNext
  <2>1. IInv' /\ Overtaking
    BY <1>2, NextKeeps DEF StoreInv, HistoryNext
  <2>2. ASSUME NEW h \in Handles, NEW r \in Requests, Call(h, r)  PROVE StoreInv' /\ Mapped
    BY <2>1, <2>2, CallMaps
  <2>3. ASSUME NEW h \in Handles, Step(h)  PROVE StoreInv' /\ Mapped
    BY <2>1, <2>3, SettersMap, GettersMap DEF Step
  <2>4. ASSUME NEW h \in Handles, RemoveFails(h)  PROVE StoreInv' /\ Mapped
    BY <2>1, <2>4, RemoveFailsMaps
  <2>5. ASSUME NEW h \in Handles,
               StatementFails(h) \/ OutOfMemory(h) \/ FileFails(h) \/ CommitFails(h) \/ Kill(h)
        PROVE  StoreInv' /\ Mapped
    BY <2>1, <2>5, FaultsMap
  <2>6. CASE Finished
    <3>1. UNCHANGED vars /\ db' = db /\ \A h \in Handles : ~Started(h)
      BY <2>6 DEF Finished, vars, Started
    <3>2. overtaken' = overtaken
      BY <2>1, <3>1, NobodyOvertaken
    <3> QED
      BY <3>1, <3>2, NothingMaps DEF Mapped
  <2> QED
    BY <1>2, <2>2, <2>3, <2>4, <2>5, <2>6 DEF HistoryNext, Next
<1> QED
  BY <1>1, <1>2

LEMMA HistoryInitMaps ==
    ASSUME HistoryInit
    PROVE  StoreInv /\ KVS!KVInit
<1>1. IInv
  BY InitEstablishes DEF HistoryInit
<1>2. StoreInv
  <2>1. ASSUME NEW h \in Handles  PROVE SetterOK(h)
    BY DEF HistoryInit, Init, SetterOK, CallOK, SeenOK, Writing, NoRow, SetsBlob
  <2> QED
    BY <1>1, <2>1 DEF HistoryInit, Init, StoreInv, ValuesKeyed, SeqAbove, PathsKept
<1>3. KVS!KVInit
  BY DEF HistoryInit, Init, KVS!KVInit, Store, StoreOf, Answer, NoResult, KVS!Pending
<1> QED
  BY <1>2, <1>3

----------------------------------------------------------------------------
(* The theorems. *)

\* The strengthening holds of every behaviour of server/database.c.
THEOREM StoreInvariantHolds == HistorySpec => []StoreInv
<1>1. HistoryInit => StoreInv
  BY HistoryInitMaps
<1>2. StoreInv /\ [HistoryNext]_<<vars, overtaken>> => StoreInv'
  BY HistoryStepMaps
<1> QED
  BY <1>1, <1>2, PTL DEF HistorySpec

\* Whatever the handles do at the same time, whichever statement or file operation
\* fails and whoever is killed: every call of server/database.c acts on the store at
\* one instant or not at all, but for the two faults that lose a set behind a success.
THEOREM StoreForgetsOnlyByFault == HistorySpec => OnlyFaultsForget
<1>1. HistoryInit => KVS!KVInit
  BY HistoryInitMaps
<1>2. StoreInv /\ [HistoryNext]_<<vars, overtaken>>
        => [KVS!KVNext \/ \E h \in Handles : Forgets(h)]_(KVS!kvVars)
  BY HistoryStepMaps DEF Mapped
<1> QED
  BY <1>1, <1>2, StoreInvariantHolds, PTL DEF HistorySpec, OnlyFaultsForget

\* Where COMMIT does not fail, and memory does not run out or no client sets strings,
\* server/database.c implements the store that database.h describes.
THEOREM StoreImplemented ==
    ASSUME "commit" \notin FaultKinds,
           \/ "memory" \notin FaultKinds
           \/ \A r \in Requests : ~(r.op = "set" /\ r.type = "String")
    PROVE  HistorySpec => ImplementsKeyValueStore
<1>1. HistoryInit => KVS!KVInit
  BY HistoryInitMaps
<1>2. ASSUME StoreInv, NEW h \in Handles, Forgets(h)
      PROVE  FALSE
  <2>1. ~CommitFails(h)
    BY DEF CommitFails, Fault
  <2>2. OutOfMemory(h) /\ pc[h] = "update" /\ req[h].type = "String"
    BY <1>2, <2>1 DEF Forgets
  <2>3. "memory" \in FaultKinds
    BY <2>2 DEF OutOfMemory, Fault
  <2>4. req[h] \in Requests /\ req[h].op = "set"
    BY <1>2, <2>2 DEF StoreInv, SetterOK, CallOK
  <2> QED
    BY <2>2, <2>3, <2>4
<1>3. StoreInv /\ [HistoryNext]_<<vars, overtaken>> => [KVS!KVNext]_(KVS!kvVars)
  BY <1>2, HistoryStepMaps DEF Mapped
<1> QED
  BY <1>1, <1>3, StoreInvariantHolds, PTL DEF HistorySpec, ImplementsKeyValueStore, KVS!KVSpec
=============================================================================
