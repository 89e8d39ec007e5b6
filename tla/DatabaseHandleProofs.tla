------------------------ MODULE DatabaseHandleProofs ------------------------
(***************************************************************************)
(* What module DatabaseHandle promises about the writes of a call, for     *)
(* every number of calls, opens and failures.                              *)
(***************************************************************************)
EXTENDS DatabaseHandle, TLAPS

\* A getter or setter is running; the calls before it, or all of them, have returned.
Running == handle = "open" /\ script # <<>>
Returned == {c \in 1 .. MaxCalls : c <= calls /\ (Running => c # calls)}

Quiet == {"begin", "select", "commit", "file"}
Writing == {"write", "update"}

\* What is left of database_open.
OpenSteps == {"begin", "select", "commit", "rollback", "check", "close"}
OpenScripts ==
    {<<"begin", "select", "commit", "check">>, <<"select", "commit", "check">>,
     <<"commit", "check">>, <<"check">>, <<"rollback", "close">>, <<"close">>}

\* What is left of a call of n writes: the last of them comes right before its COMMIT.
RestOf(s, n) ==
    /\ s \in Seq(Quiet \cup Writing)
    /\ Len(s) >= 1 /\ s[Len(s)] = "commit"
    /\ \A i \in 1 .. Len(s) : s[i] \in Writing <=> Len(s) <= i + n /\ i < Len(s)

AllIn(c, set) == \A i \in 1 .. history[c].writes : <<c, i>> \in set
NoneIn(c, set) == \A i \in 1 .. history[c].writes : <<c, i>> \notin set

\* On the way to its COMMIT a call wrote what is no longer in its script.
Going ==
    LET n == history[calls].writes IN
    /\ RestOf(script, n)
    /\ history[calls].code = "OK"
    /\ \A i \in 1 .. 4 : <<calls, i>> \in kept \cup dirty => i + Len(script) <= n + 1
    /\ calls \notin outside =>
        /\ NoneIn(calls, kept)
        /\ txn => \A i \in 1 .. n : i + Len(script) <= n + 1 => <<calls, i>> \in dirty
        /\ Len(script) = 1 /\ n >= 1 => txn

\* On its way back it has not run its last write.
Failing ==
    /\ script = <<"rollback">>
    /\ calls \notin outside => NoneIn(calls, kept)
    /\ history[calls].code # "OK" \/ "update" \in broken
    /\ history[calls].code # "OK" /\ history[calls].writes >= 1 =>
        <<calls, history[calls].writes>> \notin kept \cup dirty

ControlOK ==
    /\ calls <= MaxCalls
    /\ handle \in {"none", "closing"} => script = <<>>
    /\ handle = "opening" => script \in OpenScripts
    /\ handle = "open" => blobpath # NoPath
    /\ Running => calls >= 1 /\ (Going \/ Failing)

AheadOK ==
    /\ \A c \in 1 .. MaxCalls : c > calls => history[c] = NotRun /\ c \notin outside
    /\ \A w \in kept \cup dirty : w[1] <= calls

ConnectionOK ==
    /\ ~txn => dirty = {}
    /\ "commit" \notin broken /\ "rollback" \notin broken =>
        \A w \in dirty : Running /\ w[1] = calls

ReturnedOK(c) ==
    /\ "rollback" \notin broken /\ c \notin outside =>
        /\ AllIn(c, kept) \/ NoneIn(c, kept)
        /\ AllIn(c, dirty) \/ NoneIn(c, dirty)
    /\ broken \cap {"commit", "rollback", "update"} = {} /\ c \notin outside =>
        IF history[c].code = "OK" THEN AllIn(c, kept) ELSE NoneIn(c, kept)
    /\ history[c].code # "OK" /\ history[c].path # NoPath =>
        <<c, history[c].writes>> \notin kept \cup dirty

PathOK ==
    /\ \A c \in 1 .. MaxCalls : history[c].path # NoPath => history[c].writes >= 1
    /\ blobpath \notin {NoPath, "configured"} =>
        \E c \in Returned : history[c].path = blobpath /\ history[c].code = "OK"

IInv ==
    /\ TypeOK /\ ControlOK /\ AheadOK /\ ConnectionOK /\ PathOK
    /\ \A c \in Returned : ReturnedOK(c)

\* The steps SQLite runs in a transaction only, and those after which there is one.
Needs(step) == step \in {"select", "write", "update", "commit", "rollback"}
Leaves(step) == step \in {"begin", "select", "write", "update"}

\* Each step of a script leaves what the next one needs, the last one no transaction.
Paired(s) ==
    /\ s \in Seq(Steps) /\ s # <<>>
    /\ ~Leaves(s[Len(s)])
    /\ \A i \in 1 .. Len(s) : i < Len(s) => (Leaves(s[i]) <=> Needs(s[i + 1]))
Whole(s) == Paired(s) /\ ~Needs(s[1])

BalancedInv ==
    broken \subseteq {"update"} =>
        /\ leaked = 0 /\ ~lost /\ outside = {}
        /\ script = <<>> => ~txn
        /\ script # <<>> => Paired(script) /\ (txn <=> Needs(Head(script)))

----------------------------------------------------------------------------
(* Scripts. *)

LEMMA StepsLeft ==
    ASSUME NEW S, NEW s \in Seq(S), s # <<>>
    PROVE  /\ Head(s) = s[1] /\ Head(s) \in S /\ Tail(s) \in Seq(S)
           /\ Len(s) \in Nat \ {0} /\ Len(Tail(s)) = Len(s) - 1
           /\ Tail(s) = <<>> <=> Len(s) = 1
           /\ \A i \in 1 .. Len(Tail(s)) : Tail(s)[i] = s[i + 1]
<1>1. Len(s) \in Nat /\ Len(s) # 0
  OBVIOUS
<1>2. Head(s) = s[1] /\ s[1] \in S
  BY <1>1
<1>3. Tail(s) \in Seq(S) /\ Len(Tail(s)) = Len(s) - 1
  BY <1>1
<1>4. Tail(s) = <<>> <=> Len(s) = 1
  <2> DEFINE t == Tail(s)
  <2>1. \A r \in Seq(S) : r = <<>> <=> Len(r) = 0
    OBVIOUS
  <2>2. t \in Seq(S) /\ Len(t) = Len(s) - 1
    BY <1>3
  <2> HIDE DEF t
  <2>3. t = <<>> <=> Len(s) = 1
    BY <1>1, <2>1, <2>2
  <2> QED
    BY <2>3 DEF t
<1>5. \A i \in 1 .. Len(Tail(s)) : Tail(s)[i] = s[i + 1]
  BY <1>1, <1>3
<1> QED
  BY <1>1, <1>2, <1>3, <1>4, <1>5

LEMMA RestLeft ==
    ASSUME NEW n \in Nat, NEW s, RestOf(s, n)
    PROVE  /\ s # <<>> /\ Len(s) \in Nat \ {0} /\ s \in Seq(Quiet \cup Writing)
           /\ Head(s) \in Writing <=> Len(s) <= 1 + n /\ 1 < Len(s)
           /\ Len(s) = 1 => Head(s) = "commit" /\ Tail(s) = <<>>
           /\ Len(s) > 1 => RestOf(Tail(s), n) /\ Tail(s) # <<>> /\ Len(Tail(s)) = Len(s) - 1
<1>1. s \in Seq(Quiet \cup Writing) /\ s # <<>>
  BY DEF RestOf
<1>2. /\ Head(s) = s[1] /\ Tail(s) \in Seq(Quiet \cup Writing)
      /\ Len(s) \in Nat \ {0} /\ Len(Tail(s)) = Len(s) - 1
      /\ Tail(s) = <<>> <=> Len(s) = 1
      /\ \A i \in 1 .. Len(Tail(s)) : Tail(s)[i] = s[i + 1]
  BY <1>1, StepsLeft
<1>3. Head(s) \in Writing <=> Len(s) <= 1 + n /\ 1 < Len(s)
  BY <1>2 DEF RestOf
<1>4. Len(s) = 1 => Head(s) = "commit"
  BY <1>2 DEF RestOf
<1>5. ASSUME Len(s) > 1 PROVE RestOf(Tail(s), n)
  <2>1. Len(Tail(s)) >= 1 /\ Tail(s)[Len(Tail(s))] = "commit"
    BY <1>2, <1>5 DEF RestOf
  <2>2. ASSUME NEW i \in 1 .. Len(Tail(s))
        PROVE  Tail(s)[i] \in Writing <=> Len(Tail(s)) <= i + n /\ i < Len(Tail(s))
    <3>1. i + 1 \in 1 .. Len(s) /\ Tail(s)[i] = s[i + 1]
      BY <1>2
    <3>2. s[i + 1] \in Writing <=> Len(s) <= i + 1 + n /\ i + 1 < Len(s)
      BY <3>1 DEF RestOf
    <3> QED
      BY <1>2, <3>1, <3>2
  <2> QED
    BY <1>2, <2>1, <2>2 DEF RestOf
<1> QED
  BY <1>1, <1>2, <1>3, <1>4, <1>5

LEMMA SequencesMonotone ==
    ASSUME NEW a \in Seq(Quiet)
    PROVE  a \in Seq(Quiet \cup Writing)
  OBVIOUS

LEMMA Joined ==
    ASSUME NEW S, NEW a \in Seq(S), NEW b \in Seq(S)
    PROVE  /\ a \o b \in Seq(S) /\ Len(a \o b) = Len(a) + Len(b)
           /\ \A i \in 1 .. Len(a) + Len(b) :
                (a \o b)[i] = IF i <= Len(a) THEN a[i] ELSE b[i - Len(a)]
  OBVIOUS

LEMMA RestAfter ==
    ASSUME NEW n \in Nat, NEW a \in Seq(Quiet), NEW s, RestOf(s, n), Len(s) >= n + 2
    PROVE  RestOf(a \o s, n) /\ Len(a \o s) >= n + 2
<1> DEFINE r == a \o s
<1>1. s \in Seq(Quiet \cup Writing) /\ Len(s) \in Nat /\ Len(a) \in Nat
  BY DEF RestOf
<1>2. a \in Seq(Quiet \cup Writing)
  BY SequencesMonotone
<1>3. /\ r \in Seq(Quiet \cup Writing) /\ Len(r) = Len(a) + Len(s)
      /\ \A i \in 1 .. Len(r) : r[i] = IF i <= Len(a) THEN a[i] ELSE s[i - Len(a)]
  BY <1>1, <1>2
<1>4. r[Len(r)] = "commit"
  BY <1>1, <1>3 DEF RestOf
<1>5. ASSUME NEW i \in 1 .. Len(r)
      PROVE  r[i] \in Writing <=> Len(r) <= i + n /\ i < Len(r)
  <2>1. CASE i <= Len(a)
    <3>1. a[i] \in Quiet
      BY <2>1, <1>1
    <3> QED
      BY <1>1, <1>3, <2>1, <3>1 DEF Quiet, Writing
  <2>2. CASE i > Len(a)
    <3>1. i - Len(a) \in 1 .. Len(s) /\ r[i] = s[i - Len(a)]
      BY <1>1, <1>3, <2>2
    <3>2. s[i - Len(a)] \in Writing <=> Len(s) <= i - Len(a) + n /\ i - Len(a) < Len(s)
      BY <3>1 DEF RestOf
    <3> QED
      BY <1>1, <1>3, <3>1, <3>2
  <2> QED
    BY <1>1, <2>1, <2>2
<1> QED
  BY <1>1, <1>3, <1>4, <1>5 DEF RestOf

LEMMA WritesLeft ==
    ASSUME NEW n \in Nat, NEW q \in Seq(Quiet), q # <<>>
    PROVE  /\ RestOf(q \o Writes(n) \o <<"commit">>, n)
           /\ Len(q \o Writes(n) \o <<"commit">>) >= n + 2
<1> DEFINE m == Len(q)
           qw == q \o Writes(n)
           s == qw \o <<"commit">>
<1>1. m \in Nat \ {0} /\ q \in Seq(Quiet \cup Writing) /\ \A i \in 1 .. m : q[i] \in Quiet
  <2>1. m \in Nat /\ m # 0 /\ \A i \in 1 .. m : q[i] \in Quiet
    OBVIOUS
  <2> QED
    BY <2>1, SequencesMonotone
<1>2. /\ Writes(n) \in Seq(Quiet \cup Writing) /\ Len(Writes(n)) = n
      /\ \A i \in 1 .. n : Writes(n)[i] = "write"
  BY DEF Writes, Writing
<1>3. /\ qw \in Seq(Quiet \cup Writing) /\ Len(qw) = m + n
      /\ \A i \in 1 .. m + n : qw[i] = IF i <= m THEN q[i] ELSE Writes(n)[i - m]
  BY <1>1, <1>2
<1>4. <<"commit">> \in Seq(Quiet \cup Writing) /\ Len(<<"commit">>) = 1
  BY DEF Quiet
<1> HIDE DEF m, qw
<1>5. /\ s \in Seq(Quiet \cup Writing) /\ Len(s) = m + n + 1
      /\ \A i \in 1 .. m + n + 1 : s[i] = IF i = m + n + 1 THEN "commit" ELSE qw[i]
  BY <1>1, <1>3, <1>4
<1> HIDE DEF s
<1>6. ASSUME NEW i \in 1 .. m + n + 1
      PROVE  s[i] \in Writing <=> m + n + 1 <= i + n /\ i < m + n + 1
  <2>1. CASE i <= m
    <3>1. s[i] = q[i] /\ q[i] \in Quiet
      BY <1>1, <1>3, <1>5, <2>1
    <3> QED
      BY <1>1, <2>1, <3>1 DEF Quiet, Writing
  <2>2. CASE i > m /\ i < m + n + 1
    <3>1. i - m \in 1 .. n /\ s[i] = Writes(n)[i - m]
      BY <1>1, <1>3, <1>5, <2>2
    <3>2. s[i] = "write"
      BY <1>2, <3>1
    <3> QED
      BY <1>1, <2>2, <3>2 DEF Writing
  <2>3. CASE i = m + n + 1
    BY <1>1, <1>5, <2>3 DEF Writing
  <2> QED
    BY <1>1, <2>1, <2>2, <2>3
<1>7. RestOf(s, n) /\ Len(s) >= n + 2
  BY <1>1, <1>5, <1>6 DEF RestOf
<1> QED
  BY <1>7 DEF qw, s

\* Each of the calls' scripts runs its writes right before its last COMMIT.
LEMMA ScriptsRest ==
    ASSUME NEW c \in {Getter} \cup Insert \cup SetInt64 \cup SetDouble \cup SetString \cup SetBlob
    PROVE  /\ RestOf(c.script, c.writes) /\ Len(c.script) >= c.writes + 2
           /\ c.writes \in 0 .. 4 /\ c.path \in BlobPaths \cup {NoPath}
           /\ c.path # NoPath => c.writes >= 1
<1> DEFINE Good(s, n) == RestOf(s, n) /\ Len(s) >= n + 2
           ended == <<"begin", "commit">>
           begun == <<"begin", "select">>
           updated == <<"begin", "commit", "begin", "update", "commit">>
<1>1. ASSUME NEW n \in Nat, NEW q \in Seq(Quiet), q # <<>>
      PROVE  Good(q \o Writes(n) \o <<"commit">>, n)
  BY <1>1, WritesLeft
<1>2. ASSUME NEW n \in Nat, NEW a \in Seq(Quiet), NEW s, Good(s, n) PROVE Good(a \o s, n)
  BY <1>2, RestAfter
<1>3. Good(Lookup, 0) /\ Good(updated, 1)
  <2>1. RestOf(Lookup, 0)
    BY DEF Lookup, RestOf, Quiet, Writing
  <2>2. RestOf(updated, 1)
    BY DEF RestOf, Quiet, Writing
  <2> QED
    BY <2>1, <2>2 DEF Lookup
<1> HIDE DEF Good
<1>4. Lookup \in Seq(Quiet)
  BY DEF Lookup, Quiet
<1>5. ended \in Seq(Quiet) /\ begun \in Seq(Quiet) /\ begun # <<>> /\ <<"file">> \in Seq(Quiet)
  BY DEF Quiet
<1>6. \A n \in Nat : Good(InTransaction(n), n)
  <2>1. <<"begin">> \in Seq(Quiet) /\ <<"begin">> # <<>>
    BY DEF Quiet
  <2> QED
    BY <1>1, <2>1 DEF InTransaction
<1>7. /\ Good(Lookup \o InTransaction(1), 1) /\ Good(Lookup \o InTransaction(2), 2)
      /\ Good(Lookup \o InTransaction(4), 4)
  BY <1>2, <1>4, <1>6
<1>8. Lookup \o ended \in Seq(Quiet) /\ Lookup \o ended \o Lookup \o <<"file">> \in Seq(Quiet)
  BY <1>4, <1>5
<1>9. /\ Good(Lookup \o ended \o InTransaction(1), 1)
      /\ Good(Lookup \o ended \o InTransaction(4), 4)
  BY <1>2, <1>6, <1>8
<1>10. Good(Lookup \o ended \o Lookup \o <<"file">> \o InTransaction(4), 4)
  BY <1>2, <1>6, <1>8
<1>11. Good(Lookup \o updated, 1)
  BY <1>2, <1>3, <1>4
<1>12. \A n \in Nat : Good(begun \o Writes(n) \o <<"commit">>, n)
  BY <1>1, <1>5
<1> HIDE DEF ended, begun, updated
<1> DEFINE Fits(d) ==
        /\ Good(d.script, d.writes)
        /\ d.writes \in 0 .. 4 /\ d.path \in BlobPaths \cup {NoPath}
        /\ d.path # NoPath => d.writes >= 1
<1>13. ASSUME c = Getter PROVE Fits(c)
  <2>1. c.script = Lookup /\ c.writes = 0 /\ c.path = NoPath
    BY <1>13 DEF Getter
  <2> QED
    BY <1>3, <2>1
<1>14. ASSUME c \in Insert PROVE Fits(c)
  <2>1. c.script = Lookup \o InTransaction(2) /\ c.writes = 2 /\ c.path \in BlobPaths \cup {NoPath}
    BY <1>14 DEF Insert, BlobPaths
  <2> QED
    BY <1>7, <2>1
<1>15. ASSUME c \in SetInt64 PROVE Fits(c)
  <2>1. /\ c.path = NoPath
        /\ \/ c.script = Lookup \o InTransaction(1) /\ c.writes = 1
           \/ c.script = Lookup \o ended \o InTransaction(4) /\ c.writes = 4
           \/ c.script = Lookup \o ended \o Lookup \o <<"file">> \o InTransaction(4) /\ c.writes = 4
    BY <1>15 DEF SetInt64, Setter, ended
  <2>2. CASE c.script = Lookup \o InTransaction(1) /\ c.writes = 1
    BY <1>7, <1>9, <1>10, <2>1, <2>2
  <2>3. CASE c.script = Lookup \o ended \o InTransaction(4) /\ c.writes = 4
    BY <1>7, <1>9, <1>10, <2>1, <2>3
  <2>4. CASE c.script = Lookup \o ended \o Lookup \o <<"file">> \o InTransaction(4) /\ c.writes = 4
    BY <1>7, <1>9, <1>10, <2>1, <2>4
  <2> QED
    BY <2>1, <2>2, <2>3, <2>4
<1>16. ASSUME c \in SetDouble PROVE Fits(c)
  <2>1. /\ c.path = NoPath
        /\ \/ c.script = Lookup \o ended \o InTransaction(1) /\ c.writes = 1
           \/ c.script = Lookup \o InTransaction(4) /\ c.writes = 4
    BY <1>16 DEF SetDouble, Setter, ended
  <2>2. CASE c.script = Lookup \o ended \o InTransaction(1) /\ c.writes = 1
    BY <1>7, <1>9, <2>1, <2>2
  <2>3. CASE c.script = Lookup \o InTransaction(4) /\ c.writes = 4
    BY <1>7, <1>9, <2>1, <2>3
  <2> QED
    BY <2>1, <2>2, <2>3
<1>17. ASSUME c \in SetString PROVE Fits(c)
  <2>1. /\ c.path = NoPath
        /\ \/ c.script = Lookup \o updated /\ c.writes = 1
           \/ c.script = Lookup \o InTransaction(4) /\ c.writes = 4
    BY <1>17 DEF SetString, Setter, updated
  <2>2. CASE c.script = Lookup \o updated /\ c.writes = 1
    BY <1>7, <1>11, <2>1, <2>2
  <2>3. CASE c.script = Lookup \o InTransaction(4) /\ c.writes = 4
    BY <1>7, <1>11, <2>1, <2>3
  <2> QED
    BY <2>1, <2>2, <2>3
<1>18. ASSUME c \in SetBlob PROVE Fits(c)
  <2>1. PICK n \in {1, 2, 4} : c = Setter(begun \o Writes(n) \o <<"commit">>, n)
    BY <1>18 DEF SetBlob, begun
  <2>2. c.script = begun \o Writes(n) \o <<"commit">> /\ c.writes = n /\ c.path = NoPath
    BY <2>1 DEF Setter
  <2> QED
    BY <1>12, <2>2
<1>19. Fits(c)
  BY <1>13, <1>14, <1>15, <1>16, <1>17, <1>18
<1> QED
  BY <1>19 DEF Good

----------------------------------------------------------------------------
(* What the steps have in common. *)

\* The writes of call c are where they were, or no longer waiting, or all in the file.
Settles(c) ==
    \/ /\ \A i \in 1 .. history[c].writes : <<c, i>> \in kept' <=> <<c, i>> \in kept
       /\ \/ \A i \in 1 .. history[c].writes : <<c, i>> \in dirty' <=> <<c, i>> \in dirty
          \/ \A i \in 1 .. history[c].writes : <<c, i>> \notin dirty'
    \/ \A i \in 1 .. history[c].writes :
          /\ <<c, i>> \in kept' <=> <<c, i>> \in kept \cup dirty
          /\ <<c, i>> \notin dirty'

\* The transaction stays as it is, is rolled back, or commits.
EndsOrNot ==
    /\ ~txn' => dirty' = {}
    /\ \/ kept' = kept /\ dirty' \in {dirty, {}}
       \/ kept' = kept \cup dirty /\ dirty' = {}

LEMMA EndsOrNotSettles ==
    ASSUME EndsOrNot, NEW c
    PROVE  Settles(c)
  BY DEF EndsOrNot, Settles

\* A call that has returned keeps all of its writes or none, whatever the next calls do.
LEMMA ReturnedKeeps ==
    ASSUME IInv, NEW c \in Returned, history'[c] = history[c], broken \subseteq broken',
           outside \subseteq outside', Settles(c)
    PROVE  ReturnedOK(c)'
<1> DEFINE n == history[c].writes
<1>1. ReturnedOK(c) /\ c \in 1 .. MaxCalls
  BY DEF IInv, Returned
<1>2. "commit" \notin broken /\ "rollback" \notin broken => NoneIn(c, dirty)
  BY DEF IInv, ConnectionOK, Returned, NoneIn
<1>3. n \in 0 .. 4 /\ (history[c].path # NoPath => n \in 1 .. n)
  <2>1. history[c] \in [writes : 0 .. 4, path : BlobPaths \cup {NoPath}, code : Codes]
    BY <1>1 DEF IInv, TypeOK
  <2>2. history[c].path # NoPath => n >= 1
    BY <1>1 DEF IInv, PathOK
  <2> QED
    BY <2>1, <2>2
<1>4. ASSUME "rollback" \notin broken', c \notin outside'
      PROVE  (AllIn(c, kept) \/ NoneIn(c, kept))' /\ (AllIn(c, dirty) \/ NoneIn(c, dirty))'
  <2>1. /\ AllIn(c, kept) \/ NoneIn(c, kept)
        /\ AllIn(c, dirty) \/ NoneIn(c, dirty)
    BY <1>1, <1>4 DEF ReturnedOK
  <2> QED
    BY <2>1 DEF Settles, AllIn, NoneIn
<1>5. ASSUME broken' \cap {"commit", "rollback", "update"} = {}, c \notin outside'
      PROVE  (IF history[c].code = "OK" THEN AllIn(c, kept) ELSE NoneIn(c, kept))'
  <2>1. broken \cap {"commit", "rollback", "update"} = {}
    BY <1>5
  <2>2. /\ IF history[c].code = "OK" THEN AllIn(c, kept) ELSE NoneIn(c, kept)
        /\ NoneIn(c, dirty)
    BY <1>1, <1>2, <1>5, <2>1 DEF ReturnedOK
  <2> QED
    BY <2>2 DEF Settles, AllIn, NoneIn
<1>6. ASSUME history[c].code # "OK", history[c].path # NoPath
      PROVE  <<c, n>> \notin kept' \cup dirty'
  <2>1. <<c, n>> \notin kept \cup dirty
    BY <1>1, <1>6 DEF ReturnedOK
  <2> QED
    BY <1>3, <1>6, <2>1 DEF Settles
<1> QED
  BY <1>4, <1>5, <1>6 DEF ReturnedOK

\* Steps outside the calls of getters and setters.
LEMMA OutsideKeeps ==
    ASSUME IInv, TypeOK', ~Running, ~Running', EndsOrNot, broken \subseteq broken',
           UNCHANGED <<history, calls, outside>>,
           handle' \in {"none", "closing"} => script' = <<>>,
           handle' = "opening" => script' \in OpenScripts,
           handle' = "open" => blobpath' # NoPath,
           blobpath' \notin {NoPath, "configured", blobpath} =>
               \E c \in Returned : history[c].path = blobpath' /\ history[c].code = "OK"
    PROVE  IInv'
<1>1. Returned' = Returned
  BY DEF Returned
<1>2. ControlOK'
  BY DEF IInv, ControlOK
<1>3. AheadOK'
  BY DEF IInv, AheadOK, EndsOrNot
<1>4. ConnectionOK'
  BY DEF IInv, ConnectionOK, EndsOrNot
<1>5. PathOK'
  BY <1>1 DEF IInv, PathOK
<1>6. \A c \in Returned : ReturnedOK(c)'
  BY EndsOrNotSettles, ReturnedKeeps
<1> QED
  BY <1>1, <1>2, <1>3, <1>4, <1>5, <1>6 DEF IInv

\* What a step of the running call leaves alone.
CallSteps ==
    /\ UNCHANGED <<handle, blobpath, calls>>
    /\ broken \subseteq broken'
    /\ outside \subseteq outside' /\ outside' \subseteq outside \cup {calls}
    /\ ~txn' => dirty' = {}
    /\ \A c \in 1 .. MaxCalls : c # calls => history'[c] = history[c] /\ Settles(c)
    /\ history'[calls].writes = history[calls].writes /\ history'[calls].path = history[calls].path
    /\ \A w \in (kept' \cup dirty') \ (kept \cup dirty) : w[1] = calls
    /\ "commit" \notin broken' /\ "rollback" \notin broken' => \A w \in dirty' : w \in dirty \/ w[1] = calls

LEMMA CallKeeps ==
    ASSUME IInv, TypeOK', Running, CallSteps
    PROVE  /\ AheadOK' /\ PathOK'
           /\ \A c \in Returned : ReturnedOK(c)'
           /\ Running' => Returned' = Returned
           /\ ~Running' => Returned' = Returned \cup {calls}
           /\ calls \in 1 .. MaxCalls
<1>1. calls \in 1 .. MaxCalls
  BY DEF IInv, TypeOK, ControlOK
<1>2. \A c \in Returned : c \in 1 .. MaxCalls /\ c # calls /\ history'[c] = history[c]
  BY DEF Returned, CallSteps
<1>3. \A c \in Returned : ReturnedOK(c)'
  BY <1>2, ReturnedKeeps DEF CallSteps
<1>4. /\ Running' => Returned' = Returned
      /\ ~Running' => Returned' = Returned \cup {calls}
  BY <1>1 DEF Returned, CallSteps
<1>5. AheadOK'
  BY <1>1 DEF IInv, AheadOK, CallSteps
<1>6. PathOK'
  <2>1. \A c \in 1 .. MaxCalls : history'[c].path = history[c].path /\ history'[c].writes = history[c].writes
    BY <1>1 DEF CallSteps
  <2>2. Returned \subseteq Returned'
    BY <1>4
  <2>3. \A c \in Returned : history'[c] = history[c]
    BY <1>2
  <2> QED
    BY <2>1, <2>2, <2>3 DEF IInv, PathOK, CallSteps
<1> QED
  BY <1>1, <1>3, <1>4, <1>5, <1>6

LEMMA GoesOnKeeps ==
    ASSUME IInv, TypeOK', Running, CallSteps, script' # <<>>, Going' \/ Failing'
    PROVE  IInv'
<1>1. Running' /\ Returned' = Returned
  BY CallKeeps DEF Running, CallSteps
<1>2. ControlOK'
  BY <1>1 DEF IInv, ControlOK, Running, CallSteps
<1>3. ConnectionOK'
  BY <1>1 DEF IInv, ConnectionOK, CallSteps
<1> QED
  BY <1>1, <1>2, <1>3, CallKeeps DEF IInv

LEMMA ReturnsKeeps ==
    ASSUME IInv, TypeOK', Running, CallSteps, script' = <<>>, ReturnedOK(calls)',
           "commit" \notin broken' /\ "rollback" \notin broken' => dirty' = {}
    PROVE  IInv'
<1>1. ~Running' /\ Returned' = Returned \cup {calls}
  BY CallKeeps DEF Running
<1>2. ControlOK'
  BY <1>1 DEF IInv, ControlOK, Running, CallSteps
<1>3. ConnectionOK'
  BY <1>1 DEF IInv, ConnectionOK, CallSteps
<1>4. ASSUME NEW c \in Returned' PROVE ReturnedOK(c)'
  <2>1. CASE c = calls
    BY <2>1 DEF CallSteps, ReturnedOK, AllIn, NoneIn
  <2>2. CASE c # calls
    BY <1>1, <2>2, CallKeeps
  <2> QED
    BY <2>1, <2>2
<1>5. AheadOK' /\ PathOK'
  BY CallKeeps
<1> QED
  BY <1>2, <1>3, <1>4, <1>5 DEF IInv

\* Where a step of the script can be.
LEMMA ScriptCases ==
    ASSUME IInv, script # <<>>
    PROVE  /\ \/ handle = "opening" /\ ~Running /\ Head(script) \in OpenSteps
              \/ Running /\ Going
              \/ Running /\ Failing
           /\ Tail(script) \in Seq(Steps)
           /\ handle = "opening" /\ Head(script) \notin {"check", "close"} =>
                Tail(script) \in OpenScripts
           /\ handle = "opening" /\ Head(script) = "close" => Tail(script) = <<>>
<1>1. handle \in {"opening", "open"}
  BY DEF IInv, TypeOK, ControlOK
<1>2. script \in Seq(Steps) /\ Tail(script) \in Seq(Steps)
  BY StepsLeft DEF IInv, TypeOK
<1>3. CASE handle = "opening"
  <2>1. script \in OpenScripts
    BY <1>3 DEF IInv, ControlOK
  <2>2. /\ Head(script) \in OpenSteps
        /\ Head(script) \notin {"check", "close"} => Tail(script) \in OpenScripts
        /\ Head(script) = "close" => Tail(script) = <<>>
    <3>1. ASSUME NEW a, NEW b, NEW c, NEW d
          PROVE  /\ Head(<<a>>) = a /\ Head(<<a, b>>) = a /\ Head(<<a, b, c>>) = a
                 /\ Head(<<a, b, c, d>>) = a
                 /\ Tail(<<a>>) = <<>> /\ Tail(<<a, b>>) = <<b>> /\ Tail(<<a, b, c>>) = <<b, c>>
                 /\ Tail(<<a, b, c, d>>) = <<b, c, d>>
      OBVIOUS
    <3>2. CASE script = <<"begin", "select", "commit", "check">>
      BY <3>1, <3>2 DEF OpenScripts, OpenSteps
    <3>3. CASE script = <<"select", "commit", "check">>
      BY <3>1, <3>3 DEF OpenScripts, OpenSteps
    <3>4. CASE script = <<"commit", "check">>
      BY <3>1, <3>4 DEF OpenScripts, OpenSteps
    <3>5. CASE script = <<"rollback", "close">>
      BY <3>1, <3>5 DEF OpenScripts, OpenSteps
    <3>6. CASE script = <<"check">>
      BY <3>1, <3>6 DEF OpenScripts, OpenSteps
    <3>7. CASE script = <<"close">>
      BY <3>1, <3>7 DEF OpenScripts, OpenSteps
    <3> QED
      BY <2>1, <3>2, <3>3, <3>4, <3>5, <3>6, <3>7 DEF OpenScripts
  <2> QED
    BY <1>2, <1>3, <2>2 DEF Running
<1>4. CASE handle = "open"
  BY <1>2, <1>4 DEF IInv, ControlOK, Running
<1> QED
  BY <1>1, <1>3, <1>4

\* The call's own number, its writes, and what is in its script.
LEMMA GoingFacts ==
    ASSUME IInv, Running, Going
    PROVE  /\ calls \in 1 .. MaxCalls /\ history[calls].writes \in 0 .. 4
           /\ Len(script) \in Nat \ {0} /\ (Len(script) = 1 \/ Len(script) > 1) /\ Head(script) \in Quiet \cup Writing
           /\ Head(script) \in Writing <=> Len(script) <= 1 + history[calls].writes /\ 1 < Len(script)
           /\ Len(script) = 1 => Head(script) = "commit" /\ Tail(script) = <<>>
           /\ Len(script) > 1 =>
               /\ RestOf(Tail(script), history[calls].writes)
               /\ Tail(script) # <<>> /\ Len(Tail(script)) = Len(script) - 1
<1>1. calls \in 1 .. MaxCalls
  BY DEF IInv, TypeOK, ControlOK
<1>2. /\ history[calls] \in [writes : 0 .. 4, path : BlobPaths \cup {NoPath}, code : Codes]
      /\ history[calls].writes \in 0 .. 4 /\ history[calls].writes \in Nat
  BY <1>1 DEF IInv, TypeOK
<1>3. RestOf(script, history[calls].writes)
  BY DEF Going
<1>4. script # <<>> /\ script \in Seq(Quiet \cup Writing)
  BY <1>2, <1>3, RestLeft
<1>5. Head(script) \in Quiet \cup Writing
  BY <1>4, StepsLeft
<1>6. /\ Len(script) \in Nat \ {0}
      /\ Head(script) \in Writing <=> Len(script) <= 1 + history[calls].writes /\ 1 < Len(script)
      /\ Len(script) = 1 => Head(script) = "commit" /\ Tail(script) = <<>>
      /\ Len(script) > 1 =>
          /\ RestOf(Tail(script), history[calls].writes)
          /\ Tail(script) # <<>> /\ Len(Tail(script)) = Len(script) - 1
  BY <1>2, <1>3, RestLeft
<1>7. Len(script) = 1 \/ Len(script) > 1
  BY <1>6
<1> QED
  BY <1>1, <1>2, <1>5, <1>6, <1>7

\* A statement other than a write.
LEMMA QuietKeeps ==
    ASSUME IInv, TypeOK', Running, Going, Len(script) > 1, Head(script) \notin Writing,
           script' = Tail(script), EndsOrNot, broken \subseteq broken',
           UNCHANGED <<handle, blobpath, calls, history, outside>>
    PROVE  IInv'
<1> DEFINE n == history[calls].writes
<1>1. /\ calls \in 1 .. MaxCalls /\ n \in 0 .. 4 /\ Len(script) \in Nat /\ Len(script) > 1 + n
      /\ RestOf(Tail(script), n) /\ Tail(script) # <<>> /\ Len(Tail(script)) = Len(script) - 1
  BY GoingFacts
<1>2. CallSteps
  BY EndsOrNotSettles DEF CallSteps, EndsOrNot
<1>3. ASSUME NEW i \in 1 .. 4 PROVE <<calls, i>> \notin kept \cup dirty
  <2>1. <<calls, i>> \in kept \cup dirty => i + Len(script) <= n + 1
    BY DEF Going
  <2>2. n \in 0 .. 4 /\ Len(script) \in Nat /\ Len(script) > 1 + n
    BY <1>1
  <2> QED
    BY <2>1, <2>2
<1>4. \A i \in 1 .. 4 : <<calls, i>> \notin kept' \cup dirty'
  BY <1>3 DEF EndsOrNot
<1>5. Going'
  <2>1. history' = history /\ calls' = calls /\ Len(script') = Len(script) - 1
    BY <1>1
  <2>2. RestOf(script, n)'
    BY <1>1
  <2>3. \A i \in 1 .. n : ~(i + Len(script') <= n + 1)
    BY <1>1, <2>1
  <2>4. Len(script') = 1 => n = 0
    BY <1>1, <2>1
  <2>5. \A i \in 1 .. n : <<calls, i>> \notin kept'
    <3>1. n \in 0 .. 4
      BY <1>1
    <3>2. \A i \in 1 .. n : i \in 1 .. 4
      BY <3>1
    <3> QED
      BY <1>4, <3>2
  <2> QED
    BY <1>1, <1>4, <2>1, <2>2, <2>3, <2>4, <2>5 DEF Going, NoneIn
<1> QED
  BY <1>1, <1>2, <1>5, GoesOnKeeps

\* The error path of a statement.
LEMMA FailsKeeps ==
    ASSUME IInv, TypeOK', Running, Going, Len(script) > 1, script' = <<"rollback">>,
           EndsOrNot, kept' = kept, broken \subseteq broken',
           UNCHANGED <<handle, blobpath, calls, outside>>,
           \/ history' = [history EXCEPT ![calls].code = "FAILED"]
           \/ history' = history /\ "update" \in broken'
    PROVE  IInv'
<1> DEFINE n == history[calls].writes
<1>1. calls \in 1 .. MaxCalls /\ n \in 0 .. 4 /\ Len(script) \in Nat
  BY GoingFacts
<1>2. /\ \A c \in 1 .. MaxCalls : c # calls => history'[c] = history[c]
      /\ history'[calls].writes = n /\ history'[calls].path = history[calls].path
      /\ \/ history'[calls].code = "FAILED"
         \/ history'[calls].code = "OK" /\ "update" \in broken'
  BY <1>1 DEF IInv, TypeOK, Going
<1>3. CallSteps
  BY <1>2, EndsOrNotSettles DEF CallSteps, EndsOrNot
<1>4. n >= 1 => <<calls, n>> \notin kept \cup dirty
  BY <1>1 DEF Going
<1>5. calls \notin outside => NoneIn(calls, kept)
  BY DEF Going
<1>6. Failing'
  BY <1>2, <1>4, <1>5 DEF Failing, NoneIn, EndsOrNot
<1> QED
  BY <1>3, <1>6, GoesOnKeeps

----------------------------------------------------------------------------
(* The invariant: the initial states, then the actions. *)

LEMMA InitHolds == Init => IInv
<1> SUFFICES ASSUME Init PROVE IInv
  OBVIOUS
<1>1. TypeOK
  <2>1. NotRun \in [writes : 0 .. 4, path : BlobPaths \cup {NoPath}, code : Codes]
    BY DEF NotRun, Codes
  <2>2. history \in [1 .. MaxCalls -> [writes : 0 .. 4, path : BlobPaths \cup {NoPath}, code : Codes]]
    BY <2>1 DEF Init
  <2>3. txn \in BOOLEAN /\ lost \in BOOLEAN
    BY DEF Init
  <2>4. script \in Seq(Steps)
    BY DEF Init
  <2> QED
    BY <2>2, <2>3, <2>4 DEF Init, TypeOK, Codes
<1>2. ~Running /\ Returned = {}
  BY DEF Init, Running, Returned
<1>3. ControlOK /\ AheadOK /\ ConnectionOK
  BY <1>2, ConstantsAssumption DEF Init, ControlOK, AheadOK, ConnectionOK
<1>4. PathOK
  BY <1>2 DEF Init, PathOK, NotRun
<1> QED
  BY <1>1, <1>2, <1>3, <1>4 DEF IInv

LEMMA TypeKeeps ==
    ASSUME IInv, EndsOrNot, script' \in Seq(Steps), txn' \in BOOLEAN, leaked' \in Nat,
           faults' \in Nat, broken' \subseteq {"begin", "commit", "rollback", "rolledBack", "update"},
           UNCHANGED <<handle, code, lost, blobpath, history, outside, calls, opens>>
    PROVE  TypeOK'
<1>1. dirty' \subseteq Write /\ kept' \subseteq Write
  BY DEF IInv, TypeOK, EndsOrNot, Write
<1>2. /\ handle' \in {"none", "opening", "open", "closing"} /\ code' \in Codes
      /\ blobpath' \in BlobPaths \cup {NoPath} /\ outside' \subseteq 1 .. MaxCalls
      /\ lost' \in BOOLEAN /\ calls' \in Nat /\ opens' \in Nat
      /\ history' \in [1 .. MaxCalls -> [writes : 0 .. 4, path : BlobPaths \cup {NoPath}, code : Codes]]
  BY DEF IInv, TypeOK
<1> QED
  BY <1>1, <1>2 DEF TypeOK, Write

LEMMA BeginKeeps ==
    ASSUME IInv, Begin \/ BeginFails
    PROVE  IInv'
<1>1. /\ script # <<>> /\ Head(script) = "begin" /\ script' = Tail(script)
      /\ UNCHANGED <<handle, code, lost, blobpath, history, dirty, kept, outside, calls>>
  BY DEF Begin, BeginFails, At, Advance, Fault, bounds
<1>2. EndsOrNot
  BY DEF EndsOrNot, IInv, ConnectionOK, Begin, BeginFails
<1>3. /\ broken \subseteq broken' /\ broken' \subseteq broken \cup {"begin"}
      /\ leaked' \in {leaked, leaked + 1} /\ faults' \in {faults, faults + 1}
      /\ txn' \in {txn, TRUE} /\ opens' = opens
  BY DEF Begin, BeginFails, Fault, bounds
<1>4. TypeOK'
  <2>2. txn' \in BOOLEAN
    BY <1>3 DEF IInv, TypeOK
  <2>3. /\ leaked' \in Nat /\ faults' \in Nat
        /\ broken' \subseteq {"begin", "commit", "rollback", "rolledBack", "update"}
    BY <1>3 DEF IInv, TypeOK
  <2>4. script' \in Seq(Steps)
    BY <1>1, ScriptCases
  <2>5. UNCHANGED <<handle, code, lost, blobpath, history, outside, calls, opens>>
    BY <1>1, <1>3
  <2> QED
    BY <1>2, <2>2, <2>3, <2>4, <2>5, TypeKeeps
<1>5. CASE handle = "opening"
  BY <1>1, <1>2, <1>3, <1>4, <1>5, ScriptCases, OutsideKeeps DEF Running
<1>6. CASE Running /\ Going
  <2>1. Head(script) \notin Writing
    BY <1>1 DEF Writing
  <2>2. Len(script) > 1
    BY <1>1, <1>6, GoingFacts
  <2> QED
    BY <1>1, <1>2, <1>3, <1>4, <1>6, <2>1, <2>2, QuietKeeps
<1>7. CASE Running /\ Failing
  BY <1>1, <1>7 DEF Failing
<1> QED
  BY <1>1, <1>5, <1>6, <1>7, ScriptCases

\* The last COMMIT of a call.
LEMMA LastCommitKeeps ==
    ASSUME IInv, TypeOK', Running, Going, Len(script) = 1, script' = <<>>,
           EndsOrNot, kept' = kept \cup dirty \/ "commit" \in broken', broken \subseteq broken',
           UNCHANGED <<handle, blobpath, calls, history, outside>>,
           "commit" \notin broken' => dirty' = {} /\ kept' = kept \cup dirty
    PROVE  IInv'
<1> DEFINE n == history[calls].writes
<1>1. calls \in 1 .. MaxCalls /\ n \in 0 .. 4
  BY GoingFacts
<1>2. CallSteps
  BY EndsOrNotSettles DEF CallSteps, EndsOrNot
<1>3. calls \notin outside =>
        /\ NoneIn(calls, kept)
        /\ AllIn(calls, dirty)
  BY <1>1 DEF Going, AllIn
<1>4. ASSUME calls \notin outside
      PROVE  (AllIn(calls, kept) \/ NoneIn(calls, kept))' /\ (AllIn(calls, dirty) \/ NoneIn(calls, dirty))'
  BY <1>3, <1>4 DEF EndsOrNot, AllIn, NoneIn
<1>5. ASSUME calls \notin outside, "commit" \notin broken' PROVE AllIn(calls, kept)'
  BY <1>3, <1>5 DEF AllIn
<1>6. ReturnedOK(calls)'
  BY <1>4, <1>5 DEF ReturnedOK, Going
<1> QED
  BY <1>2, <1>6, ReturnsKeeps

LEMMA CommitKeeps ==
    ASSUME IInv, Commit \/ (At("commit") /\ EndFails)
    PROVE  IInv'
<1>1. /\ script # <<>> /\ Head(script) = "commit" /\ script' = Tail(script)
      /\ UNCHANGED <<handle, code, lost, blobpath, history, outside, calls>>
      /\ broken \subseteq broken'
  BY DEF Commit, End, EndFails, At, Advance, Fault, bounds
<1>2. /\ "commit" \notin broken' => dirty' = {} /\ kept' = kept \cup dirty
      /\ kept' = kept \cup dirty \/ "commit" \in broken'
  BY <1>1 DEF Commit, End, EndFails, Fault
<1>3. EndsOrNot
  BY DEF EndsOrNot, IInv, ConnectionOK, Commit, End, EndFails
<1>4. TypeOK'
  <2>1. /\ broken' \subseteq broken \cup {"commit"} /\ txn' \in {txn, FALSE} /\ opens' = opens
        /\ leaked' \in {leaked, leaked + 1} /\ faults' \in {faults, faults + 1}
    BY <1>1 DEF Commit, End, EndFails, Fault, bounds
  <2>2. txn' \in BOOLEAN
    BY <2>1 DEF IInv, TypeOK
  <2>3. /\ leaked' \in Nat /\ faults' \in Nat
        /\ broken' \subseteq {"begin", "commit", "rollback", "rolledBack", "update"}
    BY <2>1 DEF IInv, TypeOK
  <2>4. script' \in Seq(Steps)
    BY <1>1, ScriptCases
  <2>5. UNCHANGED <<handle, code, lost, blobpath, history, outside, calls, opens>>
    BY <1>1, <2>1
  <2> QED
    BY <1>3, <2>2, <2>3, <2>4, <2>5, TypeKeeps
<1>5. CASE handle = "opening"
  BY <1>1, <1>3, <1>4, <1>5, ScriptCases, OutsideKeeps DEF Running
<1>6. CASE Running /\ Going /\ Len(script) > 1
  BY <1>1, <1>3, <1>4, <1>6, QuietKeeps DEF Writing
<1>7. CASE Running /\ Going /\ Len(script) = 1
  BY <1>1, <1>2, <1>3, <1>4, <1>7, GoingFacts, LastCommitKeeps
<1>8. CASE Running /\ Failing
  BY <1>1, <1>8 DEF Failing
<1>9. Running /\ Going => Len(script) > 1 \/ Len(script) = 1
  BY GoingFacts
<1> QED
  BY <1>1, <1>5, <1>6, <1>7, <1>8, <1>9, ScriptCases

LEMMA RollbackKeeps ==
    ASSUME IInv, Rollback \/ (At("rollback") /\ EndFails)
    PROVE  IInv'
<1>1. /\ script # <<>> /\ Head(script) = "rollback" /\ script' = Tail(script)
      /\ UNCHANGED <<handle, code, lost, blobpath, history, outside, kept, calls>>
      /\ broken \subseteq broken'
  BY DEF Rollback, End, EndFails, At, Advance, Fault, bounds
<1>2. "rollback" \notin broken' => dirty' = {}
  BY <1>1 DEF Rollback, End, EndFails, Fault
<1>3. EndsOrNot
  BY <1>1 DEF EndsOrNot, IInv, ConnectionOK, Rollback, End, EndFails
<1>4. TypeOK'
  <2>1. /\ broken' \subseteq broken \cup {"rollback"} /\ txn' \in {txn, FALSE} /\ opens' = opens
        /\ leaked' \in {leaked, leaked + 1} /\ faults' \in {faults, faults + 1}
    BY <1>1 DEF Rollback, End, EndFails, Fault, bounds
  <2>2. txn' \in BOOLEAN
    BY <2>1 DEF IInv, TypeOK
  <2>3. /\ leaked' \in Nat /\ faults' \in Nat
        /\ broken' \subseteq {"begin", "commit", "rollback", "rolledBack", "update"}
    BY <2>1 DEF IInv, TypeOK
  <2>4. script' \in Seq(Steps)
    BY <1>1, ScriptCases
  <2>5. UNCHANGED <<handle, code, lost, blobpath, history, outside, calls, opens>>
    BY <1>1, <2>1
  <2> QED
    BY <1>3, <2>2, <2>3, <2>4, <2>5, TypeKeeps
<1>5. CASE handle = "opening"
  BY <1>1, <1>3, <1>4, <1>5, ScriptCases, OutsideKeeps DEF Running
<1>6. CASE Running /\ Going
  BY <1>1, <1>6, GoingFacts DEF Quiet, Writing
<1>7. CASE Running /\ Failing
  <2>1. script' = <<>> /\ calls \in 1 .. MaxCalls
    BY <1>1, <1>7 DEF Failing, IInv, TypeOK, ControlOK
  <2>2. CallSteps
    BY <1>1, <1>3, EndsOrNotSettles DEF CallSteps, EndsOrNot
  <2>3. ReturnedOK(calls)'
    <3>1. ASSUME "rollback" \notin broken', calls \notin outside'
          PROVE  NoneIn(calls, kept)' /\ NoneIn(calls, dirty)'
      BY <1>1, <1>2, <1>7, <3>1 DEF Failing, NoneIn
    <3>2. history'[calls].code # "OK" \/ "update" \in broken'
      BY <1>1, <1>7 DEF Failing
    <3>3. ASSUME history'[calls].code # "OK", history'[calls].path # NoPath
          PROVE  <<calls, history'[calls].writes>> \notin kept' \cup dirty'
      <4>1. history[calls].writes >= 1
        BY <1>1, <2>1, <3>3 DEF IInv, PathOK
      <4> QED
        BY <1>1, <1>3, <1>7, <3>3, <4>1 DEF Failing, EndsOrNot
    <3> QED
      BY <1>1, <3>1, <3>2, <3>3 DEF ReturnedOK
  <2> QED
    BY <1>2, <1>4, <1>7, <2>1, <2>2, <2>3, ReturnsKeeps
<1> QED
  BY <1>1, <1>5, <1>6, <1>7, ScriptCases

LEMMA SelectKeeps ==
    ASSUME IInv, Select
    PROVE  IInv'
<1>1. /\ script # <<>> /\ Head(script) = "select" /\ script' = Tail(script)
      /\ UNCHANGED <<handle, code, txn, leaked, lost, dirty, kept, outside, history, broken>>
      /\ UNCHANGED <<calls, opens, faults>>
      /\ IF handle = "opening" THEN blobpath' \in StoredPaths ELSE UNCHANGED blobpath
  BY DEF Select, At, Advance, connection, bounds
<1>2. script' \in Seq(Steps)
  BY <1>1, ScriptCases
<1>3. EndsOrNot
  BY <1>1 DEF EndsOrNot, IInv, ConnectionOK
<1>4. CASE handle = "opening"
  <2>1. \A c \in 1 .. MaxCalls :
            /\ history[c] \in [writes : 0 .. 4, path : BlobPaths \cup {NoPath}, code : Codes]
            /\ history[c].path \in BlobPaths \cup {NoPath} /\ history[c].writes \in 0 .. 4
    BY DEF IInv, TypeOK
  <2>2. blobpath' \in BlobPaths \cup {NoPath}
    BY <1>1, <1>4, <2>1 DEF StoredPaths, BlobPaths
  <2>3. TypeOK'
    BY <1>1, <1>2, <2>2 DEF IInv, TypeOK, Write
  <2>4. ASSUME blobpath' # "configured"
        PROVE  \E c \in Returned : history[c].path = blobpath' /\ history[c].code = "OK"
    <3>1. PICK c \in 1 .. MaxCalls :
              /\ history[c].path = blobpath' /\ history[c].path # NoPath
              /\ {c} \X (1 .. history[c].writes) \subseteq kept
      BY <1>1, <1>4, <2>4 DEF StoredPaths
    <3>2. c <= calls
      BY <3>1 DEF IInv, AheadOK, TypeOK, NotRun
    <3>3. c \in Returned
      BY <1>4, <3>2 DEF Returned, Running
    <3>4. history[c].writes \in 1 .. history[c].writes
      BY <2>1, <3>1 DEF IInv, PathOK
    <3>5. <<c, history[c].writes>> \in kept
      BY <3>1, <3>4
    <3>6. history[c].code = "OK"
      BY <3>1, <3>3, <3>5 DEF IInv, ReturnedOK
    <3> QED
      BY <3>1, <3>3, <3>6
  <2> QED
    BY <1>1, <1>3, <1>4, <2>3, <2>4, ScriptCases, OutsideKeeps DEF Running
<1>5. ASSUME Running PROVE TypeOK'
  BY <1>1, <1>2, <1>5 DEF IInv, TypeOK, Running, Write
<1>6. CASE Running /\ Going
  <2>1. Head(script) \notin Writing /\ blobpath' = blobpath
    BY <1>1, <1>6 DEF Writing, Running
  <2>2. Len(script) > 1
    BY <1>1, <1>6, GoingFacts
  <2> QED
    BY <1>1, <1>3, <1>5, <1>6, <2>1, <2>2, QuietKeeps
<1>7. CASE Running /\ Failing
  BY <1>1, <1>7 DEF Failing
<1> QED
  BY <1>1, <1>4, <1>6, <1>7, ScriptCases

LEMMA FailureTypes ==
    ASSUME IInv, FailsWith("FAILED")
    PROVE  /\ code' \in Codes
           /\ history' \in [1 .. MaxCalls -> [writes : 0 .. 4, path : BlobPaths \cup {NoPath}, code : Codes]]
<1> DEFINE R == [writes : 0 .. 4, path : BlobPaths \cup {NoPath}, code : Codes]
<1>1. code' \in Codes /\ "FAILED" \in Codes
  BY DEF FailsWith, Codes
<1>2. history \in [1 .. MaxCalls -> R]
  BY DEF IInv, TypeOK
<1>3. [history EXCEPT ![calls].code = "FAILED"] \in [1 .. MaxCalls -> R]
  <2>1. \A r \in R : [r EXCEPT !.code = "FAILED"] \in R
    BY <1>1
  <2> HIDE DEF R
  <2> QED
    BY <1>2, <2>1
<1> QED
  BY <1>1, <1>2, <1>3 DEF FailsWith

\* A statement that fails.
LEMMA StatementFails ==
    ASSUME IInv, SelectFails \/ WriteRefused \/ (RolledBack /\ At("select")) \/ UpdateWithoutMemory
    PROVE  IInv'
<1>1. /\ script # <<>> /\ Head(script) \in {"select", "write", "update"} /\ script' = Cleanup
      /\ UNCHANGED <<handle, leaked, lost, blobpath, kept, outside, calls, opens>>
      /\ broken \subseteq broken' /\ broken' \subseteq broken \cup {"rolledBack", "update"}
      /\ txn' \in {txn, FALSE} /\ faults' \in {faults, faults + 1}
      /\ \/ FailsWith("FAILED")
         \/ UNCHANGED <<code, history>> /\ "update" \in broken' /\ Head(script) = "update"
  BY DEF SelectFails, WriteRefused, RolledBack, UpdateWithoutMemory, At, AtWrite, Fault, connection, bounds
<1>2. EndsOrNot
  BY DEF EndsOrNot, IInv, ConnectionOK, SelectFails, WriteRefused, RolledBack, UpdateWithoutMemory,
         connection
<1>3. TypeOK'
  <2>1. /\ code' \in Codes
        /\ history' \in [1 .. MaxCalls -> [writes : 0 .. 4, path : BlobPaths \cup {NoPath}, code : Codes]]
    BY <1>1, FailureTypes DEF IInv, TypeOK
  <2>2. script' \in Seq(Steps)
    <3>1. <<"rollback", "close">> \in Seq(Steps) /\ <<"rollback">> \in Seq(Steps)
      BY DEF Steps
    <3> QED
      BY <1>1, <3>1 DEF Cleanup
  <2>3. txn' \in BOOLEAN /\ lost' \in BOOLEAN
    BY <1>1 DEF IInv, TypeOK
  <2>4. dirty' \subseteq Write /\ kept' \subseteq Write /\ Write' = Write
    BY <1>2 DEF IInv, TypeOK, EndsOrNot, Write
  <2>5. /\ leaked' \in Nat /\ faults' \in Nat /\ calls' \in Nat /\ opens' \in Nat
        /\ broken' \subseteq {"begin", "commit", "rollback", "rolledBack", "update"}
        /\ blobpath' \in BlobPaths \cup {NoPath} /\ outside' \subseteq 1 .. MaxCalls
        /\ handle' \in {"none", "opening", "open", "closing"}
    BY <1>1 DEF IInv, TypeOK
  <2> QED
    BY <2>1, <2>2, <2>3, <2>4, <2>5 DEF TypeOK
<1>4. CASE handle = "opening"
  <2>1. history' = history
    BY <1>1, <1>4 DEF FailsWith
  <2>2. script' \in OpenScripts
    BY <1>1, <1>4 DEF Cleanup, OpenScripts
  <2> QED
    BY <1>1, <1>2, <1>3, <1>4, <2>1, <2>2, OutsideKeeps DEF Running
<1>5. CASE Running /\ Going
  <2>1. Len(script) > 1
    BY <1>1, <1>5, GoingFacts
  <2>2. script' = <<"rollback">>
    BY <1>1, <1>5 DEF Cleanup, Running
  <2>3. \/ history' = [history EXCEPT ![calls].code = "FAILED"]
        \/ history' = history /\ "update" \in broken'
    BY <1>1, <1>5 DEF FailsWith, Running
  <2> QED
    BY <1>1, <1>2, <1>3, <1>5, <2>1, <2>2, <2>3, FailsKeeps
<1>6. CASE Running /\ Failing
  BY <1>1, <1>6 DEF Failing
<1> QED
  BY <1>1, <1>4, <1>5, <1>6, ScriptCases

LEMMA RemoveFileKeeps ==
    ASSUME IInv, RemoveFile
    PROVE  IInv'
<1>1. /\ script # <<>> /\ Head(script) = "file"
      /\ UNCHANGED <<handle, txn, leaked, lost, dirty, kept, outside, blobpath, broken>>
      /\ UNCHANGED <<calls, opens, faults>>
      /\ \/ script' = Tail(script) /\ UNCHANGED <<code, history>>
         \/ script' = <<>> /\ FailsWith("FAILED")
  BY DEF RemoveFile, At, Advance, connection, bounds
<1>2. EndsOrNot
  BY <1>1 DEF EndsOrNot, IInv, ConnectionOK
<1>3. TypeOK'
  <2>1. script' \in Seq(Steps)
    <3>1. Tail(script) \in Seq(Steps) /\ <<>> \in Seq(Steps)
      BY <1>1, ScriptCases
    <3> QED
      BY <1>1, <3>1
  <2>2. /\ code' \in Codes
        /\ history' \in [1 .. MaxCalls -> [writes : 0 .. 4, path : BlobPaths \cup {NoPath}, code : Codes]]
    BY <1>1, FailureTypes DEF IInv, TypeOK
  <2> QED
    BY <1>1, <2>1, <2>2 DEF IInv, TypeOK, Write
<1>4. CASE handle = "opening"
  BY <1>1, <1>4, ScriptCases DEF OpenSteps, Running
<1>5. CASE Running /\ Going /\ script' = Tail(script) /\ history' = history
  <2>1. Len(script) > 1
    BY <1>1, <1>5, GoingFacts
  <2> QED
    BY <1>1, <1>2, <1>3, <1>5, <2>1, QuietKeeps DEF Writing
<1>6. CASE Running /\ Going /\ script' = <<>> /\ FailsWith("FAILED")
  <2> DEFINE n == history[calls].writes
  <2>1. calls \in 1 .. MaxCalls /\ n \in 0 .. 4 /\ Len(script) \in Nat /\ Len(script) > 1 + n
    BY <1>1, <1>6, GoingFacts DEF Writing
  <2>2. /\ \A c \in 1 .. MaxCalls : c # calls => history'[c] = history[c]
        /\ history'[calls].writes = n /\ history'[calls].path = history[calls].path
        /\ history'[calls].code = "FAILED"
    BY <1>6, <2>1 DEF IInv, TypeOK, FailsWith, Running
  <2>3. CallSteps
    BY <1>1, <1>2, <2>2, EndsOrNotSettles DEF CallSteps, EndsOrNot
  <2>4. \A i \in 1 .. 4 : <<calls, i>> \notin kept \cup dirty
    BY <1>6, <2>1 DEF Going
  <2>5. NoneIn(calls, kept)' /\ NoneIn(calls, dirty)'
    BY <1>1, <2>1, <2>2, <2>4 DEF NoneIn
  <2>6. ReturnedOK(calls)'
    <3>1. ASSUME history'[calls].path # NoPath PROVE <<calls, n>> \notin kept' \cup dirty'
      <4>1. n >= 1
        BY <2>1, <2>2, <3>1 DEF IInv, PathOK
      <4> QED
        BY <1>1, <2>1, <2>4, <4>1
    <3> QED
      BY <1>1, <2>2, <2>5, <3>1 DEF ReturnedOK
  <2>7. "commit" \notin broken' /\ "rollback" \notin broken' => dirty' = {}
    <3>1. ASSUME "commit" \notin broken, "rollback" \notin broken, NEW w \in dirty PROVE FALSE
      <4>1. w[1] = calls
        BY <3>1 DEF IInv, ConnectionOK
      <4>2. w \in (1 .. MaxCalls) \X (1 .. 4)
        BY <3>1 DEF IInv, TypeOK, Write
      <4>3. w = <<calls, w[2]>> /\ w[2] \in 1 .. 4
        BY <4>1, <4>2
      <4>4. w[2] + Len(script) <= n + 1
        BY <1>6, <3>1, <4>3 DEF Going
      <4> QED
        BY <2>1, <4>3, <4>4
    <3> QED
      BY <1>1, <3>1
  <2> QED
    BY <1>3, <1>6, <2>3, <2>6, <2>7, ReturnsKeeps
<1>7. CASE Running /\ Failing
  BY <1>1, <1>7 DEF Failing
<1> QED
  BY <1>1, <1>4, <1>5, <1>6, <1>7, ScriptCases

\* Where a call is when it runs a write.
LEMMA WritePlace ==
    ASSUME IInv, AtWrite
    PROVE  /\ Running /\ Going /\ script # <<>> /\ Head(script) \in Writing
           /\ Len(script) \in Nat /\ history[calls].writes \in 1 .. 4 /\ calls \in 1 .. MaxCalls
           /\ Len(script) > 1 /\ Len(script) <= history[calls].writes + 1
<1>1. script # <<>> /\ Head(script) \in Writing
  BY DEF AtWrite, At, Writing
<1>2. Running /\ Going
  <2>1. ~(Running /\ Failing)
    BY <1>1 DEF Failing, Writing
  <2>2. Head(script) \notin OpenSteps
    BY <1>1 DEF Writing, OpenSteps
  <2> QED
    BY <1>1, <2>1, <2>2, ScriptCases
<1>3. /\ Len(script) \in Nat /\ history[calls].writes \in 0 .. 4 /\ calls \in 1 .. MaxCalls
      /\ Len(script) > 1 /\ Len(script) <= history[calls].writes + 1
  BY <1>1, <1>2, GoingFacts
<1>4. history[calls].writes \in 1 .. 4
  BY <1>3
<1> QED
  BY <1>1, <1>2, <1>3, <1>4

LEMMA RunWriteKeeps ==
    ASSUME IInv, RunWrite
    PROVE  IInv'
<1> DEFINE n == history[calls].writes
           k == n + 2 - Len(script)
<1>1. /\ script' = Tail(script)
      /\ UNCHANGED <<handle, code, txn, leaked, lost, blobpath, history, broken>>
      /\ UNCHANGED <<calls, opens, faults>>
  BY DEF RunWrite, Advance, bounds
<1>2. /\ Running /\ Going /\ script # <<>>
      /\ Len(script) \in Nat /\ n \in 1 .. 4 /\ calls \in 1 .. MaxCalls
      /\ Len(script) > 1 /\ Len(script) <= n + 1
  BY WritePlace DEF RunWrite
<1>3. k \in 1 .. n /\ k \in 1 .. 4 /\ WriteNumber = <<calls, k>> /\ k + Len(script) = n + 2
  <2>1. \A m \in 1 .. 4, l \in Nat : l > 1 /\ l <= m + 1 =>
            /\ m + 2 - l \in 1 .. m /\ m + 2 - l \in 1 .. 4 /\ m + 2 - l + l = m + 2
            /\ m - l + 2 = m + 2 - l
    OBVIOUS
  <2>2. n - Len(script) + 2 = k /\ k \in 1 .. n /\ k \in 1 .. 4 /\ k + Len(script) = n + 2
    BY <1>2, <2>1
  <2> QED
    BY <2>2 DEF WriteNumber
<1> HIDE DEF k
<1>4. \/ txn /\ dirty' = dirty \cup {<<calls, k>>} /\ kept' = kept /\ outside' = outside
      \/ ~txn /\ kept' = kept \cup {<<calls, k>>} /\ outside' = outside \cup {calls} /\ dirty' = dirty
  BY <1>3 DEF RunWrite
<1>5. RestOf(Tail(script), n) /\ Tail(script) # <<>> /\ Len(Tail(script)) = Len(script) - 1
  BY <1>2, GoingFacts
<1>6. TypeOK'
  <2>1. <<calls, k>> \in Write /\ Write' = Write
    BY <1>2, <1>3 DEF Write
  <2>2. dirty' \subseteq Write /\ kept' \subseteq Write /\ outside' \subseteq 1 .. MaxCalls
    BY <1>2, <1>4, <2>1 DEF IInv, TypeOK
  <2>3. script' \in Seq(Steps)
    BY <1>1, <1>2, ScriptCases
  <2>4. txn' \in BOOLEAN /\ lost' \in BOOLEAN
    BY <1>1 DEF IInv, TypeOK
  <2> QED
    BY <1>1, <2>1, <2>2, <2>3, <2>4 DEF IInv, TypeOK
<1>7. CallSteps
  <2>1. ~txn' => dirty' = {}
    BY <1>1, <1>4 DEF IInv, ConnectionOK
  <2>2. \A c \in 1 .. MaxCalls : c # calls => Settles(c)
    BY <1>4 DEF Settles
  <2> QED
    BY <1>1, <1>4, <2>1, <2>2 DEF CallSteps
<1>8. ASSUME NEW i \in 1 .. 4, <<calls, i>> \in kept' \cup dirty' PROVE i + Len(script') <= n + 1
  <2>1. CASE i = k
    BY <1>1, <1>2, <1>3, <1>5, <2>1
  <2>2. CASE i # k
    <3>1. <<calls, i>> \in kept \cup dirty
      BY <1>4, <1>8, <2>2
    <3>2. i + Len(script) <= n + 1
      BY <3>1, <1>2 DEF Going
    <3> QED
      BY <1>1, <1>2, <1>5, <3>2
  <2> QED
    BY <2>1, <2>2
<1>9. ASSUME calls \notin outside'
      PROVE  /\ NoneIn(calls, kept) /\ kept' = kept /\ txn
             /\ \A i \in 1 .. n : i + Len(script') <= n + 1 => <<calls, i>> \in dirty'
  <2>1. txn /\ dirty' = dirty \cup {<<calls, k>>} /\ kept' = kept /\ calls \notin outside
    BY <1>4, <1>9
  <2>2. /\ NoneIn(calls, kept)
        /\ \A i \in 1 .. n : i + Len(script) <= n + 1 => <<calls, i>> \in dirty
    BY <1>2, <2>1 DEF Going
  <2>3. ASSUME NEW i \in 1 .. n, i + Len(script') <= n + 1 PROVE <<calls, i>> \in dirty'
    <3>1. i + Len(script) <= n + 2
      BY <1>1, <1>2, <1>5, <2>3
    <3>2. i = k \/ i + Len(script) <= n + 1
      BY <1>2, <1>3, <3>1
    <3> QED
      BY <2>1, <2>2, <3>2
  <2> QED
    BY <2>1, <2>2, <2>3
<1>10. Going'
  <2>1. history' = history /\ calls' = calls /\ history[calls].code = "OK" /\ txn' = txn
    BY <1>1, <1>2 DEF Going
  <2>2. RestOf(script, n)'
    BY <1>1, <1>5
  <2> QED
    BY <1>8, <1>9, <2>1, <2>2 DEF Going, NoneIn
<1>11. script' # <<>>
  BY <1>1, <1>5
<1> QED
  BY <1>2, <1>6, <1>7, <1>10, <1>11, GoesOnKeeps

\* A write whose transaction SQLite rolled back is tried again.
LEMMA RolledBackKeeps ==
    ASSUME IInv, RolledBack
    PROVE  IInv'
<1>1. CASE At("select")
  BY <1>1, StatementFails
<1>2. CASE AtWrite
  <2>1. /\ UNCHANGED <<handle, script, code, leaked, lost, blobpath, history, kept, outside>>
        /\ UNCHANGED <<calls, opens>>
        /\ txn' = FALSE /\ dirty' = {} /\ faults' = faults + 1 /\ broken' = broken \cup {"rolledBack"}
    BY <1>2 DEF RolledBack, AtWrite, At, Fault
  <2>2. /\ Running /\ Going /\ script # <<>>
        /\ Len(script) \in Nat /\ Len(script) > 1
    BY <1>2, WritePlace
  <2>3. EndsOrNot
    BY <2>1 DEF EndsOrNot
  <2>4. TypeOK'
    <3>1. txn' \in BOOLEAN
      BY <2>1
    <3>2. leaked' \in Nat /\ script' \in Seq(Steps) /\ UNCHANGED <<calls, opens>>
      BY <2>1 DEF IInv, TypeOK
    <3>3. faults' \in Nat
      BY <2>1 DEF IInv, TypeOK
    <3>4. broken' \subseteq {"begin", "commit", "rollback", "rolledBack", "update"}
      BY <2>1 DEF IInv, TypeOK
    <3> QED
      BY <2>1, <2>3, <3>1, <3>2, <3>3, <3>4, TypeKeeps
  <2>5. CallSteps
    BY <2>1, <2>3, EndsOrNotSettles DEF CallSteps, EndsOrNot
  <2>6. Going'
    <3>1. RestOf(script, history[calls].writes)'
      BY <2>1, <2>2 DEF Going
    <3>2. /\ history' = history /\ calls' = calls /\ script' = script /\ kept' = kept
          /\ outside' = outside /\ dirty' = {}
      BY <2>1
    <3>3. ~txn'
      BY <2>1
    <3>4. Len(script') = 1 => FALSE
      <4>1. script' = script /\ Len(script) \in Nat /\ Len(script) > 1
        BY <2>2, <3>2
      <4> QED
        BY <4>1
    <3>5. \A i \in 1 .. 4 : <<calls, i>> \in kept' \cup dirty' =>
            i + Len(script') <= history[calls].writes + 1
      BY <2>2, <3>2 DEF Going
    <3>6. calls \notin outside => NoneIn(calls, kept)
      BY <2>2 DEF Going
    <3>7. history[calls].code = "OK"
      BY <2>2 DEF Going
    <3> QED
      BY <3>1, <3>2, <3>3, <3>4, <3>5, <3>6, <3>7 DEF Going, NoneIn
  <2> QED
    BY <2>1, <2>2, <2>4, <2>5, <2>6, GoesOnKeeps
<1> QED
  BY <1>1, <1>2 DEF RolledBack

LEMMA CallKeepsAll ==
    ASSUME IInv, Call
    PROVE  IInv'
<1>1. /\ handle = "open" /\ script = <<>> /\ calls < MaxCalls /\ calls' = calls + 1
      /\ UNCHANGED <<handle, txn, leaked, lost, dirty, kept, outside, blobpath, broken, opens, faults>>
      /\ code' = "OK"
  BY DEF Call, Idle, connection
<1>2. PICK c \in {Getter} \cup Insert \cup SetInt64 \cup SetDouble \cup SetString \cup SetBlob :
          /\ script' = c.script
          /\ history' = [history EXCEPT ![calls'] = [writes |-> c.writes, path |-> c.path, code |-> "OK"]]
  BY DEF Call
<1> DEFINE n == c.writes
           R == [writes : 0 .. 4, path : BlobPaths \cup {NoPath}, code : Codes]
<1>3. /\ RestOf(c.script, n) /\ Len(c.script) >= n + 2
      /\ n \in 0 .. 4 /\ c.path \in BlobPaths \cup {NoPath} /\ (c.path # NoPath => n >= 1)
  BY ScriptsRest
<1>4. /\ Len(script') \in Nat /\ script' \in Seq(Quiet \cup Writing) /\ script' # <<>>
  BY <1>2, <1>3 DEF RestOf
<1>5. calls \in Nat /\ calls' \in 1 .. MaxCalls /\ history \in [1 .. MaxCalls -> R]
  BY <1>1, ConstantsAssumption DEF IInv, TypeOK
<1>6. history' \in [1 .. MaxCalls -> R]
  <2>1. [writes |-> n, path |-> c.path, code |-> "OK"] \in R
    BY <1>3 DEF Codes
  <2> HIDE DEF R
  <2> QED
    BY <1>2, <1>5, <2>1
<1>7. /\ history'[calls'].writes = n /\ history'[calls'].path = c.path
      /\ history'[calls'].code = "OK"
      /\ \A d \in 1 .. MaxCalls : d # calls' => history'[d] = history[d]
  BY <1>2, <1>5
<1>8. ~Running /\ Running' /\ Returned' = Returned
  BY <1>1, <1>4, <1>5 DEF Running, Returned
<1>9. \A i : <<calls', i>> \notin kept \cup dirty
  BY <1>1, <1>5 DEF IInv, AheadOK
<1>10. TypeOK'
  <2>1. script' \in Seq(Steps)
    BY <1>4 DEF Quiet, Writing, Steps
  <2>2. txn' \in BOOLEAN /\ lost' \in BOOLEAN
    BY <1>1 DEF IInv, TypeOK
  <2> QED
    BY <1>1, <1>5, <1>6, <2>1, <2>2 DEF IInv, TypeOK, Write, Codes
<1>11. Going'
  <2>1. RestOf(script, history[calls].writes)'
    BY <1>2, <1>3, <1>7
  <2>2. Len(script') > 1 /\ \A i \in 1 .. n : ~(i + Len(script') <= n + 1)
    BY <1>2, <1>3, <1>4
  <2>3. Len(script') = 1 => n = 0
    BY <2>2
  <2> QED
    BY <1>1, <1>3, <1>7, <1>9, <2>1, <2>2, <2>3 DEF Going, NoneIn
<1>12. ControlOK'
  BY <1>1, <1>5, <1>8, <1>11 DEF IInv, ControlOK
<1>13. AheadOK'
  <2>1. \A d \in 1 .. MaxCalls : d > calls' => d > calls /\ history'[d] = history[d]
    BY <1>1, <1>5, <1>7
  <2>2. \A w \in kept \cup dirty : w[1] \in Nat /\ w[1] <= calls
    BY DEF IInv, AheadOK, TypeOK, Write
  <2>3. \A w \in kept \cup dirty : w[1] <= calls'
    BY <1>1, <1>5, <2>2
  <2> QED
    BY <1>1, <2>1, <2>3 DEF IInv, AheadOK
<1>14. ConnectionOK'
  BY <1>1, <1>8 DEF IInv, ConnectionOK
<1>15. PathOK'
  <2>1. \A d \in Returned : d # calls' /\ d \in 1 .. MaxCalls
    BY <1>1, <1>5 DEF Returned
  <2> QED
    BY <1>1, <1>3, <1>7, <1>8, <2>1 DEF IInv, PathOK
<1>16. \A d \in Returned : ReturnedOK(d)'
  <2>1. EndsOrNot
    BY <1>1 DEF EndsOrNot, IInv, ConnectionOK
  <2>2. \A d \in Returned : history'[d] = history[d]
    BY <1>1, <1>5, <1>7 DEF Returned
  <2> QED
    BY <1>1, <2>1, <2>2, EndsOrNotSettles, ReturnedKeeps
<1> QED
  BY <1>8, <1>10, <1>12, <1>13, <1>14, <1>15, <1>16 DEF IInv

LEMMA OpenKeeps ==
    ASSUME IInv, database_open
    PROVE  IInv'
<1>1. /\ handle = "none" /\ opens' = opens + 1
      /\ code' \in Codes
      /\ txn' = FALSE /\ leaked' = 0 /\ dirty' = {}
      /\ UNCHANGED <<lost, blobpath, history, kept, outside, broken, calls, faults>>
      /\ \/ handle' = "opening" /\ script' = Lookup \o <<"check">>
         \/ UNCHANGED <<handle, script>>
  <2>1. \A path \in DOMAIN OpenCode : OpenCode[path] \in Codes
    BY DEF OpenCode, Codes
  <2> QED
    BY <2>1 DEF database_open
<1>2. script = <<>>
  BY <1>1 DEF IInv, ControlOK
<1>3. script' \in Seq(Steps) /\ (handle' = "opening" => script' \in OpenScripts)
  <2>1. Lookup \o <<"check">> = <<"begin", "select", "commit", "check">>
    <3> DEFINE t == <<"check">>
               s == Lookup \o t
    <3>1. /\ Lookup \in Seq(Steps) /\ Len(Lookup) = 3
          /\ Lookup[1] = "begin" /\ Lookup[2] = "select" /\ Lookup[3] = "commit"
      BY DEF Lookup, Steps
    <3>2. t \in Seq(Steps) /\ Len(t) = 1 /\ t[1] = "check"
      BY DEF Steps
    <3> HIDE DEF t
    <3>3. /\ s \in Seq(Steps) /\ Len(s) = Len(Lookup) + Len(t)
          /\ \A i \in 1 .. Len(Lookup) + Len(t) :
                s[i] = IF i <= Len(Lookup) THEN Lookup[i] ELSE t[i - Len(Lookup)]
      BY <3>1, <3>2, Joined
    <3> HIDE DEF s
    <3>4. /\ Len(s) = 4 /\ s[1] = "begin" /\ s[2] = "select" /\ s[3] = "commit"
          /\ s[4] = "check"
      BY <3>1, <3>2, <3>3
    <3>5. s = <<"begin", "select", "commit", "check">>
      <4>1. \A r \in Seq(Steps) : Len(r) = 4 => r = <<r[1], r[2], r[3], r[4]>>
        OBVIOUS
      <4>2. s = <<s[1], s[2], s[3], s[4]>>
        BY <3>3, <3>4, <4>1
      <4> QED
        BY <3>4, <4>2
    <3> QED
      BY <3>5 DEF s, t
  <2>2. /\ <<"begin", "select", "commit", "check">> \in Seq(Steps) /\ <<>> \in Seq(Steps)
        /\ <<"begin", "select", "commit", "check">> \in OpenScripts
    BY DEF Steps, OpenScripts
  <2> QED
    BY <1>1, <1>2, <2>1, <2>2
<1>4. EndsOrNot
  BY <1>1 DEF EndsOrNot
<1>5. TypeOK'
  <2>1. txn' \in BOOLEAN
    BY <1>1
  <2>2. lost' \in BOOLEAN
    BY <1>1 DEF IInv, TypeOK
  <2>3. leaked' \in Nat /\ opens' \in Nat /\ dirty' \subseteq Write /\ Write' = Write
    BY <1>1 DEF IInv, TypeOK, Write
  <2>4. handle' \in {"none", "opening", "open", "closing"}
    BY <1>1
  <2>5. /\ blobpath' \in BlobPaths \cup {NoPath} /\ outside' \subseteq 1 .. MaxCalls
        /\ history' \in [1 .. MaxCalls -> [writes : 0 .. 4, path : BlobPaths \cup {NoPath}, code : Codes]]
        /\ kept' \subseteq Write /\ calls' \in Nat /\ faults' \in Nat
        /\ broken' \subseteq {"begin", "commit", "rollback", "rolledBack", "update"}
    BY <1>1 DEF IInv, TypeOK
  <2> QED
    BY <1>1, <1>3, <2>1, <2>2, <2>3, <2>4, <2>5 DEF TypeOK
<1>6. ~Running /\ ~Running'
  BY <1>1 DEF Running
<1>7. handle' \in {"none", "closing"} => script' = <<>>
  BY <1>1, <1>2
<1>8. handle' # "open" /\ blobpath' = blobpath
  BY <1>1
<1> QED
  BY <1>1, <1>3, <1>4, <1>5, <1>6, <1>7, <1>8, OutsideKeeps

LEMMA CheckBlobPathKeeps ==
    ASSUME IInv, CheckBlobPath
    PROVE  IInv'
<1>1. /\ script # <<>> /\ Head(script) = "check"
      /\ UNCHANGED <<txn, leaked, lost, dirty, kept, outside, blobpath, history, broken>>
      /\ UNCHANGED <<calls, opens, faults>>
      /\ \/ /\ blobpath \in {"configured", "directory"}
            /\ handle' = "open" /\ script' = <<>> /\ code' = code
         \/ code' = "FAILED" /\ script' = <<"close">> /\ handle' = handle
  BY DEF CheckBlobPath, At, connection, bounds
<1>2. handle = "opening" /\ ~Running
  <2>1. ~(Running /\ Going)
    BY <1>1, GoingFacts DEF Quiet, Writing
  <2>2. ~(Running /\ Failing)
    BY <1>1 DEF Failing
  <2> QED
    BY <1>1, <2>1, <2>2, ScriptCases
<1>3. EndsOrNot
  BY <1>1 DEF EndsOrNot, IInv, ConnectionOK
<1>4. <<"close">> \in Seq(Steps) /\ <<"close">> \in OpenScripts /\ <<>> \in Seq(Steps)
  BY DEF Steps, OpenScripts
<1>5. TypeOK'
  <2>1. txn' \in BOOLEAN /\ lost' \in BOOLEAN
    BY <1>1 DEF IInv, TypeOK
  <2>2. script' \in Seq(Steps) /\ code' \in Codes /\ handle' \in {"none", "opening", "open", "closing"}
    BY <1>1, <1>2, <1>4 DEF IInv, TypeOK, Codes
  <2> QED
    BY <1>1, <2>1, <2>2 DEF IInv, TypeOK, Write
<1>6. ~Running'
  BY <1>1, <1>2 DEF Running
<1>7. /\ handle' \notin {"none", "closing"}
      /\ handle' = "opening" => script' \in OpenScripts
      /\ handle' = "open" => blobpath' # NoPath
  BY <1>1, <1>2, <1>4 DEF NoPath
<1> QED
  BY <1>1, <1>2, <1>3, <1>5, <1>6, <1>7, OutsideKeeps

\* The connection is closed or database_close begins.
LEMMA CloseKeeps ==
    ASSUME IInv, CloseFailedOpen \/ database_close \/ SqliteClose
    PROVE  IInv'
<1>1. /\ UNCHANGED <<blobpath, history, kept, outside, broken, calls, opens, faults, code>>
      /\ script' \in {Tail(script), script} /\ handle' \in {"none", "closing"}
      /\ dirty' \in {dirty, {}} /\ leaked' \in {0, leaked}
  BY DEF CloseFailedOpen, database_close, SqliteClose, At, Advance, connection, bounds
<1>2. ~Running /\ ~Running' /\ script' = <<>>
  <2>1. CASE CloseFailedOpen
    <3>1. script # <<>> /\ Head(script) = "close" /\ handle' = "none" /\ script' = Tail(script)
      BY <2>1 DEF CloseFailedOpen, At, Advance
    <3>2. ~(Running /\ Going)
      BY <3>1, GoingFacts DEF Quiet, Writing
    <3>3. ~(Running /\ Failing)
      BY <3>1 DEF Failing
    <3>4. handle = "opening" /\ ~Running
      BY <3>1, <3>2, <3>3, ScriptCases
    <3>5. script' = <<>>
      BY <3>1, <3>4, ScriptCases
    <3> QED
      BY <3>1, <3>4, <3>5 DEF Running
  <2>2. CASE database_close
    BY <2>2 DEF database_close, Idle, Running
  <2>3. CASE SqliteClose
    BY <2>3 DEF SqliteClose, Running, IInv, ControlOK
  <2> QED
    BY <2>1, <2>2, <2>3
<1>3. EndsOrNot
  BY <1>1 DEF EndsOrNot, IInv, ConnectionOK, CloseFailedOpen, database_close, SqliteClose, connection
<1>4. TypeOK'
  <2>1. txn' \in BOOLEAN
    BY DEF IInv, TypeOK, CloseFailedOpen, database_close, SqliteClose, connection
  <2>2. lost' \in BOOLEAN
    BY DEF IInv, TypeOK, CloseFailedOpen, database_close, SqliteClose, connection
  <2>3. /\ leaked' \in Nat /\ dirty' \subseteq Write /\ Write' = Write
        /\ handle' \in {"none", "opening", "open", "closing"} /\ code' \in Codes
    BY <1>1 DEF IInv, TypeOK, Write
  <2>4. /\ blobpath' \in BlobPaths \cup {NoPath} /\ outside' \subseteq 1 .. MaxCalls
        /\ history' \in [1 .. MaxCalls -> [writes : 0 .. 4, path : BlobPaths \cup {NoPath}, code : Codes]]
        /\ kept' \subseteq Write /\ calls' \in Nat /\ opens' \in Nat /\ faults' \in Nat
        /\ broken' \subseteq {"begin", "commit", "rollback", "rolledBack", "update"}
    BY <1>1 DEF IInv, TypeOK
  <2>5. script' \in Seq(Steps)
    BY <1>2
  <2> QED
    BY <2>1, <2>2, <2>3, <2>4, <2>5 DEF TypeOK
<1>5. handle' \notin {"opening", "open"} /\ blobpath' = blobpath /\ broken \subseteq broken'
  BY <1>1
<1> QED
  BY <1>1, <1>2, <1>3, <1>4, <1>5, OutsideKeeps

LEMMA StutterKeeps ==
    ASSUME IInv, UNCHANGED vars
    PROVE  IInv'
<1>1. /\ UNCHANGED <<handle, script, code, txn, leaked, lost, blobpath, history, dirty, kept, outside>>
      /\ UNCHANGED <<broken, calls, opens, faults>>
  BY DEF vars
<1>2. TypeOK' /\ ControlOK' /\ AheadOK' /\ ConnectionOK' /\ PathOK' /\ Returned' = Returned
  BY <1>1 DEF IInv, TypeOK, Write, ControlOK, Running, Going, Failing, AheadOK, ConnectionOK, PathOK,
              Returned, NoneIn
<1>3. \A c \in Returned : ReturnedOK(c)'
  BY <1>1 DEF IInv, ReturnedOK, AllIn, NoneIn
<1> QED
  BY <1>2, <1>3 DEF IInv

LEMMA NextKeeps == IInv /\ [Next]_vars => IInv'
<1> SUFFICES ASSUME IInv, [Next]_vars PROVE IInv'
  OBVIOUS
<1>1. CASE database_open
  BY <1>1, OpenKeeps
<1>2. CASE database_close \/ CloseFailedOpen \/ SqliteClose
  BY <1>2, CloseKeeps
<1>3. CASE Call
  BY <1>3, CallKeepsAll
<1>4. CASE Begin \/ BeginFails
  BY <1>4, BeginKeeps
<1>5. CASE Commit
  BY <1>5, CommitKeeps
<1>6. CASE Rollback
  BY <1>6, RollbackKeeps
<1>7. CASE EndFails
  BY <1>7, CommitKeeps, RollbackKeeps DEF EndFails
<1>8. CASE Select
  BY <1>8, SelectKeeps
<1>9. CASE RunWrite
  BY <1>9, RunWriteKeeps
<1>10. CASE RemoveFile
  BY <1>10, RemoveFileKeeps
<1>11. CASE CheckBlobPath
  BY <1>11, CheckBlobPathKeeps
<1>12. CASE SelectFails \/ WriteRefused \/ UpdateWithoutMemory
  BY <1>12, StatementFails
<1>13. CASE RolledBack
  BY <1>13, RolledBackKeeps
<1>14. CASE UNCHANGED vars
  BY <1>14, StutterKeeps
<1> QED
  BY <1>1, <1>2, <1>3, <1>4, <1>5, <1>6, <1>7, <1>8, <1>9, <1>10, <1>11, <1>12, <1>13, <1>14
     DEF Next, Run, Refusal, Failure, Finished, Hanging

\* Sets of writes, element by element.
LEMMA WritesAll ==
    ASSUME NEW c \in 1 .. MaxCalls, NEW set
    PROVE  /\ AllIn(c, set) => WritesOf(c) \cap set = WritesOf(c)
           /\ NoneIn(c, set) => WritesOf(c) \cap set = {}
  BY DEF WritesOf, AllIn, NoneIn

----------------------------------------------------------------------------
(* Transactions: each script begins and ends its own. *)

LEMMA PairedLeft ==
    ASSUME NEW s, Paired(s)
    PROVE  /\ Head(s) \in Steps
           /\ Leaves(Head(s)) <=> Tail(s) # <<>> /\ Needs(Head(Tail(s)))
           /\ Tail(s) # <<>> => Paired(Tail(s))
<1> DEFINE t == Tail(s)
<1>1. /\ Head(s) = s[1] /\ Head(s) \in Steps /\ t \in Seq(Steps)
      /\ Len(s) \in Nat \ {0} /\ Len(t) = Len(s) - 1
      /\ t = <<>> <=> Len(s) = 1
      /\ \A i \in 1 .. Len(t) : t[i] = s[i + 1]
  BY StepsLeft DEF Paired
<1> HIDE DEF t
<1>2. CASE t = <<>>
  BY <1>1, <1>2 DEF Paired, t
<1>3. CASE t # <<>>
  <2>1. Head(t) = t[1] /\ Len(t) \in Nat \ {0} /\ Len(s) > 1
    BY <1>1, <1>3, StepsLeft
  <2>2. t[1] = s[2] /\ t[Len(t)] = s[Len(s)]
    BY <1>1, <2>1
  <2>3. Leaves(s[1]) <=> Needs(s[2])
    BY <1>1, <2>1 DEF Paired
  <2>4. ASSUME NEW i \in 1 .. Len(t), i < Len(t) PROVE Leaves(t[i]) <=> Needs(t[i + 1])
    <3>1. i + 1 \in 1 .. Len(s) /\ i + 1 < Len(s) /\ t[i] = s[i + 1] /\ t[i + 1] = s[i + 2]
      BY <1>1, <2>1, <2>4
    <3>2. Leaves(s[i + 1]) <=> Needs(s[i + 1 + 1])
      BY <3>1 DEF Paired
    <3>3. i + 1 + 1 = i + 2
      OBVIOUS
    <3> QED
      BY <3>1, <3>2, <3>3
  <2>5. Paired(t)
    BY <1>1, <1>3, <2>2, <2>4 DEF Paired
  <2> QED
    BY <1>1, <1>3, <2>1, <2>2, <2>3, <2>5 DEF t
<1> QED
  BY <1>2, <1>3

LEMMA WholeJoined ==
    ASSUME NEW a, NEW b, Whole(a), Whole(b)
    PROVE  Whole(a \o b)
<1> DEFINE r == a \o b
<1>1. /\ a \in Seq(Steps) /\ b \in Seq(Steps)
      /\ Len(a) \in Nat \ {0} /\ Len(b) \in Nat \ {0}
  BY StepsLeft DEF Whole, Paired
<1>2. /\ r \in Seq(Steps) /\ Len(r) = Len(a) + Len(b)
      /\ \A i \in 1 .. Len(r) : r[i] = IF i <= Len(a) THEN a[i] ELSE b[i - Len(a)]
  BY <1>1, Joined
<1> HIDE DEF r
<1>3. r[1] = a[1] /\ r[Len(r)] = b[Len(b)] /\ r # <<>>
  BY <1>1, <1>2
<1>4. ASSUME NEW i \in 1 .. Len(r), i < Len(r) PROVE Leaves(r[i]) <=> Needs(r[i + 1])
  <2>1. CASE i < Len(a)
    <3>1. r[i] = a[i] /\ r[i + 1] = a[i + 1] /\ i \in 1 .. Len(a)
      BY <1>1, <1>2, <2>1
    <3> QED
      BY <2>1, <3>1 DEF Whole, Paired
  <2>2. CASE i = Len(a)
    <3>1. r[i] = a[Len(a)] /\ r[i + 1] = b[1]
      BY <1>1, <1>2, <2>2
    <3> QED
      BY <3>1 DEF Whole, Paired
  <2>3. CASE i > Len(a)
    <3>1. /\ i - Len(a) \in 1 .. Len(b) /\ i - Len(a) < Len(b)
          /\ r[i] = b[i - Len(a)] /\ r[i + 1] = b[i + 1 - Len(a)]
          /\ i + 1 - Len(a) = i - Len(a) + 1
      BY <1>1, <1>2, <1>4, <2>3
    <3>2. Leaves(b[i - Len(a)]) <=> Needs(b[i - Len(a) + 1])
      BY <3>1 DEF Whole, Paired
    <3> QED
      BY <3>1, <3>2
  <2> QED
    BY <1>1, <2>1, <2>2, <2>3
<1>5. Whole(r)
  BY <1>2, <1>3, <1>4 DEF Whole, Paired
<1> QED
  BY <1>5 DEF r

\* BEGIN, the writes, COMMIT.
LEMMA WritesWhole ==
    ASSUME NEW n \in Nat, NEW q \in {<<"begin">>, <<"begin", "select">>}
    PROVE  Whole(q \o Writes(n) \o <<"commit">>)
<1> DEFINE m == Len(q)
           qw == q \o Writes(n)
           c == <<"commit">>
           s == qw \o c
<1>1. /\ m \in {1, 2} /\ q \in Seq(Steps) /\ q[1] = "begin" /\ q[m] \in {"begin", "select"}
      /\ \A i \in 1 .. m : i < m => q[i] = "begin" /\ q[i + 1] = "select"
  <2>1. CASE q = <<"begin">>
    BY <2>1 DEF Steps
  <2>2. CASE q = <<"begin", "select">>
    BY <2>2 DEF Steps
  <2> QED
    BY <2>1, <2>2
<1>2. /\ Writes(n) \in Seq(Steps) /\ Len(Writes(n)) = n
      /\ \A i \in 1 .. n : Writes(n)[i] = "write"
  BY DEF Writes, Steps
<1>3. c \in Seq(Steps) /\ Len(c) = 1 /\ c[1] = "commit"
  BY DEF Steps
<1> HIDE DEF m, c
<1>4. /\ qw \in Seq(Steps) /\ Len(qw) = m + n
      /\ \A i \in 1 .. m + n : qw[i] = IF i <= m THEN q[i] ELSE Writes(n)[i - m]
  BY <1>1, <1>2, Joined DEF m
<1> HIDE DEF qw
<1>5. /\ s \in Seq(Steps) /\ Len(s) = m + n + 1
      /\ \A i \in 1 .. m + n + 1 : s[i] = IF i <= m + n THEN qw[i] ELSE c[i - (m + n)]
  <2>1. /\ s \in Seq(Steps) /\ Len(s) = Len(qw) + Len(c)
        /\ \A i \in 1 .. Len(qw) + Len(c) : s[i] = IF i <= Len(qw) THEN qw[i] ELSE c[i - Len(qw)]
    BY <1>3, <1>4, Joined
  <2> HIDE DEF s
  <2> QED
    BY <1>3, <1>4, <2>1
<1> HIDE DEF s
<1>6. /\ \A i \in 1 .. m : s[i] = q[i]
      /\ \A i \in 1 .. m + n : i > m => s[i] = "write"
      /\ s[m + n + 1] = "commit"
  <2>1. \A i \in 1 .. m : s[i] = q[i]
    BY <1>1, <1>4, <1>5
  <2>2. ASSUME NEW i \in 1 .. m + n, i > m PROVE s[i] = "write"
    <3>1. i - m \in 1 .. n /\ s[i] = Writes(n)[i - m]
      BY <1>1, <1>4, <1>5, <2>2
    <3> QED
      BY <1>2, <3>1
  <2>3. s[m + n + 1] = "commit"
    BY <1>1, <1>3, <1>5
  <2> QED
    BY <2>1, <2>2, <2>3
<1>7. ASSUME NEW i \in 1 .. m + n + 1, i < m + n + 1 PROVE Leaves(s[i]) /\ Needs(s[i + 1])
  <2>1. s[i] \in {"begin", "select", "write"}
    BY <1>1, <1>6, <1>7
  <2>2. s[i + 1] \in {"select", "write", "commit"}
    <3>1. CASE i < m
      BY <1>1, <1>6, <3>1
    <3>2. CASE i >= m /\ i < m + n
      BY <1>1, <1>6, <3>2
    <3>3. CASE i = m + n
      BY <1>6, <3>3
    <3> QED
      BY <1>1, <1>7, <3>1, <3>2, <3>3
  <2> QED
    BY <2>1, <2>2 DEF Leaves, Needs
<1>8. s[1] = "begin" /\ s # <<>>
  BY <1>1, <1>5, <1>6
<1>9. Whole(s)
  BY <1>1, <1>5, <1>6, <1>7, <1>8 DEF Whole, Paired, Leaves, Needs
<1> QED
  BY <1>9 DEF s, qw, c

LEMMA ScriptsWhole ==
    ASSUME NEW c \in {Getter} \cup Insert \cup SetInt64 \cup SetDouble \cup SetString \cup SetBlob
    PROVE  Whole(c.script)
<1> DEFINE ended == <<"begin", "commit">>
           begun == <<"begin", "select">>
           updated == <<"begin", "commit", "begin", "update", "commit">>
<1>1. Whole(Lookup)
  BY DEF Lookup, Whole, Paired, Leaves, Needs, Steps
<1>2. Whole(ended)
  BY DEF Whole, Paired, Leaves, Needs, Steps
<1>3. Whole(updated)
  BY DEF Whole, Paired, Leaves, Needs, Steps
<1>4. Whole(<<"file">>)
  BY DEF Whole, Paired, Leaves, Needs, Steps
<1>5. \A n \in Nat : Whole(InTransaction(n)) /\ Whole(begun \o Writes(n) \o <<"commit">>)
  BY WritesWhole DEF InTransaction
<1> HIDE DEF ended, begun, updated
<1>6. Whole(InTransaction(1)) /\ Whole(InTransaction(2)) /\ Whole(InTransaction(4))
  BY <1>5
<1>7. Whole(Lookup \o ended) /\ Whole(Lookup \o updated)
  BY <1>1, <1>2, <1>3, WholeJoined
<1>8. Whole(Lookup \o ended \o Lookup)
  BY <1>1, <1>7, WholeJoined
<1>9. Whole(Lookup \o ended \o Lookup \o <<"file">>)
  BY <1>4, <1>8, WholeJoined
<1>10. /\ Whole(Lookup \o InTransaction(1)) /\ Whole(Lookup \o InTransaction(2))
       /\ Whole(Lookup \o InTransaction(4))
  BY <1>1, <1>6, WholeJoined
<1>11. /\ Whole(Lookup \o ended \o InTransaction(1)) /\ Whole(Lookup \o ended \o InTransaction(4))
  BY <1>6, <1>7, WholeJoined
<1>12. Whole(Lookup \o ended \o Lookup \o <<"file">> \o InTransaction(4))
  BY <1>6, <1>9, WholeJoined
<1>13. CASE c = Getter
  <2>1. c.script = Lookup
    BY <1>13 DEF Getter
  <2> QED
    BY <2>1, <1>1
<1>14. CASE c \in Insert
  <2>1. c.script = Lookup \o InTransaction(2)
    BY <1>14 DEF Insert
  <2> QED
    BY <2>1, <1>10
<1>15. CASE c \in SetInt64
  <2>1. \/ c = Setter(Lookup \o InTransaction(1), 1)
        \/ c = Setter(Lookup \o ended \o InTransaction(4), 4)
        \/ c = Setter(Lookup \o ended \o Lookup \o <<"file">> \o InTransaction(4), 4)
    BY <1>15 DEF SetInt64, ended
  <2>2. CASE c = Setter(Lookup \o InTransaction(1), 1)
    BY <2>2, <1>10 DEF Setter
  <2>3. CASE c = Setter(Lookup \o ended \o InTransaction(4), 4)
    BY <2>3, <1>11 DEF Setter
  <2>4. CASE c = Setter(Lookup \o ended \o Lookup \o <<"file">> \o InTransaction(4), 4)
    BY <2>4, <1>12 DEF Setter
  <2> QED
    BY <2>1, <2>2, <2>3, <2>4
<1>16. CASE c \in SetDouble
  <2>1. \/ c.script = Lookup \o ended \o InTransaction(1)
        \/ c.script = Lookup \o InTransaction(4)
    BY <1>16 DEF SetDouble, Setter, ended
  <2>2. CASE c.script = Lookup \o ended \o InTransaction(1)
    BY <2>2, <1>11
  <2>3. CASE c.script = Lookup \o InTransaction(4)
    BY <2>3, <1>10
  <2> QED
    BY <2>1, <2>2, <2>3
<1>17. CASE c \in SetString
  <2>1. \/ c.script = Lookup \o updated
        \/ c.script = Lookup \o InTransaction(4)
    BY <1>17 DEF SetString, Setter, updated
  <2>2. CASE c.script = Lookup \o updated
    BY <2>2, <1>7
  <2>3. CASE c.script = Lookup \o InTransaction(4)
    BY <2>3, <1>10
  <2> QED
    BY <2>1, <2>2, <2>3
<1>18. CASE c \in SetBlob
  <2>1. PICK n \in {1, 2, 4} : c = Setter(begun \o Writes(n) \o <<"commit">>, n)
    BY <1>18 DEF SetBlob, begun
  <2>2. c.script = begun \o Writes(n) \o <<"commit">> /\ n \in Nat
    BY <2>1 DEF Setter
  <2> QED
    BY <1>5, <2>2
<1> QED
  BY <1>13, <1>14, <1>15, <1>16, <1>17, <1>18

LEMMA BalancedStep ==
    ASSUME IInv, BalancedInv, [Next]_vars
    PROVE  BalancedInv'
<1> SUFFICES ASSUME broken' \subseteq {"update"}
             PROVE  /\ leaked' = 0 /\ ~lost' /\ outside' = {}
                    /\ script' = <<>> => ~txn'
                    /\ script' # <<>> => Paired(script') /\ (txn' <=> Needs(Head(script')))
  BY DEF BalancedInv
<1>1. ASSUME broken \subseteq broken'
      PROVE  /\ leaked = 0 /\ ~lost /\ outside = {} /\ broken \subseteq {"update"}
             /\ script = <<>> => ~txn
             /\ script # <<>> => Paired(script) /\ (txn <=> Needs(Head(script)))
  BY <1>1 DEF BalancedInv
<1>2. ASSUME script # <<>>, script' = Tail(script), broken \subseteq broken',
             leaked' = leaked, lost' = lost, outside' = outside,
             txn' <=> Leaves(Head(script))
      PROVE  /\ leaked' = 0 /\ ~lost' /\ outside' = {}
             /\ script' = <<>> => ~txn'
             /\ script' # <<>> => Paired(script') /\ (txn' <=> Needs(Head(script')))
  BY <1>1, <1>2, PairedLeft
<1>3. CASE Begin
  <2>1. /\ script # <<>> /\ Head(script) = "begin" /\ script' = Tail(script) /\ broken' = broken
        /\ lost' = lost /\ outside' = outside /\ txn'
        /\ leaked' = IF txn THEN leaked + 1 ELSE leaked
    BY <1>3 DEF Begin, At, Advance
  <2>2. ~txn
    BY <1>1, <2>1 DEF Needs
  <2> QED
    BY <1>2, <2>1, <2>2 DEF Leaves
<1>4. CASE Commit \/ Rollback
  <2>1. /\ script # <<>> /\ Head(script) \in {"commit", "rollback"} /\ script' = Tail(script)
        /\ broken' = broken /\ lost' = lost /\ outside' = outside /\ ~txn'
        /\ leaked' = IF txn THEN leaked ELSE leaked + 1
    BY <1>4 DEF Commit, Rollback, End, At, Advance
  <2>2. txn
    BY <1>1, <2>1 DEF Needs
  <2> QED
    BY <1>2, <2>1, <2>2 DEF Leaves
<1>5. CASE Select
  <2>1. /\ script # <<>> /\ Head(script) = "select" /\ script' = Tail(script)
        /\ broken' = broken /\ lost' = lost /\ outside' = outside /\ txn' = txn /\ leaked' = leaked
    BY <1>5 DEF Select, At, Advance, connection
  <2>2. txn
    BY <1>1, <2>1 DEF Needs
  <2> QED
    BY <1>2, <2>1, <2>2 DEF Leaves
<1>6. CASE RunWrite
  <2>1. /\ script # <<>> /\ Head(script) \in {"write", "update"} /\ script' = Tail(script)
        /\ broken' = broken /\ lost' = lost /\ txn' = txn /\ leaked' = leaked
        /\ txn => outside' = outside
    BY <1>6 DEF RunWrite, AtWrite, At, Advance
  <2>2. txn
    BY <1>1, <2>1 DEF Needs
  <2> QED
    BY <1>2, <2>1, <2>2 DEF Leaves
<1>7. CASE RemoveFile
  <2>1. /\ script # <<>> /\ Head(script) = "file" /\ script' \in {Tail(script), <<>>}
        /\ broken' = broken /\ lost' = lost /\ txn' = txn /\ leaked' = leaked /\ outside' = outside
    BY <1>7 DEF RemoveFile, At, Advance, connection
  <2>2. ~txn
    BY <1>1, <2>1 DEF Needs
  <2>3. CASE script' = <<>>
    BY <1>1, <2>1, <2>2, <2>3
  <2>4. CASE script' = Tail(script)
    BY <1>2, <2>1, <2>2, <2>4 DEF Leaves
  <2> QED
    BY <2>1, <2>3, <2>4
<1>8. CASE SelectFails \/ WriteRefused \/ UpdateWithoutMemory
  <2>1. /\ script # <<>> /\ Head(script) \in {"select", "write", "update"}
        /\ script' \in {<<"rollback", "close">>, <<"rollback">>}
        /\ broken \subseteq broken' /\ lost' = lost /\ txn' = txn /\ leaked' = leaked
        /\ outside' = outside
    BY <1>8 DEF SelectFails, WriteRefused, UpdateWithoutMemory, AtWrite, At, Fault, Cleanup, connection
  <2>2. txn
    BY <1>1, <2>1 DEF Needs
  <2>3. Paired(script') /\ script' # <<>> /\ Head(script') = "rollback"
    <3>1. CASE script' = <<"rollback">>
      BY <3>1 DEF Paired, Leaves, Needs, Steps
    <3>2. CASE script' = <<"rollback", "close">>
      BY <3>2 DEF Paired, Leaves, Needs, Steps
    <3> QED
      BY <2>1, <3>1, <3>2
  <2> QED
    BY <1>1, <2>1, <2>2, <2>3 DEF Needs
<1>9. CASE BeginFails \/ EndFails \/ RolledBack
  <2>1. broken' \cap {"begin", "commit", "rollback", "rolledBack"} # {}
    BY <1>9 DEF BeginFails, EndFails, RolledBack, At, Fault
  <2> QED
    BY <2>1
<1>10. CASE database_open
  <2>1. /\ handle = "none" /\ broken' = broken /\ lost' = lost /\ ~txn' /\ leaked' = 0
        /\ outside' = outside /\ script' \in {Lookup \o <<"check">>, script}
    BY <1>10 DEF database_open
  <2>2. script = <<>>
    BY <2>1 DEF IInv, ControlOK
  <2>3. Whole(Lookup \o <<"check">>)
    <3>1. Whole(Lookup)
      BY DEF Lookup, Whole, Paired, Leaves, Needs, Steps
    <3>2. Whole(<<"check">>)
      BY DEF Whole, Paired, Leaves, Needs, Steps
    <3> QED
      BY <3>1, <3>2, WholeJoined
  <2>4. CASE script' = script
    BY <1>1, <2>1, <2>2, <2>4
  <2>5. CASE script' = Lookup \o <<"check">>
    <3>1. Paired(script') /\ ~Needs(Head(script'))
      BY <2>3, <2>5, StepsLeft DEF Whole, Paired
    <3> QED
      BY <1>1, <2>1, <3>1 DEF Paired
  <2> QED
    BY <2>1, <2>4, <2>5
<1>11. CASE CheckBlobPath
  <2>1. /\ script # <<>> /\ Head(script) = "check" /\ script' \in {<<"close">>, <<>>}
        /\ broken' = broken /\ lost' = lost /\ txn' = txn /\ leaked' = leaked /\ outside' = outside
    BY <1>11 DEF CheckBlobPath, At, connection
  <2>2. ~txn
    BY <1>1, <2>1 DEF Needs
  <2>3. Paired(<<"close">>) /\ Head(<<"close">>) = "close"
    BY DEF Paired, Leaves, Needs, Steps
  <2> QED
    BY <1>1, <2>1, <2>2, <2>3 DEF Needs
<1>12. CASE CloseFailedOpen
  <2>1. /\ script # <<>> /\ Head(script) = "close" /\ script' = Tail(script)
        /\ broken' = broken /\ lost' = (lost \/ leaked > 0) /\ ~txn' /\ leaked' = 0
        /\ outside' = outside
    BY <1>12 DEF CloseFailedOpen, At, Advance
  <2>2. leaked = 0 /\ ~lost /\ outside = {} /\ Paired(script)
    BY <1>1, <2>1
  <2>3. ~lost'
    <3>1. lost' => lost \/ leaked > 0
      BY <1>12 DEF CloseFailedOpen
    <3>2. ~(leaked > 0)
      BY <2>2
    <3> QED
      BY <2>2, <3>1, <3>2
  <2>4. script' # <<>> => Paired(script') /\ ~Needs(Head(script'))
    BY <2>1, <2>2, PairedLeft DEF Leaves
  <2> QED
    BY <2>1, <2>2, <2>3, <2>4
<1>13. CASE database_close
  <2>1. /\ script = <<>> /\ script' = script /\ broken' = broken /\ lost' = lost
        /\ txn' = txn /\ leaked' = leaked /\ outside' = outside
    BY <1>13 DEF database_close, Idle, connection
  <2> QED
    BY <1>1, <2>1
<1>14. CASE SqliteClose
  <2>1. /\ script' = script /\ broken' = broken /\ lost' = lost
        /\ ~txn' /\ leaked' = leaked /\ outside' = outside /\ handle = "closing"
    BY <1>14 DEF SqliteClose
  <2>2. script = <<>>
    BY <2>1 DEF IInv, ControlOK
  <2> QED
    BY <1>1, <2>1, <2>2
<1>15. CASE Call
  <2>1. /\ script = <<>> /\ broken' = broken /\ lost' = lost
        /\ txn' = txn /\ leaked' = leaked /\ outside' = outside
    BY <1>15 DEF Call, Idle, connection
  <2>2. Whole(script')
    BY <1>15, ScriptsWhole DEF Call
  <2>3. Paired(script') /\ ~Needs(Head(script'))
    BY <2>2, StepsLeft DEF Whole, Paired
  <2> QED
    BY <1>1, <2>1, <2>3 DEF Paired
<1>16. CASE UNCHANGED vars
  <2>1. /\ script' = script /\ broken' = broken /\ lost' = lost
        /\ txn' = txn /\ leaked' = leaked /\ outside' = outside
    BY <1>16 DEF vars
  <2> QED
    BY <1>1, <2>1
<1> QED
  BY <1>3, <1>4, <1>5, <1>6, <1>7, <1>8, <1>9, <1>10, <1>11, <1>12, <1>13, <1>14, <1>15, <1>16
     DEF Next, Run, Refusal, Failure, Finished, Hanging

----------------------------------------------------------------------------
\* A call writes nothing it does not put in the file with its last COMMIT, whatever was
\* refused or failed before (database.c, commit(), rollback() and the loops around writes).
THEOREM HandleInvariant == Spec => []IInv
<1>1. IInv /\ [Next]_vars => IInv'
  BY NextKeeps
<1> QED
  BY <1>1, InitHolds, PTL DEF Spec

\* Type correctness: the scripts hold statements the calls have, what is in the file and
\* what the transaction holds are writes of calls that were made.
THEOREM HandleTypeCorrect == Spec => []TypeOK
<1>1. IInv => TypeOK
  BY DEF IInv
<1> QED
  BY <1>1, HandleInvariant, PTL

\* database.h:24-26: the writes of a set are in the file all or not at all, for every number
\* of calls and failures, but for the two ways AllOrNothing names.
THEOREM HandleAllOrNothing == Spec => []AllOrNothing
<1>1. IInv => AllOrNothing
  <2> SUFFICES ASSUME IInv, "rollback" \notin broken, NEW c \in (1 .. MaxCalls) \ outside
               PROVE  WritesOf(c) \cap kept \in {{}, WritesOf(c)}
    BY DEF AllOrNothing
  <2>1. CASE c \in Returned
    <3>1. AllIn(c, kept) \/ NoneIn(c, kept)
      BY <2>1 DEF IInv, ReturnedOK
    <3> QED
      BY <3>1, WritesAll
  <2>2. CASE c > calls
    <3>1. \A i : <<c, i>> \notin kept
      BY <2>2 DEF IInv, AheadOK, TypeOK
    <3> QED
      BY <3>1, WritesAll DEF NoneIn
  <2>3. CASE Running /\ c = calls
    <3>1. NoneIn(c, kept)
      BY <2>3 DEF IInv, ControlOK, Going, Failing
    <3> QED
      BY <3>1, WritesAll
  <2> QED
    BY <2>1, <2>2, <2>3 DEF Returned, IInv, TypeOK
<1> QED
  BY <1>1, HandleInvariant, PTL

\* What a setter reports is what happened to its writes, for every number of calls and failures,
\* but for the exceptions ReportIsTrue names (database.c:66, 2947-2952).
THEOREM HandleReportIsTrue == Spec => []ReportIsTrue
<1>1. IInv => ReportIsTrue
  <2> SUFFICES ASSUME IInv, Idle, broken \cap {"commit", "rollback", "update"} = {},
                      NEW c \in (1 .. calls) \ outside
               PROVE  WritesOf(c) \cap kept = IF history[c].code = "OK" THEN WritesOf(c) ELSE {}
    BY DEF ReportIsTrue
  <2>1. c \in Returned /\ c \in 1 .. MaxCalls
    <3>1. calls \in Nat /\ calls <= MaxCalls
      BY DEF IInv, ControlOK, TypeOK
    <3>2. c \in 1 .. calls /\ c \in 1 .. MaxCalls
      BY <3>1, ConstantsAssumption
    <3> QED
      BY <3>1, <3>2 DEF Returned, Running, Idle
  <2>2. IF history[c].code = "OK" THEN AllIn(c, kept) ELSE NoneIn(c, kept)
    BY <2>1 DEF IInv, ReturnedOK
  <2> QED
    BY <2>1, <2>2, WritesAll
<1> QED
  BY <1>1, HandleInvariant, PTL

\* No failure moves the blob directory of a handle: a directory other than the configured one
\* was stored by a set_string that reported success (database.c:479).
THEOREM HandleBlobPathWasAcknowledged == Spec => []BlobPathWasAcknowledged
<1>1. IInv => BlobPathWasAcknowledged
  BY DEF IInv, ControlOK, PathOK, Returned, TypeOK, BlobPathWasAcknowledged
<1> QED
  BY <1>1, HandleInvariant, PTL

\* Whatever a statement says, the error paths leave no transaction open and no statement behind:
\* each script pairs its BEGINs with its COMMITs, and the cleanup of a failing statement ends the
\* transaction it failed in (database.c, begin(), commit() and rollback()).
THEOREM HandleBalanced == Spec => []Balanced
<1>1. Init => BalancedInv
  BY DEF Init, BalancedInv
<1>2. IInv /\ BalancedInv /\ [Next]_vars => BalancedInv'
  BY BalancedStep
<1>3. BalancedInv => Balanced
  BY DEF BalancedInv, Balanced, Idle
<1> QED
  BY <1>1, <1>2, <1>3, HandleInvariant, PTL DEF Spec
=============================================================================
