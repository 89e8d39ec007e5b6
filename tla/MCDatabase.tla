----------------------------- MODULE MCDatabase -----------------------------
(* Instances of Database for TLC: the requests of each run, and symmetry. *)
EXTENDS Database, TLC

CONSTANTS k1, k2, d1, d2, p1, p2, h1, h2

\* Every key has a file of its own.
OwnFiles == k1 :> p1 @@ k2 :> p2
OneFile == k1 :> p1

Sets(keys, types, data) == [op : {"set"}, key : keys, type : types, val : data]
Gets(keys, types) == [op : {"get"}, key : keys, type : types, val : {d1}]
Queries(key) == [op : {"get_type", "enum_keys"}, key : {key}, type : {"Int64"}, val : {d1}]

\* One client: every function, two keys.
AllRequests == Sets(Keys, Types, Data) \cup Gets(Keys, Types) \cup Queries(k1)

\* Clients that change the type of one key under each other.
RetypeRequests == Sets({k1}, {"Int64", "Double", "Blob"}, {d1})

\* Setters that retype a key, and readers of it.
ReadWriteRequests ==
    Sets({k1}, {"Int64", "Double", "Blob"}, {d1, d2}) \cup Gets({k1}, {"Int64", "Blob"}) \cup Queries(k1)

\* A string that is written twice.
StringRequests == Sets({k1}, {"String"}, {d1, d2})

Handlewise == Permutations(Handles)
=============================================================================
