# A verification project for "the registry"

The registry (`src/`) is a small hierarchical key-value store in C.  A client
links `libregistry` (`registry/registry.c`), packs each call into a packet
(`communication/bpack.c`), sends it through a chain of channels
(`communication/channel-*.c`) to a server (`server/server.c`), and the server
runs it against an SQLite file and a directory of blob files
(`server/database.c`).  The whole chain runs inside the client's process and
thread.  Concurrency comes from several processes that have the same database
file open, and from what remains on disk when one of them dies.

This directory holds TLA+ modules that model the code, TLC configurations that
check them on small instances, and TLAPS proofs about them.  `PROJECT.json`
lists the runs, the source lines each definition stands for, the hazards and the
findings.

## Inventory

| Component | State it keeps | Operations | Hard behaviour | What makes it correct |
|---|---|---|---|---|
| Database (`server/database.c`, `sql/`) | tables KeyInfo and ValueInt64/Double/String/Blob, the blob directory, SQLite's locks, locals of each running call | four getters, four setters, `get_type`, `enum_keys` | a call is a chain of SQL statements and file operations; other processes run between them; every step can fail; a process can die; write statements and COMMIT are retried for ever | the store is kept clean (`database.h:24-35`), a call is atomic, a successful set is stored, a failed one changes nothing, every call returns |
| Database open/close | the handle: connection and blob-path; the connection's transaction and unfinalized statements | `database_open`, `database_close`, `begin`, `commit`, `rollback` | the results of `begin`, `commit` and `rollback` are not looked at; a failed one leaves a transaction or a statement behind; close waits for leaked statements; the query for blob-path ignores the domain | error paths leave nothing behind, a set is all or nothing, close ends |
| Server (`server/server.c`) | one database handle | `server_init`, `server_process`, `server_shutdown` | error after a partly built response, shutdown inside process | one response for each request, of the request's kind |
| Channel with server | one response slot | client write/read, server write, free | a full slot refuses every write, also of the one client that could empty it (`registry.c:289` then spins); second shutdown | no response is lost or mixed up |
| HMAC channel | the next channel, the key | read and write in both directions | a stage that rejects what it reads | what passes is what was sent |
| Endpoint connector | one slot for each direction | client and server read/write | a slot left full after an error | request and response stay in step |
| Registry client (`registry/registry.c`) | a channel | ten calls, `registry_open`, `registry_close` | busy retry, translation of error codes | the code returned is the documented one |
| bpack, memory buffer | byte buffer with one position | pack, unpack, append, read | short buffers, signed and large lengths, doubles at the ends of the exponent, no memory in the middle of an item | unpack after pack is the identity, a piece of a packet is refused, what was unpacked is freed once |
| memory.c | none | `requestMemory`, `editMemory`, `freeMemory` | the caller's pointer survives `freeMemory` | each piece is freed once |
| SHA-1, HMAC | none shared | | | the standard's values |
| examples, build files | | | | callers only |

Calls go down the chain and results come back as return values; the only shared
state between processes is the SQLite file and the blob directory, and the only
callbacks are the function pointers of `channel_t`.  Four parts carry the hard
logic, and each has a model of its own: the database, where processes
interleave; one handle of it from open to close, where results that nobody looks
at pile up; the path of a call from `registry.c` through the channels to
`server_process` and back, where failures and unread responses can put calls out
of step; and the bytes of one packet from `bpack` to `bunpack`.

## Modules

| Module | What it is |
|---|---|
| `Database` | `database.c` statement by statement, for any number of handles |
| `KeyValueStore` | the abstract specification: every call acts on the rows at one instant or not at all; what the calls do, in one answer not what the header says (see below) |
| `DatabaseStore` | the refinement mapping from `Database` to `KeyValueStore`, with one history variable, and the invariant it rests on |
| `MCDatabase`, `MCDatabaseStore` | the instances for TLC: requests and symmetry |
| `DatabaseProofs` | the inductive invariant and the theorems about `Database`, for TLAPS |
| `DatabaseStoreProofs` | the refinement's invariant and the proof that `Database` implements `KeyValueStore` |
| `DatabaseSingleProofs` | the theorems about a `Database` with one handle |
| `Server` | the packets, and what `server_process` makes of a request and of the database's outcome |
| `Channels` | the chain of channels: HMAC stages, endpoint connector, channel with server |
| `Registry` | `registry.c` over the chain: open, close, the ten calls, a caller of `registry_get_channel`; the properties |
| `MCRegistry` | the instance of `Registry` and `RegistryRemote` for TLC: the identifiers `registry_open` is called with |
| `RegistryProofs` | the inductive invariant and the theorems about `Registry`, for TLAPS |
| `RemoteCall` | the abstract specification of `Registry`: what the library promises its caller |
| `RegistryRemote` | the refinement mapping from `Registry` to `RemoteCall` |
| `RegistryRemoteProofs` | the proof of that refinement, for TLAPS |
| `DatabaseHandle` | one handle of `database.c` from `database_open` to `database_close`: transactions and statements as the connection sees them |
| `DatabaseHandleProofs` | the inductive invariants and the theorems about `DatabaseHandle`, for TLAPS |
| `Bpack` | the wire format: what one item of a format string is in bytes, and the byte buffer |
| `Packets` | one packet from the side that packs it to the side that unpacks it, and the rest of `server_process` |
| `MCPackets` | the instance for TLC: values and formats |
| `BpackProofs` | what `bunpack` makes of one item `bpack` wrote, of a piece of it and of any bytes, for TLAPS |
| `PacketsProofs` | the inductive invariants of `Packets`, of its heap and of its bytes, and the theorems, for TLAPS |

`Registry` EXTENDS `Channels`, which EXTENDS `Server`: one program in one thread.
The database below it is an outcome chosen freely (`DatabaseOutcomes`), which
includes everything `Database` can return.  `Packets` EXTENDS `Bpack` and looks
inside the step that `Registry` takes as one, packing a message on one side and
unpacking it on the other.  `DatabaseHandle` looks at the calls of `Database`
from the connection's side: the same statements in the same order, without what
the rows say, with the failures of BEGIN, COMMIT and ROLLBACK that `Database`
has as an outcome only.

### How `Database` corresponds to the code

*State.*  `db` is the content of the SQLite file: the KeyInfo rows, the rows of
the four Value tables (tagged with the table's name) and AUTOINCREMENT's
counter.  `dirty` is what the transaction that holds RESERVED sees.  `lock` is
SQLite's lock of each handle, `files` the blob directory.  Of each running call
there are the next statement (`pc`), the arguments (`req`), the locals that
survive a statement (`row`: id and datatype of the row the first SELECT found,
path of the blob file) and the result (`res`).

*A scalar setter* (`SetInt64`, `SetDouble`, `SetString`) is
`lookup -> looked`, where its transaction ends, and then by what it found:
`insertKey -> insertValue -> commit` (no row), `update -> commit` (same type) or
`deleteValue -> deleteKey -> insertKey -> insertValue -> commit` (another type).
Between `looked` and the last branch `set_int64` runs `removeReferencedBlobFile`
(`findFile -> foundFile -> unlink`) if the key was a blob.  `set_double` and
`set_string` call that function too, but inside the branch where the datatype is
already their own, so it never runs.

*`set_blob`* writes the file first (`openFile -> checkFile -> writeFile`), then
goes through the same statements inside one transaction that its SELECT begins.

*A getter* is `select -> selected`; `get_blob` reads the file after that
(`readFile`).

*Faults.*  `StatementFails` is any prepare, bind, step, reset or finalize that
fails; `OutOfMemory` any `requestMemory`; `FileFails` and `RemoveFails` the file
operations; `CommitFails` a COMMIT that ends with an error other than BUSY, which no caller
looks at; `Kill` the death of the process.  The error path of each is part of
its action: rollback, removal of the file by `set_blob`, the code returned.
Undefined behaviour is a choice of outcomes: the second `free` of `path` in
`set_blob` and the `free` of the caller's pointer in `get_blob` may end the
process (`ABORTED`) or not.

*SQLite and libc are external* and modelled from how the code uses them: SHARED,
RESERVED and PENDING of a rollback-journal database with deferred transactions,
UNIQUE and PRIMARY KEY constraints, no foreign keys (the pragma is set only by the
connection that runs `database-init.sql`), rollback when a process dies, POSIX
files that stay writable through an open descriptor after they were removed.

*`KeyValueStore`* says what the calls do to the rows.  It takes over one answer of the
code that is not the header's: a getter of a key that holds a value of another type
says NO_SUCH_KEY (`Looked`, `Look`), because its SELECT joins KeyInfo with its own
Value table (`database.c:851, 1697, 2546, 3404`).  `database.h:168-169, 207-208,
246-247, 286-287` have ERROR_DATABASE_TYPE_MISMATCH for that; the code would return it
after a look at `sqlite3_column_type` (`900, 1746, 2595, 3453`), which never sees such a
row.  So the refinement shows that the calls are atomic, not that this answer is the
documented one; run `DatabaseMismatch` shows that it is not.

### How `Server`, `Channels` and `Registry` correspond to the code

*State.*  `chain` holds the keys of the HMAC stages an open registry built,
`slot` is `client_data` of the channel with server (S), `conn` the two buffers of
the endpoint connector (C), `server` the `server_t` that S points to.  Of the
running call there are the next step (`pc`), the stage whose turn it is (`at`),
the message in its hands (`buf`), who called with which request (`call`) and the
code returned (`result`).  Two parts of `call`, `executed` and `outcome`, and the
variable `owed` are history: how often the database ran for this call, what it
said, and whether the response in S's slot belongs to a write that has returned.

*The path.*  Over S alone a write is `serve -> reply -> wrote` and a read is
`take -> read`.  With stages, a write goes down through `ch_client_write_bytes`
of each (`sign`) into C (`connect`), which reads its own buffer back (`fetch`)
and sends the message up the same stages in their server role (`verify`) before S
serves it.  A read takes the response from S (`take`), writes it down
the stages in their server role (`signBack`) into C (`store`), takes it out
(`collect`) and lets the stages check it on the way to the caller (`verifyBack`).

*Registry.*  `Invoke` is a call up to its first write.  `Written` and `ReadDone` are the
two `while(... == ERROR_CHANNEL_BUSY);` loops, `Unpack` the rest, with
`ErrorCode` for the translation of codes.  `DirectWrite` and `DirectRead` are a
caller that uses the channel of `registry_get_channel`, the only way to send a
shutdown packet and the only way to leave a response unread.

*Faults.*  Each `...Fails` is an allocation that fails in that part of the code, with the
codes its caller sees: `WriteFails` has the rule that a stage turns every failure
of its child into UNKNOWN, BUSY included.  Undefined behaviour is a choice: a
double or uninitialised free, and the use of the server after a shutdown packet
freed it, end the process (`aborted`) or go on as the action's other disjuncts say.

### How `RegistryRemote` maps `Registry` to `RemoteCall`

`RemoteCall` knows whether the handle is open and its server up, the running
call with how often it ran and with what outcome, the response nobody has read,
and the last answer.  Its actions are `Open`, `Close`, `BeginSome`, `Execute` (the
one instant a request runs), `Shutdown`, and the ways a call ends: `Answer` (it
reports its run), `GiveUp` (UNKNOWN), `WriteReturns` and `ReadReturns` for the two
direct operations of `channel_t`, and `Crash`.  Buffers, stages, digests, BUSY
loops and the translation of codes are left to `Registry`.

A call of the library returns with its last step, a direct write or read when the
topmost channel has returned (`Returned`).  The abstract `unread` is the response
in S's slot while it is owed, and stays what it is while a reader carries it up
the chain (`Unread`).  An aborted process is `Crash`.  After a shutdown packet the
code uses freed memory, so that `RemoteCall` promises only that no call
succeeds.

### How `DatabaseHandle` corresponds to the code

*State.*  `handle` is where the handle is between open and close, `script` what the
running call has still to do: its `begin()`, SELECT, writes, `commit()`, removal of
a blob's file, in the order of the branch it took (`SetInt64`, `SetDouble`,
`SetString`, `SetBlob`, `Insert`, `Getter`).  `txn` is SQLite's autocommit flag
inverted, `leaked` the statements of the connection that nobody will finalize, `dirty`
and `kept` the writes in the open transaction and in the file.  `history`, `outside`
and `broken` are history variables: what each call set out to write and reported,
which calls wrote outside a transaction, what SQLite failed at.

*begin, commit, rollback* return without `sqlite3_finalize` when their step fails,
and no caller looks at what they return: BEGIN inside a transaction and COMMIT outside
one are refused and leaked (`Begin`, `End`).  `BeginFails` and `EndFails` are SQLite's own
failures; a COMMIT or ROLLBACK that fails may have rolled back all the same.

*A failing statement* ends its call with `rollback()` (`SelectFails`, `WriteRefused`);
`database_open` then closes the connection without looking at the result
(`CloseFailedOpen`; `lost` if SQLite refused).  A write that SQLite answered by
rolling the transaction back is stepped again by its loop, now in autocommit
mode, where it commits alone (`RolledBack`, `RunWrite`).  `UpdateWithoutMemory`
is `set_string` without memory for its UPDATE, which returns OK
(`database.c:2947-2952`).

*Open and close.*  `database_open` is everything before its transaction; its query
is `Select`, which takes the value of key `blob-path` of any domain, although
`database.h:17-18` wants domain NULL; `CheckBlobPath` is stat and the test for an absolute
directory.  The code does not look at the rows of DataTypes, which
`database.h:12-14` names, nor at UNIQUE(domain, key), which the setters rely on.
`SqliteClose` is the loop in `database_close`, `Hanging` the same loop when a
statement is left.

### How `Bpack` and `Packets` correspond to the code

*Bpack.*  `WriteByte`, `Readable` and `Ahead` are the memory buffer with its one position,
`Packed` and `Unpacked` what one character of a format string makes `bpack` and
`bunpack` do, in either byte order.  The sizes of bytes, integers, exponents and
mantissas are constants, so that TLC meets both ends of each.  frexp, ldexp and malloc
are external: `Rounded` is rounding to even of what does not fit, `Representable` where ldexp sets
errno, `MaxAlloc` the most bytes malloc has.  `Values` are the values an item's C type
has: a string needs a byte more than its characters, for its NUL.  Powers and sums over
bytes are recursive functions, so that `BpackProofs` can reason about them.

*Packets.*  `step` is the next thing done with one message: `stamp` (the packet
type's byte), `pack`, `send`, `type`, `unpack`, and on the server `response` and `value`.
Each side has its own format strings: `RequestFormat` and `ClientFormat` are
those of `registry.c`, `ServerFormat` and `ResponseFormat` those of `server.c`.  `server_process` unpacks
`ss` before it looks at the type and the value after that; a client takes an error packet or
the type it expects; `enum_keys` reads the list of keys only if their number is
positive.  `ComposeOwn` is an application that uses bpack by itself, with any
format.  `Cut` and `Change` are a writer that has the channel from `registry_get_channel` and
sends a piece of a packet or other bytes.  `PackFails`, `ReceiveFails`, `UnpackFails` and
`DispatchFails` are allocations that fail.

*Heap.*  `heap` follows the memory of `domain`, `key` and `value` in `server_process`.
`memory.c:12` says `freeMemory` sets the pointer to NULL; it clears only its copy
(`memory.c:23`), so that a pointer freed twice is freed twice.

### Abstractions of `Registry`

- A packet is its type and its fields.  Domain and key are left out: no step
  between client and database looks at them.  `Packets` has the bytes.
- A digest is the key it was made with.  Nothing between two stages changes a
  message, so whether a digest fits depends on keys and order alone.
- What the database does is one step with a free outcome; `Database` has the steps.
- Nothing promises what a channel does after a shutdown packet; the use of the
  freed server ends the process or gives an error, so that no property says more.
- Identifiers are lists of parts, not strings.
- Arguments that are NULL are left out, as in `Database`.
- Freeing the chain is part of `registry_close` and `OpenFails`.

### Abstractions of `Database`

- The pair (domain, key) is one value; `enum_keys` returns all keys, as a
  pattern only selects among them.
- Integers, doubles, strings and blob contents are values of one set `Data`.
- Truncation, writing and closing of a blob file are two steps, with `Torn` as
  the content in between and of a file that two writers left mixed.
- `BEGIN` takes no lock and is not a step; nor is the second `COMMIT; BEGIN` some
  setters run right after the first.
- `get_blob`'s stat, open and read of the file are one step.
- A `while(42)` loop that retries a statement is that statement being not
  enabled, so spinning is stuttering.  A statement that SQLite refuses for ever
  keeps the lock it took (`InsertKeyRefused`).
- The arguments are never NULL or empty, as `database.h:42-53` demands, nor is a double
  NaN: the checks for that return before anything happens (`database.c:1788` for
  `set_double`) and are left out.  So the NOT NULL of the Value tables, which SQLite
  would hold against a NaN, never refuses a row.
- Ids are naturals: their cut to 32 bits needs 2^31 keys.

### Abstractions of `DatabaseHandle`

- One connection; other handles are BUSY, which is one of the results of a
  failing SELECT, or a wait of a write.
- What the rows say: a call takes any branch its lookup may lead to, so that the
  scripts are those of every row.  A write is its number within its call.
- The row `sql/database-init.sql` makes for `blob-path` stays as it is; of other paths there is an
  absolute directory and anything else.
- The ten column checks of `database_open` are one outcome (`badColumn`).
- A leaked statement is a number; it holds no lock, as its step has failed.
- Processes that die are `Database`'s.

### Abstractions of `Packets` and `Bpack`

- One packet per behaviour: two have no state in common but the channel's, which
  `Registry` has.
- The codes of a reader are `bunpack`'s; `registry.c` and `server.c` report UNKNOWN for them.
- A double is its class, sign, mantissa and exponent.  NaN has no sign once it is
  sent, as `bpack.c` says.
- At most one allocation fails, and at most one byte is changed.
- The call of `database.c` is a success or a refusal (`Serve`).

## Properties

Of `Database`:

- `KeyHasValue`: every committed key has a value row of its type.  It holds for
  any number of handles although retyping takes four statements.
- `KeptClean`: `database.h:28-30`, the same and no second row under that id.
  Holds for one client; with two it does not (`DatabaseOrphan`).
- `BlobRowHasFile`: between calls, each blob row's file is there and whole.  Holds without
  faults; one failing query breaks it (`DatabaseBlobLost`).
- `Int64LeavesNoFile`: `database.h:31`, when a blob's row goes its file goes.  True of
  `set_int64`.  `set_double` and `set_string` leave the file: their call of
  `removeReferencedBlobFile` stands in the branch where the datatype already is Double
  (`database.c:2081-2089`) or String (`2936-2944`), under a test for Blob that can
  not hold there, and not in the branch that deletes the row (`2181`); `DeletesFile`
  says so in the model, and no property is stated of these two.
- `MismatchIsTold`: a getter says NO_SUCH_KEY only if there is no such key.  Broken by all
  four getters, which say it of a key of another type too (`DatabaseMismatch`).
- `AcknowledgedSetIsStored`: when a setter reports success its value is stored.
  Holds without faults; `set_string` breaks it when memory runs out
  (`DatabaseStringLost`).
- `MissingFileIsIgnored`: `database.h:34-35`.  Broken by `set_int64` once a blob's file
  is missing (`DatabaseStuckKey`).
- `KeysPersist`: no step removes a key or gives it another id, which is why a
  stale lookup can never touch another key's rows.
- `CallsReturn`, `CallsReturnUnlessWedged`: every call returns; with several
  handles there are two ways to spin for ever and no third: an INSERT that a UNIQUE or
  PRIMARY KEY constraint refuses for good, and `set_blob`'s upgrade from SHARED to RESERVED.
- `ImplementsKeyValueStore`: every call takes effect on the rows at one instant
  between its start and its return.  `SetOverwritten` in the abstract
  specification is the one allowance for a successful setter that changes
  nothing, and it asks that another call changed the key meanwhile.

Of `Registry`:

- `SlotsInStep`: between calls C's buffers are empty and S's slot is full exactly
  if a direct write was not followed by a read.  No failure half way leaves a
  response that a later call would take for its own.
- `AnswerIsGenuine`: a registry call that reports anything but UNKNOWN ran exactly
  once and reports what the database said of this run of it.
- `AtMostOnce`: the BUSY loops never run a request twice; what was refused as BUSY has
  not run.
- `AnswerArrives`: without faults, unread responses and shutdown, a value or
  NO_SUCH_KEY from the database reaches the caller: no stage rejects what another
  wrote, and client and server agree on the packets.
- `OwedResponseKept`: an unread response is never overwritten.
- `CallsReturnUnlessOwed`: every call returns, except a registry call over S alone
  while a response is owed: it spins on BUSY and nobody else can read.  With a stage in
  between, the same call returns UNKNOWN, because stages hide BUSY.
- `ImplementsRemoteCall`: the whole chain is, to its caller, one remote call after
  the other.  Each runs at most once, at one instant between its start and its
  return, and returns what that run said or UNKNOWN; an unread response is
  handed to the next reader or reported lost, never overwritten and never taken
  for the answer of another call.  It relates the calls to each other, which the
  properties above do one at a time.
- `InvalidStateIffDatabaseInvalid`: `registry.h:6-8`.  Broken: the getters,
  `enum_keys` and `key_get_value_type` report UNKNOWN (`RegistryInvalidState`).

Of `DatabaseHandle`, each with the exceptions it needs and no others:

- `Balanced`: whatever a statement of a call says, its error path leaves no
  transaction, no statement and no connection behind.  Only SQLite's own
  failures of BEGIN, COMMIT or ROLLBACK, or a transaction it rolled back by
  itself, can do that.
- `AllOrNothing`: `database.h:24-26`.  The writes of a set are in the file all or
  not at all, unless it ran one of them in autocommit mode or a ROLLBACK failed:
  then the next call's BEGIN is refused and its COMMIT takes half a set with it.  A
  COMMIT that fails can not break it, whatever later calls do.
- `ReportIsTrue`: after a success all writes of a set are in the file, after an
  error none.  A COMMIT or ROLLBACK that fails decides otherwise through the
  next call, and `set_string` without memory for its UPDATE reports a success
  that is none (`DatabaseStringLost`).
- `BlobPathWasAcknowledged`: no failure moves the blob directory.  Another one than the
  configured one comes from a `set_string` that reported success, of whatever
  domain.
- `ReturnsUnlessLeaked`: every call returns, `database_close` among them, unless SQLite
  failed and a statement was leaked.

Of `Packets`:

- `RoundTrip`: what one side packed is what the other unpacks, to the last byte:
  all types, both byte orders, both formats of each packet, negative and extreme
  integers, subnormal and largest doubles.  A format with another character is refused by both
  (`bpack.h:24, 73, 103`).
- `CutIsNoticed`: a packet that ends early is never taken for a whole one, also if it
  ends between two items, and each target that was set has the value that was
  packed (`bpack.h:119-120`).
- `OnlyPackedIsAccepted`: there is one way to pack a value.  Of any bytes at all, those that
  `bunpack` accepts are those `bpack` writes for the value it returns, except a string
  with a NUL inside and a double too small to keep all its bits.
- `FreedOnce`: `server_process` frees what was unpacked exactly once, but for the string or
  blob of a set the database refuses (`server.c:166`) and a domain whose `ss` failed when there
  is no memory for the response (`server.c:72`).

## Runs

| Run | Instance | Result |
|---|---|---|
| `DatabaseSingle` | 1 handle, 2 keys, 2 values, 3 calls, every function; also the invariant of `DatabaseSingleProofs` | passes, 24,644 states |
| `DatabaseShared` | 2 handles, 1 key, 3 types, 4 calls, 1 fault of any kind, 1 killed process | passes, 76,381 states |
| `DatabaseRefines` | 2 handles, 1 key, 2 values, 3 calls, 1 fault (no failing COMMIT), 1 killed process; also the invariant of `DatabaseStoreProofs` | passes, 176,110 states (up to symmetry) |
| `DatabaseOrphan` | 2 handles, 4 calls, no faults | `KeptClean` violated |
| `DatabaseBlobLost` | 1 handle, 1 failing statement | `BlobRowHasFile` violated |
| `DatabaseStringLost` | 1 handle, memory runs out once | `AcknowledgedSetIsStored` violated |
| `DatabaseStuckKey` | 1 handle, killed once | `MissingFileIsIgnored` violated |
| `DatabaseMismatch` | 1 handle, 2 calls, no faults | `MismatchIsTold` violated |
| `RegistryCalls` | chains of 0 to 2 stages (equal to, different from and without a key), every refused kind of identifier, 2 values, 4 calls, 1 fault; also the refinement to `RemoteCall` | passes, 308,238 states |
| `RegistryInvalidState` | the same chains, 2 calls, no faults | `InvalidStateIffDatabaseInvalid` violated |
| `DatabaseHandle` | every branch of every call, 2 calls, 2 opens, 2 failures of SQLite | passes, 371,233 states |
| `Packets` | bytes of 5 bits, integers of 2 bytes, mantissas of 2 bits, exponents from -2 to 3; 5 integers, 11 doubles, 3 strings, 3 blobs, 5 formats; cut anywhere, one byte changed to one of 7 | passes, 134,311 states |

*Why these bounds.*  A key goes through its whole life in three calls: created,
retyped, and read or retyped again, and two keys are enough to see one call disturb the other's
rows or file.  The races need two handles in the middle of a setter on one
key after that key was created, which takes three calls; the fourth lets a
later call meet what the race left behind.  A single fault or death is enough to
leave a half-done call; a second one would meet the same states again.

In `RegistryCalls` four calls are an open, a first call that fails or leaves its
response, a second that meets what it left, and a close or a read that follows.  Two
stages with different keys are the smallest chain in which the order of digests
matters; an unkeyed one shows that a message without a digest passes.  Two values
tell one call's answer from another's.

In `DatabaseHandle` two calls are one that fails and one that meets what it left; two opens
let the second one read the `blob-path` the first one's calls left; two failures let one
leave a transaction and the other spoil its end.  The theorems have no such bounds.

In `Packets` an integer of two bytes has a low and a high one, so that byte order and
sign matter; a mantissa of two bits has numbers that round down, up and to even; `MaxAlloc`
lies below the lengths that a changed byte or a negative number makes.  The changed
bytes are those the format tells apart: the flags of a double, NUL, the largest, and lengths
below and above the real ones.

*Fairness* of `Database` is weak fairness of each handle's `Step`: the thread that made the
call keeps running it.  It is enough because a step that becomes possible for a
handle, a lock that is free, stays possible until someone else takes the lock,
and the number of calls is bounded by `MaxCalls`, so that no endless stream of
other clients' calls can starve it.  SQLite promises nothing about such a
stream, so without the bound `CallsReturn` would not be claimed.  No fault, no
death and no new call is fair.  For `Registry` it is weak fairness of `Run`: the
one thread that made the call keeps running; for `DatabaseHandle` weak fairness of
`Run \/ Refusal`, for the same reason: its statement succeeds or is refused.  That a
BUSY write is answered in the end is part of this, as other handles are not in
that module; `Database` has the ones that never are.  `Packets` states no liveness.

*Deadlock* is checked in the runs of one handle, where `Finished` is the only
state without a call.  In the runs of two handles it is switched off because the code
really gets stuck, with the two wedges of `CallsReturnUnlessWedged`.  In the
runs of the registry it is checked; `Finished` is the end of the calls or of the process.
It is checked in `DatabaseHandle` (`Finished`; `Hanging` is the loop that never ends) and in
`Packets` (`Done`).

The failing COMMIT is left out of `DatabaseRefines`: no setter looks at the result of
`commit()`, so a failed one is a successful call that changes nothing.

## Proofs

`DatabaseProofs` proves for every set of handles, keys, values and paths, every
`PathOf` and every bound, from `ConstantsAssumption` alone:

| Theorem | Statement |
|---|---|
| `InvariantHolds` | `Spec => []IInv` |
| `TypeCorrect` | `Spec => []TypeOK` |
| `KeysHaveValues` | `Spec => []KeyHasValue` |
| `OneWriter` | `Spec => []SingleWriter` |
| `KeysNeverLost` | `Spec => KeysPersist` |

`KeyHasValue` is not inductive: a COMMIT makes `dirty` the database, so `dirty`
has to be complete by then.  `IInv` adds what that takes: there is one writer
(`SingleWriter`); ids and keys are unique (`Keyed`); a setter writes exactly in
the labels of a transaction (`ControlOK`); the id it looked up is its key's id
in the committed tables (`LookupOK`); and what `dirty` still misses is what the
next statement will insert (`DirtyOK`).  `LookupOK` is where the absence of
damage from stale lookups comes from: other transactions may change the key's
datatype but, by the last part of `DirtyOK`, never its id.

A step of one handle leaves the others' locals alone, so lemma `StepKeeps`
reduces each step that does not commit to the invariant of the handle that takes
it; there is a lemma for each action, and `CommitKeeps` treats the steps that change `db`.
TLC checks `IInv` in `DatabaseShared` as well.

`DatabaseStoreProofs` proves, from the same assumption and
`DatabaseStore`'s `AbsentAssumption`:

| Theorem | Statement |
|---|---|
| `StoreInvariantHolds` | `HistorySpec => []StoreInv` |
| `StoreForgetsOnlyByFault` | `HistorySpec => OnlyFaultsForget` |
| `StoreImplemented` | `HistorySpec => ImplementsKeyValueStore`, if COMMIT does not fail, and either there is always memory or nobody sets a string |

A setter looks its key up in one transaction and acts on what it saw in another, so
the refinement has to say what it saw.  `StoreInv` adds to `IInv`: the datatype a setter
looked up is still that of its key, or the call was overtaken (`SeenOK`); until its first
write its transaction sees what is committed, and then differs from it in the rows of one
key and one id (`WritingOK`, `ChangeOK`); and at the COMMIT
the store changes by the setter's value and nothing else, or not at all because the call
was overtaken and wrote to the row of a type the key no longer has (`EffectOK`).  An id is
never used twice (`SeqAbove`), so that such a leftover row is never
found again by another key.  Every step is then a stutter, the start of a call, its one
effect, or its return, with one lemma for each action.

The hypotheses of `StoreImplemented` are the two faults after which the code reports success
and has stored nothing: `commit()`'s result is not looked at, and `set_string` returns
the OK of its lookup if there is no memory for the UPDATE (`Forgets`).
`StoreForgetsOnlyByFault` has no hypothesis: on every instance, the steps that no abstract
step allows are exactly such a fault's.  No other fault, death or order of steps comes
between the program and the abstract store.

`DatabaseSingleProofs` proves what is only true of one handle (`OneHandle`), for all keys and
values and any number of calls:

| Theorem | Statement | Also assumes |
|---|---|---|
| `SingleInvariantHolds` | `Spec => []SingleInv` | |
| `SingleKeepsClean` | `Spec => []KeptClean` | |
| `SingleInt64LeavesNoFile` | `Spec => Int64LeavesNoFile` | unlink does not fail |
| `SingleSetIsStored` | `Spec => AcknowledgedSetIsStored` | the two faults of `Forgets` do not occur |
| `SingleBlobsHaveFiles` | `Spec => []BlobRowHasFile` | no fault, no death, and no two keys share a path |

The first two need no hypothesis about faults: whatever statement fails and wherever the process dies, the tables
of a single client stay clean.  `SingleInv` says that the committed tables have no second row
of a key (`CleanTables`), that what the handle looked up is true (`SeenTrue`), that its
transaction's tables are clean again when it may commit (`DirtyClean`), and that what it has
done to the file is what its statement presumes (`FileWritten`, `FileGone`,
`Retyping`).  `SingleBlobsHaveFiles` adds `FilesKept`: every blob row's file is whole but for the
one in hand, which exists from the write of the file to the COMMIT and from the removal of the
file to the COMMIT of the retyping.  Each hypothesis excludes a counterexample: a failing query or a death
loses the file of a row that stays (`DatabaseBlobLost`, `DatabaseStuckKey`), and two keys with one path
overwrite each other's blob (`database.c:3604`).

`RegistryProofs` proves for every set of keys, values and identifiers, chains of
any length and every bound, from `Registry`'s `ConstantsAssumption` alone:

| Theorem | Statement |
|---|---|
| `RegistryInvariant` | `Spec => []IInv` |
| `RegistrySlotsInStep` | `Spec => []SlotsInStep` |
| `RegistryAnswerIsGenuine` | `Spec => []AnswerIsGenuine` |
| `RegistryAtMostOnce` | `Spec => []AtMostOnce` |
| `RegistryAnswerArrives` | `Spec => []AnswerArrives` |
| `RegistryOwedResponseKept` | `Spec => OwedResponseKept` |

The properties speak of the time between calls, so `IInv` says what holds at each
step within one.  The message on its way (`Hand`, wherever it is) is the call's
own request or its response (`HandOK`, `AnswerOK`) and carries the digests of the
stages it passed, last one last (`DigestsOK`), which is why no stage rejects it,
however long the chain.  C's buffers are full at one step each (`ConnectorOK`), S's slot only
while its response is owed or about to be read (`SlotOK`), and a call that is
still on its way down has not run (`ExecutedOK`), which is why it may be sent
again.  `ArrivalOK` adds that without faults nothing else ends a call.

Most steps end in one of a few ways, and each has a lemma: `MoveKeeps` (the
message goes on), `WriteFailureKeeps` and `ReadFailureKeeps` (the call ends with a
code), `ResponseKeeps` (the server has an answer), `SendKeeps`, `ReceiveKeeps`,
`FinishKeeps` and `IdleKeeps`.  The lemma of an action shows which one it is.

`RegistryRemoteProofs` proves from the same assumption:

| Theorem | Statement |
|---|---|
| `ResponseBelongs` | `Spec => [](IInv /\ ResponseOK)` |
| `RegistryImplementsRemoteCall` | `Spec => ImplementsRemoteCall` |

`IInv` says where a response is, the refinement also needs whose it is:
`ResponseOK` says that a response on its way is the one of the running call's
single run or an error packet of the server.  The initial state maps to the
initial state (`InitMaps`), and one lemma for each action says which abstract step it
is and that it keeps `ResponseOK`; most are stutters (`Stutters`).

`DatabaseHandleProofs` proves for any number of calls, opens and failures, from
`DatabaseHandle`'s `ConstantsAssumption`:

| Theorem | Statement |
|---|---|
| `HandleInvariant` | `Spec => []IInv` |
| `HandleTypeCorrect` | `Spec => []TypeOK` |
| `HandleAllOrNothing` | `Spec => []AllOrNothing` |
| `HandleReportIsTrue` | `Spec => []ReportIsTrue` |
| `HandleBlobPathWasAcknowledged` | `Spec => []BlobPathWasAcknowledged` |
| `HandleBalanced` | `Spec => []Balanced` |

A running call is `Going`, and then what is left of its script ends in its writes
and the one COMMIT after them (`RestOf`), so that what it has written is what is
missing there; or it is `Failing`, with only its ROLLBACK left and without its last write.  A
transaction belongs to the running call unless a COMMIT or ROLLBACK failed
(`ConnectionOK`), and each call that returned has all of its writes or none in the file
and in the transaction, unless one of the named failures happened (`ReturnedOK`); the
weaker promise for a path it refused, that its last write is nowhere, survives
all failures and gives `BlobPathWasAcknowledged`.

`Balanced` has an invariant of its own.  In each script every step leaves the
transaction, open or not, as the next one needs it (`Paired`); `ScriptsWhole` shows
this of every branch from the parts it is joined of, and `BalancedInv` that without
failures the connection is in the mode that the head of the script needs.

`BpackProofs` proves for bytes, integers, exponents and mantissas of any size, from
`SizesAssumption` alone:

| Theorem | Statement |
|---|---|
| `ItemRoundTrip` | in a buffer that goes on with `Packed(item, val, little)`, `Unpacked` gives `val` and this length |
| `ItemOnlyPacked` | the bytes `Unpacked` accepts are `Packed` of the value it gives, with the two exceptions of `Loses` |
| `ItemCut` | in a buffer that ends within `Packed(item, val, little)`, `Unpacked` gives an error |

`SizesAssumption` asks for bytes of at least four bits (the flags of a double), a mantissa
that fits into an integer, exponents that fit into theirs, and no memory for a length that
an integer does not hold: the code's 8, 64, 16, 52 and `size_t`.

What the bytes of an integer are and what they sum to is defined by recursion on their
number.  Such proofs need induction, and the library's theorems for it take an operator;
`Induction` replaces them by a set: a set of naturals that has 0 and with each number
the next is `Nat`, because a least number outside it would have a predecessor.
`Recursion` makes of this that a recursive function has the values its equation says.
`DecodeEncode` and `EncodeDecode` then say that bytes and numbers determine each other (from
`EuclidUnique`, that there is one quotient and remainder), `SignedDecode` and
`SignedEncode` the same of two's complement.  A double's bits are kept because `Rounded`
leaves a multiple of its unit alone (`RoundedExact`), and this is what makes every
`Double` survive, subnormal ones included.

`PacketsProofs` proves for any values, format strings and bytes on the channel, from
`SizesAssumption`, `ValuesAssumption` (the values are ones their C types have),
`TypesAssumption` (a packet type fits into a byte) and `NoiseAssumption`:

| Theorem | Statement |
|---|---|
| `PacketsInvariant` | `Spec => []IInv` |
| `PacketsFreedOnce` | `Spec => []FreedOnce` |
| `PacketsTypeCorrect` | `Spec => []TypeOK` |
| `PacketsRoundTrip` | `Spec => []RoundTrip` |
| `PacketsCutIsNoticed` | `Spec => []CutIsNoticed` |
| `PacketsOnlyPacked` | `Spec => OnlyPackedIsAccepted` |

`IInv` says that, at each step of the server, exactly the strings and blobs
unpacked so far are held, and which part of the format is left.  It needs nothing of what the
bytes say, which is why it holds of every message.

The other properties speak of the end, so `PInv` follows writer and reader
there.  `Walk(message)` is the writer's whole way: the items, the byte order and the bytes
after each character of the format.  While packing, the buffer is the walk's up to some
character (`PackedTo`); on the channel are its bytes or the first of them
(`Arrives`); while unpacking, the reader has come to a character of the same
walk (`Reached`), with that much of its own format left (`Left`) and the values
sent so far (`GotSent`).  `Reached` is where the formats of `registry.c` and `server.c`
have to agree, though the server reads `ss` and the value in two calls and
`enum_keys` its list only if there is one (`ComposedOK` for what is packed, `ReadsFormat` for what
is read).  With each item either the rest of the bytes begins with it and `ItemRoundTrip` applies, or
they end within it and `ItemCut` does.  TLC checks the same properties in run `Packets`.

Every invariant, action property and refinement of a passing run is a theorem, for `Database`
with the hypotheses its tables name, which are also the constants of those runs.
Only model-checked are the liveness properties, `CallsReturn`, `CallsReturnUnlessWedged`,
`CallsReturnUnlessOwed` and `ReturnsUnlessLeaked`: they need fairness and ENABLED, which this prover
does not reason about.  The statements of documentation that the code breaks have a
counterexample instead.

## Plan

Done: `Database` with its abstract specification and refinement; `Server`, `Channels`,
`Registry` and their refinement to `RemoteCall`; `DatabaseHandle`; `Bpack` and `Packets`; and
the proofs above.  Left:

1. That `Packets` implements what `Registry` takes for granted: a message arrives as its
   fields or is refused.  `PacketsRoundTrip` and `PacketsCutIsNoticed` are its two halves.
2. Blob contents with two clients, once a document says what they may see.

## Not modelled

- SHA-1 and HMAC: arithmetic on blocks without state that other parts share; test
  vectors say more about it than a model.  What the protocol does with a digest is
  `Channels`'.
- `requestMemory` and `editMemory`: malloc and realloc, whose failure is a fault of
  each module that calls them.  `freeMemory` is in `Packets`.
- `examples/`, the build files and headers without code: callers and
  declarations.
- Arguments that are NULL or empty and a NaN given to `set_double`, which return
  before anything happens.
