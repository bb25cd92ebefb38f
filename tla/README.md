# riak-c-client: models, checks and proofs

This directory is the verification project of the Riak C client: TLA+ modules of
its core, TLC configurations that check them on small instances, and proofs that
TLAPS checks for every value of the constants. Paths below are relative to the
repository (`src/riak.c` is `src/src/riak.c` in `PROJECT.json`).

## The system

A *connection* (`riak_connection`) owns a socket to a Riak server. An *operation*
(`riak_operation`) is one request and its answer: the encoded request, the decoder
for the answer, the user's callbacks, and the state of the frame reader between
two calls. The answer is one frame or several; each frame is a four byte length
and that many bytes, the first a message id. What a user asks for is gathered in
options, objects and bucket properties; what the server answers comes back as a
response that the user reads, prints and frees.

| component | state | operations | interacts with |
|---|---|---|---|
| frame reader, `src/riak.c` `riak_read` | `position`, `msglen`, `msglen_complete`, `msgbuf`, `response`, `error` in the operation | one call: read as many frames as there are bytes | `read_cb` of the transport, the operation's decoder, the user's callbacks |
| synchronous calls, `src/riak.c` | an operation per call, the stream position of the connection | `riak_ping`, `riak_get` ... through `riak_sync_request`, `riak_write` | blocking `read`/`write`, the encoders, the frame reader |
| registration, `src/riak_async.c` | none | set a callback, encode | operations, encoders |
| libevent adapter, `src/adapters/riak_libevent.h` | `riak_libevent`: base, bufferevent, operation | new, send, the read, write and event callbacks, free | libevent's deferred callbacks, the frame reader, the connection's descriptor |
| operations, `src/riak_operation.c` | request, callbacks, decoder, response | new, setters, free | all of the above |
| connections, `src/riak_connection.c`, `src/riak_network.c` | descriptor, names | new, free | the operating system |
| options and encoders, `src/messages/*.c` | flags and values | setters, getters, encode, free | allocator, registration, synchronous calls |
| objects, `src/riak_object.c`; bucket properties, `src/riak_bucketprops.c` | flags, values, lists | setters, getters, lists, copies, compare | allocator, encoders, decoders |
| answers of one message, `src/messages/*.c` | a response | decode, free | frame reader, allocator |
| streaming decoders, `src/messages/riak_{listkeys,listbuckets,mapreduce,2i}.c` | the response grown message by message | decode, free | frame reader, allocator |
| server errors, `src/messages/riak_server_error.c`, `src/riak_error.c` | code and message | decode, callbacks | frame reader, user |
| array, `src/riak_array.c` | block, length, capacity | new, insert, remove, push, pop, get, set, sort, free | allocator |
| printing, `src/riak_print.c` and the `..._print` functions | room left, characters used | init, text, binary, hex, labels | the user's buffer |
| binaries, utilities | bytes owned or shared | copies, `riak_strlcpy`, `riak_free` | allocator |
| configuration, log, build tool | allocators, log functions | set up once, format | everything |

What is hard here: a message arrives in any number of pieces, over any number of
calls, and the reader keeps its place in six variables; reads, writes and
allocations fail in the middle, and what has been built by then must be freed, or
reported, by somebody; a synchronous call reads once and leaves the rest of the
stream to the next; several operations share a libevent base, and a socket has two
owners and a number that belongs to the process; forty setters, written by hand,
each treat a flag, an old value and a failing copy in their own way.

What makes each component correct: the reader hands over the server's frames,
whole and in order, and tells the user once how the operation ended; a call
returns its own answer; a frame that has come is read
while nothing has gone wrong, whoever waits for it; a socket and a bufferevent have
an end each, and so has the loop; the server is asked what the user asked for; a response is
whole or not handed over, its counts agree with its arrays and its free leaves
nothing; the array is a sequence; nothing is printed outside of the buffer.

## Modules

| module | models |
|---|---|
| `FrameDelivery` | what the reader owes the user: the abstract specification |
| `RiakRead` | `riak_read`, one step per call of `read_cb` and one per message |
| `RiakSync` | synchronous calls in sequence on one connection; uses the actions of `RiakRead` |
| `RiakLibevent` | operations on one libevent base, from set-up to take-down |
| `RiakRequests` | options, objects and bucket properties, the encoders and the registration |
| `RiakAnswer` | the decoders of answers of one message, and the frees |
| `RiakStream` | the decoders that put an answer together from several messages, and the frees |
| `ArraySequence` | what `riak_array.h` promises: the abstract specification |
| `RiakArray` | `riak_array.c`, shown to implement it |
| `RiakText` | the printing library and everything printed with it, comparing objects, copying names |
| `...Proof` | the theorems about the module of that name |
| `MC...` | small instances for TLC |

An operator named after another with a suffix (`Filled_FromZero` beside `Filled`)
is a faulty variant of it. `PROJECT.json` pairs each property with one, and the
property fails when the variant takes the operator's place.

### RiakRead

A byte is its offset in the server's stream, and 0 a byte nobody wrote. So
`msgbuf` shows where each of its bytes came from, and a message is the server's
k-th frame exactly when it equals `BodyOf(k)`. Contents matter only through the
decoder's verdict, the *kind* of a frame: `more`, `last`, `error`, `bad` (the
decoder rejects it) and `bad_error` (an error report that cannot be unpacked).
Bytes that are no frame may be of any kind, and four bytes that are no prefix may
spell any length of `ForeignLen`.

| code | model |
|---|---|
| `rop->position`, `->msglen`, `->msglen_complete`, `->msgbuf`, `->response`, `->error` | the variables of these names; `prefix` is `rop->msglen` while it holds the bytes of a split prefix |
| entry, riak.c:421-431 | `Call`, `Enter` |
| header, 434-466 | `ReadHeader`: complete, partial, nothing; the failed `malloc` is a branch of `HeaderComplete` |
| body, 468-478 | `ReadBody`; the assertion leads to `pc = "aborted"`, a write through NULL or past the buffer to `"undefined"` (`WriteOutside`) |
| reset and decoding, 480-525 | `Dispatch...`, one per kind; the receive state is reset before the decoder runs, in all of them |

Two variables record history: `dispatched` counts the frames taken, `calls` is the
list of callbacks made. `Next` is the most general caller of a reader that never
blocks: bytes may arrive between any two reads. `Cuts` says where deliveries may
end and `Faults` what may fail. The branch for an operation with no decoder
(riak.c:491-494) is left out, since every encoder sets one. A decoder that fails
may leave the message's part in a response that was there before, and loses a
response it has just made (`Abandoned`); `DispatchNull` is a NULL record or key that
a decoder follows.

`FrameDelivery` is what the user may rely on: frames are taken one at a time, and
the operation ends once, with the whole answer, with the server's error, or in
silence when a message cannot be understood. `RiakRead` implements it when nothing
fails below it (`DeliversFrames`).

### RiakSync

Each call makes a fresh operation (`Fresh`), writes the request in three parts
(`riak_write`), runs `riak_read` once over the blocking socket and returns the
operation's response, whatever it is. The server hears a request when all of its
parts were sent whole and answers the requests it has heard in order. A write may
be short, fail or return 0; `riak_write` checks only the last. The server may close
at any time: what has arrived can still be read, then `read` returns 0. `Mishaps`
says which of these may happen (`close`, `write_error`), and whether the call's own
allocations may fail (`no_memory`). A process that has not blocked SIGPIPE may also
be killed by a write; the model follows the programs that have. `riak_ping` is the
one call that looks into its response, and crashes when there is none.

### RiakLibevent

The set-up, loop and take-down of `examples/async_example.c` and
`test/cunit/test.c`: every operation has a connection and a bufferevent of its own
on a shared base. libevent (2.0.21, deferred callbacks) is external: it reads from
the sockets, makes a read callback for new bytes and an event callback for the end
of the stream, reads before events, one at a time. No read callback
comes for bytes that were left in the buffer, so what one `riak_read` takes before it
returns decides whether the rest is ever heard of. `RiakRead` does not tell, whose
caller calls again as long as there are bytes; therefore `riak_read` runs step by
step in the callback here too, with frames of three parts: the beginning of the
length prefix, its end, and the message. `consumed` counts the parts taken.

| code | model |
|---|---|
| `riak_libevent_result_cb` up to its `riak_read` | `ResultCb` |
| a message, and round the loop again or out of it with `done_streaming` (riak.c:480-525, riak_libevent.h:136-139) | `Message`: `GoOn` or `Finish` |
| a decoder that fails with done false (riak.c:515), mishap `failed` | `DecoderFails` |
| no memory for the message (riak.c:460), mishap `null` | `NoBuffer` |
| the buffer ends in a frame or with one (riak.c:443, 449, 476), in a prefix: mishap `split` | `ShortRead` |
| what follows a split prefix is misread | `Garbled`, with any of the bytes taken and the operation ended or not |
| a message written through NULL or past its buffer, a decoder that follows NULL | `Crash` |

All of these return with `done_streaming` FALSE but for `Finish`, and
riak_libevent.h:123-128 drops the error (`Leave`). `mishap` is what the last
`riak_read` of an operation has left behind; `failed` goes with the next callback,
which reads the frames that are left, the others stay. A mishap and no more bytes to
come is a state in which the loop waits for ever (`Stopped`). Which operations may
run out of memory (`Failing`), and where deliveries may end (`Cuts`), is each
operation's own. A message that is rejected, and the server's error, end the
operation as the last one does; what a decoder makes of them is `RiakRead`'s.
`bufferevent_free` closes the socket (`BEV_OPT_CLOSE_ON_FREE`) and the memory goes
when the callback that called it returns, so `bufferevent_get_base(bev)` after it is
safe and only later uses are not. `owner` says who has a descriptor number; other
threads of the process may take free ones at any time. Failures inside
`riak_libevent_new` and `riak_libevent_send` are left out: all users of them in the
repository give up.

### RiakRequests

A *slot* is a field of an options structure, an object or bucket properties, or a
part of an element of one of their lists. For each slot there is the flag (`has`),
the value and what the user asked for (`asked`). The setters differ only in
*manner*: when the flag goes up, what becomes of the old copy, whether the user is
told of a failure. `GetSetters` ... `PropsSetters` are the tables of slots and
manners, read off the setters one by one, and `Set` is the one action; `Add` is a
new element of a list. `GetGetters` ... are the getters there are. The encoders
(`EncodeShort`, `Encode`, `EncodeCrash`) make a request of what was passed and set
(`GetRequest` ... `RequestOf`), with the message code, and with what each encoder
leaves behind when it runs short. With `api = "async"` the call is a registration of
`riak_async.c`, which sets the callback first and can be made again, for another
call too (`Begin`). An object may be new or one that was fetched, in which case the
copies of its place may be missing. `lost` is what nobody can free any more. Values
are `v1` and `v2`; a parameter stands for itself, so that one taken for another
shows.

### RiakAnswer

A decoder is a series of allocations computed from the message in the order of the
code (`GetSteps`, `PutSteps`, ...), each with what the code does when it fails. Any
`MaxShort` allocations may fail; the run takes two, since some failures are ignored
and a later one is not. `Decode` takes the series up to the first failure somebody looks at; what
`Undone` says is then freed. `FreeOf` is what each free function frees. `live` names
each block by what it is a part of, so that a block left behind can be told.
Lists have up to two elements, a property list up to two hooks.

### RiakStream

One action per message and way out of its decoder. The list decoders copy the keys
of each message as it comes; map-reduce and index responses keep the unpacked
messages (`_internal`) and get the user's arrays, which point into them, with the
last. A key is `<<message, place>>`, so that a wrong, lost, doubled or dangling
key shows. `live` holds the messages unpacked and not freed; `short` records that
an allocation has failed. `rop->streaming` is set nowhere in the repository and is
FALSE. riak_read goes on after a decoder that failed with `done` false (`NoLink`) if
its caller calls it again, as the event loop does. `FreeResponse` is the user's
call of a `..._response_free`, on a whole answer, on one left by a failure, or, as
synchronous calls hand it over, on an answer cut off by the server. `Protocol` is
the server: terms come instead of keys, and only the last message may be empty.
The contents of map-reduce messages and the continuation of an index answer are
left out. `RiakRead` has the same decoders as kinds: `more` and `last` are the
decoders that succeed, `Abandoned` what the others leave.

### RiakArray

One action per function; `riak_array_resize` is part of those that grow
(`Room`, `Grown`). Three calls leave what the header promises, and are states of
their own: growth without memory frees the block under its owner (`lost`), growing
an array made with capacity 0 doubles 0 for ever (`spinning`), and a position of
2^63 or more, compared as a signed number, passes the check (`stray`).
`riak_array_remove` reads one slot past a full block; what it finds there is any
value. `ArraySequence` is the sequence with these three ends.

### RiakText

A text is a series of *units*, one for each call of the printing library, and a
character is its number in the whole text; so the buffer shows which part of the
text it holds. `GetText` ... `PropsText` are the series of each printing function,
with fields that may be absent and loops that end when there is no room. `Text`,
`Binary`, `Hex` and the labels are the library, with its arithmetic: after a text
that did not fit, `len` is not positive and `riak_print_binary` takes `len - 1` for
an unsigned number. `Compare` runs the checks of `riak_object_compare` in their
order, and prints what differs. `Connect` copies host and port into adjacent arrays
with `riak_strlcpy`.

## Runs

| run | question | bounds |
|---|---|---|
| `riak_read` | does the reader deliver every frame, tell the user how it ended, and implement `FrameDelivery`? does one call that returns ERIAK_OK before the end read all there is (`ReadsAll`)? | 3 frames of 1, 3 and 2 bytes, any of which the decoder may reject; every cut but inside a prefix |
| `riak_read_faults` | what holds when everything fails and prefixes are split? | 2 frames, every cut, both faults, lengths 0, 2, 5 |
| `riak_read_split` | *violated*: a split prefix misplaces the message after it | 2 frames, every cut |
| `riak_sync` | does each call get its own answer, stay in step, free its operation and return? | 3 calls, the last a ping, 4 frames (the second answer has two), cuts after frames and prefixes, every mishap |
| `riak_sync_fetch` | *violated*: `riak_get`'s response is the fetched data (`OkMeansFetched`) | 1 call, its answer cut |
| `riak_libevent` | is there a callback due for what waits in a buffer, is an answering server heard, is a pointer good while sockets and their numbers change hands, and does the loop end? | 2 operations of 3 frames: one may be lost, the other is answered, in pieces of any kind and short of memory; one stranger's socket |
| `riak_requests` | is the server asked what the user asked for (`Heard`, `Matched`), does it read back (`ReadBack`), is nothing left (`FreedWhole`), and is a user safe who sets all that is required (`Guarded`)? | every call, synchronous and not, 2 setters, 2 elements a list, any failing allocations |
| `riak_requests_asked` | *violated*: the flags of a put reach the server (`AsAsked`) | puts, no failures |
| `riak_answer` | is a response whole or not there (`AllOrNothing`, `OkMeansResponse`), and freed whole (`NothingLeft`)? Does a decoder that gives up undo the objects before (`OneObjectLost`)? | up to 2 objects, documents or hooks, any two failing allocations |
| `riak_stream` | are answers whole and in order, their keys backed by memory, and free of leaks? | 3 messages of up to 2 keys or terms, any failing allocations |
| `riak_array` | is the array a sequence? | capacities 0, 1 and 3, up to 4 elements, positions -1 to 4 |
| `riak_text` | is what is printed the beginning of the text, in the buffer? does comparing tell objects apart, and a connection keep its names? | buffers of 1, 2, 5 and 6 characters, 2 texts in one buffer, lists of 2, binaries of 0, 1 and 3; names up to one more than fits |

Why the bounds are enough: the reader's state does not depend on how many frames
came before, and three frames contain the first, a middle and the last one; bodies
of one, two and three bytes contain the message that cannot be cut, and those cut
once and twice. `UInt32Size` is 64 in the runs: what matters is that a wrapped
counter is larger than every length. Three calls contain one after a good answer and
one after an answer that was left half read. Two operations contain one that
outlives another's loss, and one that waits for ever after a mishap while the other
is lost; sockets are made before the loop only, so a third
would add a number nobody is given. Three frames of three parts contain one that is
followed by others in the buffer, one that has others before and after it, and every
place at which a read may end. Slots do not depend on each other but through the
operation, so two setters contain a slot set twice, two different ones and a failure
on either side of a success; two elements contain the array that is made and the one
that is made longer. Two objects contain the one that fails and one that was whole
before it. Three messages contain a first, a grown and a last one, and two keys the
order inside a message. Four elements grow an array of one slot twice and one of
three once. Two texts contain one that meets a full buffer; a buffer of one
character has no room at all, one of two room for one character, and five and six
differ in whether a hexadecimal digit pair ends with the buffer.

What the violations say (`findings` in `PROJECT.json` has the lines): a prefix that
is split over two deliveries shifts everything behind it; a synchronous call takes
a message that comes in two pieces for the end; `if_none_match` and
`if_not_modified` of a put reach the server as 0.

## What else the models show of the code

These are in the actions or in the exceptions that properties name, each where the
code has it. They are not separate runs.

- A failing read adds -1 to `position`; later reads may trip the assertion of
  `src/riak.c:478` (`pc = "aborted"` in `RiakRead`).
- `riak_read` may return before the end with complete frames in the buffer: when a
  decoder fails with done false (`src/riak.c:515`, as `riak_listkeys.c:131-147`
  does), when there is no memory for the message (`src/riak.c:460`), and after a
  prefix that was split (`src/riak.c:447`). `riak_libevent_result_cb` ignores the
  error, no callback comes for what is left, and the loop waits for bytes the server
  has no reason to send (the last case of `Stopped` in `RiakLibevent`); should some
  come after all, the message without a buffer is written through NULL (`Crash`).
- `riak_libevent_connection_cb` frees the bufferevent and leaves `rev->bevent`, so
  that the take-down of a lost operation frees it twice (`riak_libevent.h:62,204`;
  `PointerValid` leaves out operations whose connection may be lost). A finished
  operation's socket is closed by the bufferevent and again by
  `riak_connection_free` (`riak_connection.c:82`), by when the number may be
  another thread's.
- `riak_libevent_connection_cb` takes its argument for the connection
  (`riak_libevent.h:45`), but is registered with the `riak_libevent` (`:192`). It is
  used for logging only, so this is in no model.
- A map-reduce answer cut off by the server has a count before it has an array, and
  its free follows NULL (`riak_mapreduce.c:171`; `CompleteFreeable` speaks of
  complete ones). An index answer with terms is reported as out of memory
  (`riak_2i.c:189`; `IndexDecode`).
- What `Deaf` lists in `RiakRequests`: all options of an asynchronous delete, and
  the bucket type of an index query when options without a type are given. A reset
  of bucket properties takes bucket and type for each other and has the code of a
  set (`ResetRequest`); hooks and functions of bucket properties are sent from
  memory that was never initialised (`EncodeCrash`).
- What `FreedWhole` and `NothingLeft` leave out: the vector clock of put options,
  the messages made for functions of bucket properties, and the unpacked message of
  a bucket properties response, which nobody frees.
- `riak_get_bucketprops_response_decode` returns ERIAK_OK without a response when it
  runs short or the server leaves out a function (`OkMeansResponse`). A get does not
  look at the copies of an object's bucket, type and key (`AllOrNothing`).
- `riak_object_compare` does not look at the bucket type, and follows a NULL when
  both objects lack a charset, a content type or an encoding (`CompareTells`); the
  documentation at `include/riak_object.h:65` speaks of equality.
- A binary printed with no room left is written past the buffer (`bare` in
  `RiakText`; list keys, list buckets and comparing print that way). A name that
  fills its array gets its NUL one past it (`riak_utils.c:40`; `NamesWhole` speaks
  of the others and of the last array).

## Fairness

`RiakRead`: the server sends its answer, a callback is made while bytes are there,
and `riak_read`, which never waits in an event loop, goes on. `RiakSync`: the server
sends what it owes as long as it has not closed; the program's next step is taken
when the system call it is in can return. `RiakLibevent`: weak fairness of each
operation's callback and of the `riak_read` in it, which never waits (libevent runs
every active callback before it polls again), and of the program; a server answers
only if it is in `Answering`. Nothing is assumed of closing, losing or failing. The
other modules are functions of one thread that return or do not; they state no
liveness and assume no fairness.

## Proofs

Assumptions on constants are the named ASSUMEs of each module, which the runs
evaluate; a theorem that needs more says so.

`RiakReadProof`, for all numbers and sizes of frames, cuts and lengths:

| theorem | says | assumes |
|---|---|---|
| `TypeCorrect` | `TypeOK` | nothing: any cut, any fault |
| `AnswersOnce` | `OneOutcome` | nothing |
| `CallsReadAll` | `ReadsAll` | no failing read; any cut, failing allocations |
| `KeepsPlace` | `Cursor` | `Uncut`: no cut in a prefix, no failing read |
| `FramesIntact`, `Resumes` | `FrameIntegrity`, `ResumePoint` | `Uncut` |
| `TellsUser` | `Told` | `Sound`: `Uncut`, no failing allocation, both callbacks registered |
| `AnswersWhole`, `ReportsOutcome` | `AnswerWhole`, `OutcomeReported` | `Sound` |
| `Refines` | every step is a step of `FrameDelivery` or a stutter | `Exact`: `Sound`, no faults, and error reports that unpack |

Neither `FrameIntegrity` nor `ResumePoint` is inductive: each speaks of one point of
the code. `Cursor` says of every point where the stream stands and what the buffer
holds, as functions of the frames taken and of `position`; with `TypeOK` it is
inductive, and both follow. `Told` is the same for the user's side: what has been
said so far in every state, and the four ways in which an operation ends. It uses
`Cursor` to know that the message decoded is the server's, not a foreign one, whose
kind could be anything. `AnswersOnce` needs neither: it rests on `Silent`, that no
callback is made before the end and none after it, which holds for any bytes.
`CallsReadAll` rests on `Asking`: `riak_read` never asks for no bytes of a prefix,
so that one that comes back short means an empty buffer. The hypotheses are where
the code needs them: without `Uncut`, the run `riak_read_split` shows the property
false.

The other proofs assume nothing beyond the constants' types, but for two theorems of
`RiakSyncProof`:

| module | theorem | says | the invariant behind it |
|---|---|---|---|
| `RiakSyncProof` | `TypeCorrect` | `TypeOK`, for any calls and mishaps | itself, with the reader's `TypeOK`; what the reader does to a message needs nothing of the connection |
| | `InStep`, `OwnAnswers` | `InSync`, `AnswersMatch`, if `Whole`: no read fails, and a delivery ends after frames or after prefixes | `Placed`: where the stream stands, relative to the frames that are decoded, at every point of a call and between calls |
| | `OperationsAreFreed` | `OperationsFreed`, for any number of calls and mishaps | `Counted`: one operation more than failed calls during a call, none more between calls; riak_read returns none of the codes of those calls |
| `RiakRequestsProof` | `TypeCorrect` | `TypeOK`, for any numbers of setters, elements and failing allocations | `Shape`: which slots there are, and that a list has room for its elements |
| | `ReadsBack` | `ReadBack` | `Kept`: for each slot, what the flag, the value and what was asked have to do with each other (`SlotKept`) |
| | `IsHeard` | `Heard`, for every call | `Kept`: a request is made of the slots that are set, so it says what was asked, or the call is deaf to it |
| | `IsMatched` | `Matched` | `Ready`: a request that is there before the call was encoded is another's, and a synchronous call has no callback |
| | `IsGuarded` | `Guarded` | `Kept`: a user's value is not NULL unless memory failed |
| | `FreesWhole` | `FreedWhole` | `Left`: what is lost at each stage when nothing failed and nothing was done again |
| `RiakLibeventProof` | `TypeCorrect` | `TypeOK` | itself; the lowest free number exists because the numbers are finite |
| | `Wakeups` | `NoLostWakeup`, for any number of operations, cuts and failures | with `Fresh`, nothing comes for an operation that is not set up, and `Serving`, `riak_read` runs in the loop, for a bufferevent that is live: so no bytes come while it runs, and those it was called for are taken when it returns, or it has a mishap |
| | `PointersValid` | `PointerValid` | `Phases` and `Apart`: nothing is closed while connections are made, so their numbers differ, and nothing is opened for them later; `Kept`: only a server that may close ends a stream |
| `RiakStreamProof` | `NothingIsLeft`, `KeysAreBacked`, `CompleteIsFreeable` | `NothingLeft`, `KeysBacked`, `CompleteFreeable`, for any messages | `Balanced`: a response keeps messages that are there, all of them when memory sufficed; `Keyed`: which decoder has keys when, and whose they are |
| | `TypeCorrect`, `AnswersAreWhole` | `TypeOK`, `WholeAnswer`, for any messages the server may send | with `Proper`, `Chained` and `Listed`: only the last message may be empty, the messages kept are all of them, in order, while memory sufficed, and a list has the keys of those it has seen |
| `RiakAnswerProof` | `TypeCorrect`, `HandedWhole`, `OkHasResponse`, `LeavesNothing`, `LosesOneObject`, `IsGuarded` | `TypeOK`, `AllOrNothing`, `OkMeansResponse`, `NothingLeft`, `OneObjectLost`, `Guarded`, for any messages, however many allocations fail | themselves (`AInv`), with what memory can be there; what the series of every kind have in common (`WellMade`) |
| `RiakArrayProof` | `TypeCorrect`, `HoldsGiven` | `TypeOK`, `Given` | `Given` with `TypeOK`: no slot in use holds NULL or what lies behind the block |
| | `Implements` | `IsSequence`, the whole refinement | the same; each call mapped to the call of the sequence |
| `RiakTextProof` | `TextShown` | `Shown` | `Fits`: while there is room, all that was printed is there and the NUL stands where the next character goes |
| | `NamesAreWhole` | `NamesWhole`, for arrays of any size | `Named`: what is stored came from the two copies, which leave each other's characters alone (`StoredFacts`) |
| | `ComparingTells` | `CompareTells`, for any objects with a bucket and a value | `Judged`: the verdict is that on the objects; each series of checks is `Fair` to what it compares |
| | `TypeCorrect` | `TypeOK` | with `Written`: what is left of a text is a series of units |

Two theorems of `RiakSyncProof` assume `Whole`. A failing read moves the place in
the stream, and a delivery that ends in the middle of a body or of a prefix leaves
the rest to the next call: `riak_sync_fetch` shows what a call then returns.
`riak_sync` runs with cuts of this kind. `Placed` is the reader's `Cursor` made
relative to a connection that stays while operations come and go: between calls
nothing is left of the answers heard (`Quiet`), unless the server has gone in the
middle of one, and during a call the response is the part of this call's answer
whose frames were decoded (`Following`). In `RiakRequestsProof` the tables of
slots and manners are gone through once, in lemmas about them (`SlotFacts`,
`NothingToSet`, `PlainCalls`); the rest of the proof speaks of any slot of any manner.

`AnswersAreWhole` is about sums, a walk and a concatenation over as many messages as
there are. The induction theorems of the library take an operator and cannot be
used; `Induct` states induction over the naturals for a set instead and follows
from the theorem that every set of numbers has a least one (`WFMin`). From it
comes that a recursive function is what its equation says (`Recursion`, `SumsFacts`,
`VisitedFacts`, `FlattenFacts`). A thing's `At` is its message and its place in it:
the i-th thing of a concatenation is the one at `At` (`FlattenAt`), the walk over an
index answer goes from one `At` to the next as long as only the last message may be
empty (`WalkPlaces`), and there is one `At` for each number (`PlaceUnique`); so the
walk copies what `KeysOf` lists. This is where `Proper`, what the decoder relies on
the server for, is needed.

In `RiakAnswerProof` the work is in the series, which are concatenations of as many
parts as the message has elements. `FlattenIn` is induction over such a
concatenation, from the least number of parts for which a claim would fail. With it
`WellMade` is found part by part: every block is one that the free of the response
gets at (`Owned`), a failure is ignored only where an object's place is copied or
where a function the server left out ends the series (`PropSeqs`), the blocks of a
get or put come object after object (`Sorted`), and no step that follows NULL
depends on the message alone (`Regular`). The properties follow from `WellMade` and
from where decoding stops (`StopFacts`): that what came before is freed needs the
order, that what was made is whole needs that nothing else is ignored.

`ComparingTells` is about a chain of checks, in which the first that finds something
ends the comparison, so what a check must not be asked depends on those before it: a
link's bucket is looked at in both only because its flags were found the same. A
series of checks is `Fair` if it finds nothing only in equal things, a difference
only in different ones, and comes upon NULL first only where that is said;
`FairCat` puts two together, the second asked only when the first found nothing, and
`FairAll` those of a list's elements, by the same induction over a concatenation.
The assumption on `Pairs` is that an object has a bucket and a value, and a pair its
key, as those that came from an answer or can be put do.

Model-checked only: liveness (`EveryFrameTaken`, the fairness part of
`DeliversFrames`, `EveryCallReturns`, `Answered`, `LoopEnds`), which is out of the
prover's reach. Every invariant that a passing run checks is a theorem. `Guarded` of `RiakAnswer`, that no
message alone makes a decoder follow NULL, is proved only.

## Not modelled

Logging (formats a line, keeps no state), setting up the configuration (once,
before anything else), name resolution and connect(2) (I/O), the message of a server
error for people, the build tool, `riak_strlcat` (nobody calls it), the accessors of
responses (they only read), and the command lines of the examples. Of the
streaming decoders the continuation of an index answer and the contents of
map-reduce messages. Of the adapter the failures at set-up, after which every user
of it in the repository gives up. The `hazards` of `PROJECT.json` list what is known
to be at risk in the code and which property is about it.

## What could come next

The composition of `RiakStream` with `RiakRead`, so that a decoder's response is
freed in the middle of a delivery.
