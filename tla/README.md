# qapi-rs in TLA+

A formal model of [qapi-rs](../src/README.md), a Rust client for QEMU's QAPI
sockets (QMP and the Guest Agent protocol), with TLC runs on small instances
and TLAPS proofs for every instance. Line numbers below refer to the sources
under `src/`; `mod.rs`, `tokio.rs` and `codec.rs` are the files of
`qapi/src/futures/`.

## 1. Inventory

### The asynchronous client (`qapi/src/futures/`)

| component | state | operations | interacts with |
|---|---|---|---|
| `QapiService` (mod.rs 110-204) | `id_counter`, the async mutex around the sink | `execute`, `guest_sync`, `Drop` -> `stop` | the map in `QapiShared`, the socket's write half |
| `QapiShared` (mod.rs 206-275) | `commands` (std mutex: `pending`, `abandoned`), atomics `stop` and `abandoned`, `stop_waker` | `command_insert`, `command_remove`, `stop`, `is_stopped`, `poll_next` | shared by the service, every `execute` future and the events |
| `QapiEvents` (mod.rs 277-409) | the decoded stream, `Arc<QapiShared>` | `release`, `into_future`, `spawn`, `spawn_tokio`, poll as `Future`, poll as `Stream`, `Drop` | reads the socket, answers the oneshot of each call |
| `QapiStream`, `QmpStreamNegotiation` (mod.rs 31-98) | a service and its events | `execute` (select over the call and the events), `into_parts`, `spawn_tokio`, `negotiate_caps` | both of the above |
| `JsonLinesCodec` (codec.rs) | `next_index` into the read buffer | `decode`, `decode_eof`, `encode` | driven by tokio-util's `Framed` |
| transports (tokio.rs) | the framed halves | `open_split` (greeting, then a change of codec), `negotiate`, constructors | codec, service, events |
| tower adapter (tower.rs) | none | `poll_ready`, `call` | forwards to `execute` |

What is hard here. Calls run in any number of tasks and meet the receiving task
in the map, in the sink lock, and in three flags, of which two are relaxed
atomics read outside the mutex. A future can be dropped at each of its awaits.
The receiving task may be asleep when it is told to stop, may not have been
polled yet when the service goes away, or may die with calls in flight. The
socket holds a waker only after a read that found it empty. What makes it
correct: each call gets the answer to itself or an error, never another's
answer and never nothing; the receiving task never sleeps through work or
through `stop`; dropping either half ends or disconnects the other as
documented by its examples; a panic under the mutex needs a cause.

### The synchronous client (`qapi/src/lib.rs`)

`Qapi<S>` keeps a stream and one line buffer (`decode_line`, `encode_line`,
`write_command`). `Qmp<S>` adds the queue of events met while waiting for an
answer (`read_response`, `nop`, `handshake`, `execute`, `events`); `Qga<S>` adds
`guest_sync`. Hard: I/O errors and time-outs between the steps of one call leave
the stream out of step with the caller, and a new client of the Guest Agent
inherits a channel with stale answers in it. Correctness: without faults each call
gets its own answer, and again after a sync with a fresh value; events come out
in order, once, and those sent before an answer are queued when it returns.

### Wire types (`spec/`, `qmp/`, `qga/`)

`Response` (untagged choice of `Err`/`Ok`), `Error`/`ErrorClass`, `Execute` with
an optional id, `Enum` lookup; `QmpMessage`, `QapiCapabilities`, events with
timestamps; `GuestExecStatus::result`. Pure data; the generated commands and
types come from the schema.

### Code generation (`parser/`, `codegen/`, build scripts)

The parser strips comments and yields one schema object at a time
(`Parser::next`), and `QemuRepo`/`QemuFileRepo` keep a stack of include contexts
that a `Drop` pops. The generator follows includes once per file, and emits
types, unions and the event enumeration. Hard: nested and repeated includes with
one shared list of pending ones, cycles, where the text is cut at the place of a
JSON error, end of input inside an object, and a union's discriminator, which is
looked up in its base struct and later removed from it. Correctness: every file
is read, relative to the one that includes it; no item is skipped; the generated
types have on the wire the members the schema gives them.

### The rest

The example programs are clients of the library: how they use it is part of the
environment below. Packaging and CI hold no program logic.

`PROJECT.json` lists every component with its status, and under `hazards` each
place where this code can go wrong in a way a test hardly reaches.

## 2. Modules

| module | what it is |
|---|---|
| `QapiFutures` | service, shared state, receiving side, socket and server; invariants, inductive invariants, fairness |
| `QapiCalls` | the abstract promise of the asynchronous client |
| `MCQapiFutures` | instances for TLC, the refinement mapping onto `QapiCalls` |
| `QapiFuturesProofs` | TLAPS proofs about `QapiFutures`: types, wake-ups, shutdown, serialisation; whose answer a call gets, why the loop fails; that it implements `QapiCalls` |
| `JsonLines` | `JsonLinesCodec` under the `Framed` loop, and the change of codec after the greeting |
| `MCJsonLines` | all streams of bounded length |
| `JsonLinesProofs` | TLAPS proofs about `JsonLines` |
| `StreamLemmas` | lemmas about taking, adding and losing lines of a stream |
| `QapiSession` | a connection before its halves part: greeting, negotiation, `QapiStream::execute` |
| `QapiSessionProofs` | TLAPS proofs about `QapiSession` |
| `SyncClient` | the blocking client, its stream and a server |
| `SyncClientProofs` | TLAPS proofs about `SyncClient` |
| `SchemaParser`, `MCSchemaParser` | comment stripping and the iterator over schema items; all small files |
| `SchemaParserProofs` | TLAPS proofs about `SchemaParser` |
| `SchemaIncludes`, `MCSchemaIncludes` | `include()` over the stack of contexts; all small graphs of files |
| `SchemaIncludesProofs` | TLAPS proofs about `SchemaIncludes` |
| `SchemaCodegen` | what is generated from the items |
| `SchemaWire`, `MCSchemaCodegen` | the generated types on the wire against the schema; schemas around two unions |
| `SchemaCodegenProofs` | TLAPS proofs about `SchemaCodegen` |

`QapiFutures` rests on `JsonLines` for what a poll of the socket means, and begins where
`QapiSession` ends (`Part`); `SchemaIncludes` takes the items of a file as `SchemaParser`
gives them, and `SchemaCodegen` takes the items of all files in the order
`SchemaIncludes` reads them.

### 2.1 QapiFutures

A step ends where another thread or task can notice: at an await, at the
release of the std mutex, and around each access to an atomic that is read
outside that mutex. What stands for what:

| in the code | in the model |
|---|---|
| `QapiService` and its `Drop` | `svc`: `held`, then inside `stop()` `waking` (flag set, waker not yet called) and `marking` (`commands.abandoned` not yet set), `dropped` |
| `id_counter`, truncated to `u32` | `nextId`, `CommandId` with `% IdModulus` |
| async mutex around the sink | `writeLock`; any waiter may get it next |
| one `execute` future | `pc[c]`: `new` -> `created` (method called, id taken) -> `sending` (lock held, inserted) -> `flushing` -> `waiting` -> an outcome |
| the oneshot channel | `Live(c)` (receiver exists) and `got[c]` (whose answer was sent) |
| `QapiSharedCommands` | `pending`, `abandoned`; `poisoned` for the std mutex |
| `QapiShared.stop`, `.abandoned`, `.stop_waker` | `stop`, `released`, `stopWaker` |
| `QapiEvents`, polled | `ev`: `held`, `spawned`, one poll as `check` -> `read` -> `register` -> `recheck`, then `idle`; `dropping`, `gone` |
| the task's wake flag | `woken`; the socket's waker is `armed` |
| write buffer, server, read side | `outbuf`, `requests`/`answered`, `inbox`, `eof`, `errored` |

`CommandInsert` joins the acquisition of the sink with `command_insert`: no await
lies between them. `PollReadReply` joins `command_remove` with the send on the
oneshot channel: the only other party, the receiver, can observe nothing in between. The
relaxed atomics are single steps, and interleave: `stop` is written before
`AtomicWaker::wake` and read again after `AtomicWaker::register`, and these two
synchronise with one another, which is what the protocol in `poll_next` relies
on; `abandoned` is read and written only with the mutex held.

Panics are modelled. `command_insert` panics after it has replaced the earlier
sender and with the mutex held, so the map is poisoned; every later `unwrap()` of
that mutex panics. A second panic while unwinding aborts the process: this is so
for the events (their destructor locks the map too) and possible for a call whose
task also owns the service, hence `aborted' \in {FALSE, svc = "held"}`.

External parts, modelled from how `src/` uses them: tokio-util's `Framed` (writes
its buffer in order, `None` after an error; `send` waits before encoding only for
what earlier calls left in the buffer), the executor (polls a task that is woken),
the server (answers each command it got, at any time and in any order, echoing
the id), the owner of the two halves. `Faults` says what may go wrong: dropped
futures, failing writes, events, undecodable lines, responses nobody asked for, a closed
connection, an aborted task. `Uses` says how the events are driven: spawned, or
iterated by the owner, as `tokio_qmp_query.rs` and `tokio_qmp_events.rs` do.

`inbox` holds decoded messages, and reading one is a step of `PollRead...`; that
a poll which finds nothing to decode has really asked the socket, so that its
waker is armed, is `NoBufferedLine` of `JsonLines`.

### 2.2 QapiCalls

What a caller may rely on, in four variables: each call ends once, with the
server's answer to that very call or with an error; an answer reaches only a call
that registered while the client was open; "disconnected" is reported only by a
closed client; a closed client never reopens. It also says what the client does
not promise: a call that ended early leaves its registration behind, and that may
break the client (`Break`). `MCQapiFutures!KeepsPromise` is the refinement.

### 2.3 JsonLines

`priv_decode` and `priv_decode_eof` with `next_index`, one action per outcome, under
`FramedImpl::poll_next`'s read state (`readable`, `eof`, `errored`). `SwitchCodec` is
`open_split`: after one greeting the buffer moves into a new codec and a new
`Framed`, which is readable at once if the buffer is not empty. Bytes are abstract
and `Valid` says which lines parse in which phase.

### 2.4 QapiSession

One task, and so one program counter `pc`: `opening` and `negotiation` are `open_split` and the
time until `negotiate_caps`, `call` and `events` are the two halves of one poll of
`execute()`'s `select_biased!`. Between two polls the task is `asleep`, or `scheduled`: the future is new, the socket
woke it, or, after `EventsIgnore` and `EventsReply`, `QapiEvents` woke its own task, as it does after each
message. In both places the program may drop the future (`Cancel`), in the second with the answer perhaps in the
channel already; `Resume` is the next poll. `stage` is the future of the
call inside it. `unsent` is the write buffer of `Framed`: the command of a call that was given up while it was sending stays
there, and `CallSend` of a later call writes it first. `Return` drops the future of the call; its entry in
`pending` stays, as nothing in the code removes it. An answer may report an error of the server (`refused`); if
negotiation gets one, or fails otherwise, the stream is dropped (`failed`).
`Capability` is what serde makes of a string in the greeting (section 6).

### 2.5 SyncClient

| in the code | in the model |
|---|---|
| `encode_line` | `WriteCommand`; `WriteFails` at any point of it; `WriteShort`, where `write` takes none of the newline |
| what a failed write left on the current line | `outline`, glued to the next command |
| `decode_line`, which clears its buffer first | `TakeLine`; `ReadFails`, after which the first line may be `torn` |
| `read_response` | `ReadEvent`, `ReadAnswer`, `ReadGarbled`, `ReadEof` |
| `handshake` | `Handshake`, `ReadGreeting` (goes on to execute `qmp_capabilities`), `GreetingGarbled`, `GreetingEof` |
| `Qmp.event_queue`, `events()` | `event_queue`, `DrainEvents` |
| `guest_sync` | a call with a value; `ValueMatches`, `OfOtherType` |
| a new process on the same channel | `Restart` |

Commands are numbered and an answer says to which it is, which the program cannot see.
Whether another command's answer deserializes depends on its type: `ReadAnswer` and `ReadGarbled` leave both open
(`OfOtherType`), except that an integer is always one to `guest_sync`, whoever returned it. Other commands of the Guest
Agent return integers too, handles, counts and times: `Returned` are the values for which that is so, and an ordinary
command may return any of them (`Returns`). `trusted` records that no fault has happened since the start, or since a
`guest_sync` with a `fresh` value, one not used before and not in `Returned`.

### 2.6 SchemaParser

A file is a sequence of lines of tokens, a text the set of its tokens, each with its place.
`StripComments` is `strip_comments`; `FromStr` is what `serde_json::from_str` returns on the rest, the
object or the line and column of its error; one
action per way through `Parser::next`: the rest is one object (`NextLast`), the error has no
place (`NextErr`), the text is cut at the place and parsed again (`NextCut`), the end (`NextNone`).

### 2.7 SchemaIncludes

The recursion of `include()` as a stack of `frames`. `argument` is what it is called with; `rest` counts the items a
call has not processed, `todo` what its `for` loop has drained. `paths` is `QemuFileRepo.paths`, pushed in
`from_include` and popped where the guard `QemuRepoContext` is dropped (`Drop`, in `Return` and in `Unwind`, which
is the `?` of each level). `Resolve` is the file system, which reduces `..`; the program does not.

### 2.8 SchemaCodegen

`Context` with one action per kind of item (`process`), per union, per struct, and one for the events. A
declaration in `out` is modelled by what serde makes of it: its fields, which of them are flattened, and
for an enum its tag and variants. `impls` are the `From` implementations, each with the item and the branch it was
written for, so that two of them can be told apart that Rust would not tell apart. A member says whether it is an
array, which decides the Rust type (`Typename`), and stops the generator in a branch (`Outcome`). The maps of the code are
functions, and a loop over one takes of the names in `todo` the first in the alphabet (`Generating`).
`SchemaMembers` and `Wire`, in `SchemaWire`, define what the
schema says is on the wire and what the generated types have there; they follow the bases of structs by recursion,
and have a module of their own so that proofs need not see them.

## 3. Runs

| run | instance | question |
|---|---|---|
| `futures_oob` | 2 calls, ids 0..2, cancel/event/bad/close, spawned or iterated | does any interleaving lose a wake-up, strand a call, confuse the shutdown, or leave the abstract promise? |
| `futures_serial` | 2 calls without ids, cancel/send/event/close/abort | does the sink guard alone keep calls apart? |
| `futures_wrap` | 3 calls, ids modulo 2, cancel | what happens once the counter wraps (panic, poisoned map, abort), and not before; whose answers calls get then |
| `futures_live` | 2 calls without ids, close/event/abort/stray, spawned, fair | does every issued command get an outcome, does dropping the service end the loop? |
| `futures_cancel` | 2 calls without ids, cancel | can the duplicate id panic happen? It does (section 6) |
| `json_lines` | every stream of up to 6 bytes over 3, all read sizes, at most 4 items, with a greeting | are all lines delivered once, in order, and none left waiting? |
| `session` | 3 calls, 2 faults out of 6, QMP and Guest Agent, three greetings (33 311 states) | does the select lose an answer, hang, fail or panic without cause, or leave something behind? |
| `session_oob` | 1 call, greeting with "oob" | is "oob" recognised? It is not (section 6) |
| `sync_client` | 4 calls, 2 values, one of them returned by other commands too, 2 events, 2 faults out of 6 (94 463 states) | whose answer does a call return, does it return, what becomes of the events? |
| `schema_parser` | files of up to 4 lines out of 10, at most 5 items (43 654 states) | which items does the iterator skip or repeat, and is the end the end? |
| `schema_includes` | 3 files of up to 2 items, paths up to 4 long (299 840 states) | do directories, includes and recursion match; what is read twice; does it end? |
| `schema_codegen` | 29 378 schemas around two unions (441 755 states) | do the types have the members of the schema; is the output complete; which conversions clash; why does it stop? |

Bounds. Two calls suffice for every pairwise race (two futures contending for the
lock, one answered while the other ends, a leftover entry met by the next call);
three are needed for two live calls plus the one that wraps the counter. Two
unasked messages add no new situation, since each is consumed by a poll of its
own, so `MaxUnasked` is 1 where it is used. In `json_lines` six bytes hold a
greeting, two messages with their newlines and an unterminated rest; four items
are one more than the lines that fit. In `sync_client` and `session` two faults make a
fault and one that meets what the first has left; four calls are the negotiation, a
call that fails, one that gets the wrong answer and one after it. Two events show an order.
In `schema_parser` four lines hold an item spread over three and the start of another; `MaxItems` is
above what four lines hold, and only cuts the endless repetition of section 6. In
`schema_includes` one file lies in another directory than the root, with the name of a third, so
each way to resolve a name against the wrong directory finds a file. `MaxPath` stands for the
system's limit on a path; with 4 components a detour through `..` can be made once and still open.
The schemas of `schema_codegen` combine each kind of inline base or base struct (with the
discriminator alone, with others, without it, of a type that is no enumeration) with branches that exist,
are missing, are an array, repeat a type, or wrap the same one, and with a second union that takes the same or another
discriminator from the shared base.

`futures_wrap` turns the deadlock check off
because a program with a poisoned map may really stop: its calls wait for a map
nobody clears. In the other runs the only states without a successor but
stuttering are those of `Finished`.

Symmetry over `Calls` is used for safety only: no definition names a particular
call. `futures_live` does without it.

Fairness of `QapiFutures` (one weak condition per actor, with no strong fairness):

- the executor polls every future that can proceed, and the lock goes to someone
  (`CommandInsert`, `SendFeed`, `SendDone`, `ReceiveReply`, `ReceiveCanceled`, `TaskPoll`, `PollStep`);
- a thread inside `stop()` or a destructor goes on (`ServiceWake`, `ServiceAbandon`, `EventsDrop`);
- the `#[must_use]` events are spawned and the spawned task gets its first poll (`Spawn`, `Release`);
- the kernel takes written bytes and the server answers (`SendWrite`, `ServerRespond`).

Nobody is obliged to drop, cancel, abort, close or send an event. Weak fairness of
`CommandInsert` for each call is enough because each future holds the lock once and
the program creates finitely many.

`QapiSession` adds one strong condition: a task that is woken because the socket is
writable finds it so again and again, and `CallSend` is among the steps of each of its polls, so
one of them sends. `SyncClient` has the thread of the program write and read, and the server
answer. The schema modules are sequential: the program takes its next step.

In `PROJECT.json` each property of a passing run is paired with a mutant: a small
change of the modelled code (a forgotten wake-up, a skipped second check, an index
that is not reset) under which TLC finds the property violated.

## 4. Properties

`QapiFutures`:

- `OwnReply`: no call receives another call's answer, without ids always, with ids until
  the counter has wrapped and the map is abandoned as well (no unasked responses).
- `NoLostWakeup`: a pending poll nobody has scheduled has read everything, is armed
  on the socket and in `stop_waker`, and if `stop` is set the wake-up is on its way.
- `NoCallStranded`: when the events are gone the map is empty and stays so.
- `SerialWithoutIds`: without ids at most one future is between its insert and its answer.
- `DuplicateIdCause`: the panic of `command_insert` needs a wrapped counter or, without
  ids, a future that ended early.
- `ReleaseHandshake`: `stop()` and `release()` cannot miss each other.
- `EventsOutliveService`: an owner who iterates without `release()` is not stopped by
  dropping the service.
- `FailureHasCause` (action): the loop fails the connection only for one of the listed reasons.
- `KeepsPromise`: refinement of `QapiCalls`.
- `CallsComplete`, `ServiceDropEndsLoop`: liveness, for a spawned loop.

`JsonLines`: `ScanInv` (resuming the search at `next_index` skips nothing and stays in the
buffer), `NoBufferedLine` (no complete line waits for a socket event),
`DeliveredInOrder`, and `LinesDelivered` (liveness: every line is handed out up to
the first that does not parse).

`QapiSession`:

- `AnswerBeatsEnd`: the answer that reached the call is its own and is what `execute()` returns, also
  when the connection ends or fails right behind it; the bias of the select decides this. Only the program can
  lose it, by dropping the future before its next poll, and then too the call's key is free.
- `PanicNeedsLostCall`: `execute()` panics only without ids and after a call that was given up.
- `ErrorHasCause`: it fails only with the connection, or when the answer to a call that was given up
  arrives, and reports the end of the stream only after one.
- `HandOverClean`: what `into_parts` and `spawn_tokio` hand on holds nothing but what calls that were given up have
  left, whatever failed before, if the server answers only what it was asked; of those, each command on its way, or
  its answer, still has its sender in the map. Without such a call it is the initial state of `QapiFutures`.
- `ExecuteEnds`: liveness.

`SyncClient`:

- `OwnAnswer`: while `trusted`, a call returns the answer to itself. The case that matters is that the
  one sync with a fresh value is enough to know that nothing stale is left. Fresh means more than not used before:
  no other command may return the value (section 6).
- `AnswerComes`: a trusted call that reads has its request at the server or its answer on the way.
- `EventsInOrder`: handed out, queued and unread events together are those the server sent, but for lines
  torn by a failed read.
- `NopPollsEvents`: when an answer returns, the events sent before it are queued.
- `ExecuteReturns`: liveness.

`SchemaParser`: `NothingSkipped`, `DoneIsWhole` (a file that ended without error was given
item by item), `OwnLinesParse` (liveness: items on lines of their own always parse).

`SchemaIncludes`: `ContextFollows` (the stack of directories is that of the files being read),
`ResolvedRelative` (each path tried is one some file gives, relative to itself), `DoneComplete`,
`ReadOnce` (a file is read twice only under two spellings), `Terminates`.

`SchemaCodegen`: `StructWire` and `UnionWire` (the members on the wire are those of the schema,
exactly but for the listed exceptions), `OutClosed` (a type that is mentioned is written out or a scalar, if
the schema has the types it mentions; no name is written twice, if the schema uses none twice and none of
those the generator makes up), `ImplsDistinct`, `StopsForCause` (each cause lies in the schema; an optional branch is one, and an
array as the branch of a union).

## 5. Proofs

TLAPS proves, for every value of the constants that the modules' assumptions allow, first
about `QapiFutures` and `JsonLines`:

- `TypeCorrect`: `Spec => []TypeOK`, the base of everything else. The sequences of
  calls and messages and the functions over ids are unbounded here.
- `NoWakeupIsLost` from `WakeInv`. `NoLostWakeup` speaks of `idle` only; to be inductive
  it must say at which point of the poll each waker is in place: the socket's from the
  read on, `stop_waker`'s from `register` on, and that `waking` implies `stop`. The case
  that matters is `stop` being set between the read and the recheck: the recheck sees it,
  or the waker is already registered and `ServiceWake` follows.
- `NobodyStranded`, `StopIsSeen` and `ServiceDropSpares` from `HandshakeInv`, which follows `stop()` through its
  intermediate states under the mutex and adds that a service that is gone has marked
  the map as abandoned.
- `CallsAreSerial` and `PanicHasCause` from `KeyInv` (a stored sender is filed under its
  call's key, only from insert to answer; keys differ until the counter wraps) and
  `SerialInv` (without ids an entry belongs to the holder of the sink, or was left
  behind by a future that ended early).
- `NoNewlineSkipped`, `NoLineWaits` and `LinesInOrder` about the codec, for every stream and all sizes of reads.
  `LinesInOrder` (`DeliveredInOrder`) is the one that needs more: `StreamInv` says that the buffer is the piece of the
  stream between the bytes decoded and the bytes read, that it begins at the start of a line, and that as
  many items were handed out as there are newlines before it. That an unterminated last message is decoded but not consumed
  shows in it as the rest that may follow the lines, more than once.

The four invariants, `EventsOutliveService`, `DuplicateIdCause` and `TypeOK` form `IInv`.
`QapiFuturesProofs` has one lemma per part of it, each with one step per actor, and
split further where an action disturbs that part. On top of it are

- `RepliesAreOwn` (`OwnReply`) and `FailuresHaveCauses` (`FailureHasCause`), from
  `TransitInv`, a command or its answer is in one place at a time (write buffer, server,
  inbox) and only after it was fed to the sink, and `MapInv`, an open and unpoisoned map
  holds the sender of every call that is in transit or waits. `MapInv` is where the
  duplicate check of `command_insert` earns its place: an insert that finds the key free
  finds that nobody with that key is in transit, wrapped counter or not. Without ids the
  second part of `MapInv` carries this past the abandonment of the map.

`TransitInv` and `MapInv` were checked by TLC as invariants on the instances of the three
safety runs before they were proved; the proofs cover every instance.

The last part of `QapiFuturesProofs` is the refinement, `PromiseIsKept`: `KeepsPromise`, for any number of calls and
all ways to use the client, if the server sends no response unasked and the id counter does
not wrap (`Unwrapped`; without ids it cannot). One lemma maps each step of the client to the
step of `QapiCalls` it stands for; all others change nothing the promise speaks of (`SeenFrame`).
`MapInv` shows that a call is told it is disconnected only by a closed client, and that what
`EventsDrop` clears was not answered; `KeyInv` and `SerialInv` that the entry behind
a panic is one of a call given up; `OwnReply` that the answer in a channel is the call's own. What had to be
added is `AnsweredInv`: the server answers a call once, and no answer is read that it did not give.
Where ids do wrap, `futures_wrap` shows what remains.

`QapiSessionProofs` proves `AnswersWin`, `PanicsExplained`, `ErrorsExplained` and
`HandsOverClean`, for any number of commands and of faults. None of the four properties is
inductive; their `IInv` (end of `QapiSession`) has six further parts. `StageInv` says where the
task and the future of the call are. `FilingInv`: a call is filed under its own key, until its
answer comes or, if it was given up, possibly for ever; that is why a taken key, the panic, means a call
given up. `TransitInv`: a command or its answer is in one place, the write buffer included, and its call is still
filed, so that an answer that belongs to nobody is one of a call given up, the cause
`ErrorHasCause` names, and what is handed over is of such calls only. `SendingInv`: the command of a call that is
sending is the last of the buffer. `GotInv`: between the answer and the next poll of the call the task does nothing
else, which is what `select_biased!` is for, so that only a drop of the future can come between. `CauseInv` ties what the stream shows, an
undecodable line, its end, the stop flag, to the fault behind it.

`SyncClientProofs` proves `AnswersAreOwn`, `AnswersCome`, `EventsAreQueued` and `EventsKeepOrder`. The hard step
is `guest_sync` on a client that is out of step: it succeeds with a fresh value, and from there on
the client is in step again. Three parts of `IInv` together give it. `ValuesInv`: a value that was
not used before, and that no other command returns, comes back only to this call, so the answer read is its own. `AnswersOrdered`:
answers and requests are in the order of their calls, so nothing older is left behind it and nothing
of a later call exists. `OutlineInv`: a line whose end was never written holds back every later
command, so since this one was answered no line is open. `InStep` is what then holds until the next fault, and
`SeenInv` says of each event whether it is known or in front of which answer it is unread. `EventsInOrder`
is inductive because it speaks of the unread events as well: those on the way are later than
all that were read, in order themselves, and with them complete but for those a failed read lost.

`SchemaIncludesProofs` proves `ContextsFollow`, `IncludesAreRelative`, `NothingLeftOut` and
`FilesReadOnce`, for every graph of files, cycles and files that cannot be opened included. The list of includes that
`include()` shares between all its recursive calls is what makes them hard: `SharedInv` says that it
belongs to the innermost file and is empty at every call, and `FramesInv` that only
the innermost file has items left to read. `CompleteInv` is `DoneComplete` before the end: each path that
was tried has all its includes followed, or a frame still works at it and owes the others. What `..` does to a path
plays no part: the definition of `Resolve` is never expanded.

`ReadingIsBounded` is what of `Terminates` is safety. If there are finitely many files and names, the paths that can be tried
are finitely many (`Tried`; the system opens no path longer than `MaxPath`), none is forgotten, and every step is `Nearer`:
it tries a path for the first time, or returns from a call, or lowers the `Weight` of what is left to do of the innermost
file. An item counts four there, an include that is kept three, one that is drained two, the call one. Only a path tried for the first time makes
the recursion deeper, so no behaviour has infinitely many steps; that the program takes its steps at all is the
fairness of the run.

`SchemaParserProofs` proves `ParserTypes`, `NothingIsSkipped`, `EndIsWhole` and `OwnLinesAreSafe`, for every layout of every file: objects over
any number of lines, several on one line, comments anywhere, well-formed or not. `TextInv` says that the text is the
stripped file, whose tokens keep the order of the file (`StripFacts`; that the line numbers fit is counted there once and
for all). `PlaceInv` says where the iterator can be between two calls: it has given exactly the objects of the lines
it passed, in order (`Clean`), or its last item is still the first object of the rest and has something behind it on its
line, so that it will be given again (`Stuck`). From a clean place `next` gives the next object of the file, and from a stuck
one nothing leads away, which is why an end without an error (`Complete`) has given everything. That the subtractions in
`next` do not underflow is `ParserTypes`. `OwnLinesAreSafe` is what of `OwnLinesParse` is safety: if every object has a
member and starts a line (`OwnLines`, `WellFormed`), no call of `next` fails and no item comes twice. `OwnInv` adds that
the rest is never empty before the end and starts with an opening brace; the error of `serde_json` is then always at the
brace that opens the next object, and what is before it parses.

`SchemaCodegenProofs` proves `FailuresAreOfSchema` (`StopsForCause`) and `ConversionsDiffer` (`ImplsDistinct`), for every
schema, whatever its order and its names. `Maps` follows the maps of the code: what is in them are the items of the schema,
each under its name, nothing is missing that was processed, and up to `process_structs` the structs are unchanged. The last
part is why `process_unions` only notes the discriminator in `struct_discriminators`: two unions may share a base, and if
the first took the member out at once, the second would not find it. `ImplsHold` gives each implementation of `From` its
origin in the schema; two that clash then come from one item, because names are unique, and from two branches of it. The
proof did not go through for `ImplsDistinct` as it was first stated, with one exception: two branches that wrap the
same type clash as well (section 6). TLC found the schema once the instance had a second wrapper.

`GeneratedTypesAreClosed` (`OutClosed`) speaks of sequences that are put together and filtered, so it begins with lemmas about
both: `KeepAt`, what `filter` keeps, is defined by the rank of a place (`KeepAtFacts`, `KeepAtAll`: it makes up nothing, leaves out
nothing and repeats nothing). `Writes` says once what the steps write: an item, a union and perhaps its base, a
struct, the enum of all events, or nothing. `WrittenInv` is inductive: `LeftSuffix`, what is left is the end of the schema;
`StructsMention` and `EventsHold`, the structs and events that are kept mention what the schema mentions;
`MentionsHold`, so does what is written, but for a base that is written together with its union; `AllWritten`, what has been
processed is written or still to come; `OnceHolds`, what is written stands at its place in the schema, and a name that was
written is not written again. The hypotheses are about the schema, which the generator takes on trust: `Closed`, it has the types it mentions, `UniqueIds`, it
uses no name twice, and `FreshNames`, it takes none of the names the generator makes up (`Event`, and a union's name with
`Base`). The last says of two bases that their names differ as well, which is so for strings, of whose characters the provers know nothing.

Two theorems state what of `StructWire` and `UnionWire` needs no recursion. `StructsAreOfSchema`: a struct is written out with
its own members, less the discriminator of the last union in the alphabet that has it as its base. `NotedHold` follows
`struct_discriminators` through the loop over the unions: what is noted for a struct comes from the last of its unions that was
generated, because the loop comes to them in the order of their names (`Context.unions` is a `BTreeMap`), and
`FormHold` says that no other step changes a struct. `UnionsCoverTheirValues`: for every value of its
discriminator a union has a variant and for nothing else, one if the schema repeats no branch and no value, with
the branch of that name flattened into it. The case that matters is that the branches come first and the values without a
branch after them, filtered by name. What is missing to the properties themselves is what serde makes of bases of bases. TLC finds
both true on the instance of `schema_codegen`, the first false for a generator that strips a struct at
once, and the second for one that forgets the values without a branch.

`IInv` of these modules was checked by TLC on the runs' instances before it was proved (that of
`SchemaCodegen` without the types, whose sets TLC enumerates slowly).

Only model-checked:

- the liveness properties `CallsComplete`, `ServiceDropEndsLoop`, `LinesDelivered`, `ExecuteReturns`, `ExecuteEnds`,
  `OwnLinesParse` and `Terminates`: liveness under fairness and ENABLED are outside what the prover supports. What of them is safety is
  proved: `NoWakeupIsLost`, `NobodyStranded`, `NoLineWaits`, `AnswersCome`, `AnswersWin`, `OwnLinesAreSafe` and `ReadingIsBounded`;
- `StructWire` and `UnionWire`, which follow the bases of structs by recursion and would need induction over data.

## 6. What the model shows about the code

`command_insert` says of a duplicate id "this should not happen" (mod.rs 270). On a
connection without ids it does: `futures_cancel` drops an `execute` future after its
insert, as a time-out around a call would. The sink is released with the future, the
sender stays in the map under key 0, and the next call panics with the mutex held.
`DuplicateIdCause` is what remains true, and is proved.

The rename of `QmpCapability::OutOfBand` to "oob" (qmp/src/lib.rs 46) says that this string
in the greeting announces out-of-band execution. It never selects the variant: the enum is
untagged, and serde reads a unit variant of an untagged enum from `null` only, so "oob" becomes
`Unknown`, `supports_oob` (tokio.rs 186) is always false, and commands to a real QEMU never carry
ids. `session_oob` shows it. The runs with `SupportsOob = TRUE` check the code for the
servers it was written for.

Further traits, which no document contradicts:

- The id counter is truncated to 32 bits. While the map accepts calls a reused id panics;
  once the service is dropped the check is skipped (the sender is not stored), but the
  command is still sent, so a call already created then can have its answer delivered
  to the pending call with the same id. `OwnReply` excludes exactly this case; without that
  exclusion TLC finds it on the instance of `futures_wrap`.
- `decode_eof` does not consume an unterminated last message, so `Framed` yields it again
  at each poll. `DeliveredInOrder` therefore says which line an item is, and only
  for complete lines does it follow that each is handed out once.
- `QapiStream::execute`, tried again after an error, a time-out or the end of the stream, panics with "this
  should not happen" on a connection without ids (`PanicNeedsLostCall`).
- `guest_sync` notices that the stream is out of step, but reads only one answer, so each further call is
  out of step by as much; a retry with the same value may return the first try's answer and
  succeed. Nor can it tell its answer from another command's integer: after a `guest-file-open` that timed out, the handle it
  returns late is taken for the answer to a sync with that value (lib.rs 307-335), and every later call gets its
  predecessor's answer. Hence `fresh`, in the definition of `trusted`, asks that the value is new and that no other
  command returns it. TLC finds `OwnAnswer` violated if either is left out.
- A future of `QapiStream::execute` that is dropped between the poll that took its answer off the stream and the next one,
  by a time-out around it for instance, loses an answer that had arrived, although the poll scheduled the task again
  at once (mod.rs 380-387). Nothing else is lost with it: the key is free, and the next call works.
- `negotiate_caps` takes the stream by value: if the server refuses the command, the connection is closed with it.
- A union's branch that is an array stops the generator by an `assert!` (codegen 479), as one that is optional does.
- A line the schema does not know, an event of a newer QEMU for instance, makes the blocking `execute` fail with
  its own answer still to come.
- `encode_line` writes the newline with `write` and not `write_all` (lib.rs 115): a stream that takes nothing of it leaves
  the call waiting for an answer to a line the server has not seen the end of.
- `Parser::next` gives the same error for ever if it has no place: an empty file, or an object that
  matches no item (parser 532). `include()` stops at the first error. With two items on one line it gives the
  first one again, as often as it is asked (534-536).
- An include of `a/../b` beside one of `b` generates the types of `b` twice; a cycle through
  `..` ends only when the path is too long to open.
- The generated types differ from the schema in these cases: a union whose inline base has two members, for a
  value without a branch (the base is not flattened); one whose base struct has no member but the discriminator
  and inherits others (they are missing); two unions that take different discriminators from one struct (the
  later in the alphabet wins); and the base struct of a union, which lacks the discriminator wherever
  else it is used. A discriminator that the base inherits stops the generator. A branch of a type that
  does not exist is noticed only if the union's base has no other member; otherwise rustc will.
- A union without base gets `From` for the type of each branch and for what it wraps (codegen 549-570). Only the types of the
  branches are compared: a branch that wraps the type of another one, or two branches that wrap the same type, give two
  implementations that Rust refuses. `ImplsDistinct` names both cases.
- After a panic has poisoned the map, the destructor of the events skips the clearing, and
  calls in flight wait for ever. The liveness properties exclude a poisoned map.

## 7. Not modelled

These parts are not modelled:

- the tower adapter: `poll_ready` is always ready and `call` forwards to `execute`;
- the constructors that connect a socket, and the `Stream` and `Sink` impls that forward to `Framed`;
- the build scripts, one call of the generator each, and packaging;
- the JSON text itself, base64, `Enum` and `ErrorClass` look-ups, `GuestExecStatus::result`: matches over one or two
  values without state;
- features, conditionals and attributes of the schema, which change the text of the generated code and not
  its types, identifiers and keywords, logging.

Memory orderings weaker than sequential consistency are outside TLA+'s reach; section 2.1
says why the atomics may be single steps.
