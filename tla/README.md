# TLA+ models of libandroidtvremote

libandroidtvremote is a C++20 client library for the Android TV Remote v2
protocol. It keeps one TLS connection to a television alive, sends commands over
it, pairs with the television and looks after the client's certificate. Most of
what is hard to test in it lies in `src/src/android_tv_remote.cpp`: a chain of
Boost.Asio completion handlers, three timers and a write queue that share one
object with lambdas posted from the application's threads. The rest lies in the
hand-written Protocol Buffers codec, in pairings that run on several threads, and
in the files that outlive the process.

This directory holds the models of that behaviour, the TLC configurations that
check them on small instances, and TLAPS proofs that hold for every value of the
constants.

    tlc -workers 2 -config Lifecycle.cfg MCRemoteConnection
    tlapm RemoteConnectionProofs.tla
    tlapm RemoteConnectionFlow.tla
    tlapm RemoteConnectionRefinement.tla
    tlapm PairingProofs.tla
    tlapm ClientIdentityProofs.tla
    tlapm RemoteCliProofs.tla
    tlapm WireCodecProofs.tla
    tlapm MessageExchangeProofs.tla

## 1. Inventory

### 1.1 Components

| Component | Source | State | Operations |
|---|---|---|---|
| Remote connection | `AndroidTvRemote::Impl` in `android_tv_remote.cpp` | `userDisconnect_`, `shuttingDown_`, `state_`, `generation_`, `sslContext_`, `stream_`, read length and shift, `writeQueue_`, `writeInProgress_`, `reconnectDelay_`, active features, voice flags, mirrored reports, three timers, the io_context's queue | `connect`, `disconnect`, `sendKey`, `launchApp`, `sendText`, `startVoice`, `sendVoiceData`, `stopVoice`, the handlers of resolve, connect, handshake, read, write and of the timers, the destructor |
| Pairing | `startPairing`, `finishPairing`; `PairingSession` in `pairing.cpp` | `pairing_` under `pairingMutex_`, a session's TLS connection | the request / options / configuration exchange, the secret |
| Client identity | `certificate.cpp` | two files | `generateCertificateIfMissing`, `loadClientIdentity`, the digest of the pairing secret |
| Protocol messages | `protocol_messages.cpp` | none | builders, `parseRemote` |
| Wire codec | `proto_wire.cpp` | none | `Writer`, `Reader`, frames |
| Command-line example | `examples/remote_cli.cpp` | none of its own; the data directory and what the television trusts | `pair`, `key` |
| Key names, build files | | none | |

### 1.2 How they interact

* A public function never touches the connection itself: it posts a lambda to
  the io_context, whose single thread runs it between two completion handlers.
* `closeStream` adds one to `generation_` and drops the stream. Operations that
  were under way complete later, and their handlers compare the generation they
  captured with the present one. The reconnect and voice timers' handlers make
  no such comparison.
* Commands of the application and answers to the television (Configure,
  SetActive, Ping, VoiceBegin) share `writeQueue_`.
* `startPairing` waits for the I/O thread to take the connection down, then runs
  on the caller's thread. It shares `pairing_` with `finishPairing`.
* `beginConnect` and `PairingSession` load the files that
  `generateCertificateIfMissing` writes; `finishPairing` reads the certificate
  once more. The television trusts the certificate it was paired with, so the
  next process must present the same one.
* Both readers of frames, `readOneLengthByte` of the connection and `receive` of
  a pairing session, hand a body to the same `Reader`, and every command and
  answer goes through `Writer` and `frame`.

### 1.3 What is hard, and what makes each part correct

`PROJECT.json` lists each hazard at its line. In short:

* Connection: completions that arrive after their stream was closed; timers that
  are cancelled or set anew when their handler is already queued; a chain of
  reads continued by hand on each path; a write started while another is under
  way, or never started; voice state that outlives its stream; a destructor that
  overtakes posted lambdas, and the very handler that is at work. Correct means: no handler uses a missing or foreign
  stream, the chain and the writer neither fork nor stall, a disconnect holds, a
  loss is announced and retried, voice data stays inside its session, and nothing
  touches an object that is gone.
* Pairing: two threads that start and finish pairings, failures at every step.
  Correct means: a session is used by one thread at a time, is stored only when
  configured, and is not lost to a mistyped code; a call that does not return
  waits for the television, or behind one that does.
* Identity: a process that ends between two steps, a write that fails, or is lost
  without anyone noticing. Correct means: what is reported as generated can be
  loaded, what can be loaded is not overwritten, and a client that has said "Pairing complete" stays usable.
* Codec and messages: lengths and sizes chosen by the other side, a word that no
  whole number of seven-bit groups fills, fields of a newer protocol, integers
  that are sign-extended by one side only, chunks of voice data at a boundary.
  Correct means: what one side means is what the other understands, and no byte
  sequence leads a reader out of its message.

## 2. Modules

| Module | What it is |
|---|---|
| `RemoteConnection` | `AndroidTvRemote::Impl` and the part of Asio it uses |
| `ConnectionLifecycle` | the abstract specification: what the application sees of a connection |
| `MCRemoteConnection` | sets of messages for TLC |
| `Pairing` | `startPairing`, `finishPairing` and the `PairingSession` objects |
| `ClientIdentity` | the two files, their writers and readers |
| `RemoteCli` | `ClientIdentity` composed with the command-line client and a television |
| `WireCodec` | `proto_wire.cpp` as operators on sequences of bytes |
| `ProtocolMessages` | `protocol_messages.cpp` as operators on top of `WireCodec` |
| `MessageExchange` | streams of frames between television and client, read, parsed and answered |
| `MCMessageExchange` | integers and strings for TLC |
| `RemoteConnectionProofs` | the types of `RemoteConnection`'s building blocks; what it never does: the first inductive invariant and its theorems |
| `RemoteConnectionFlow` | what `RemoteConnection` keeps going: chain, writer, retry, idle watch, voice |
| `RemoteConnectionRefinement` | the proof that `RemoteConnection` implements `ConnectionLifecycle` |
| `PairingProofs` | the inductive invariant of `Pairing` and its theorems |
| `ClientIdentityProofs` | the inductive invariant of `ClientIdentity`, for one caller, and its theorems |
| `RemoteCliProofs` | the same for the composition `RemoteCli` |
| `WireCodecProofs` | what the recursive functions of the codec compute: the reader is bounded and reads back what was written |
| `MessageExchangeProofs` | the inductive invariants of `MessageExchange` and its theorems |

### 2.1 RemoteConnection

`impl` is one record with a field per member of `Impl`, plus the io_context
(`pending`, `ready`) and history (`available`, `accepted`, `sent`, `misuse`).
Each private member function is an operator from records to records and keeps
its name (`CloseStream`, `BeginConnect`, `HandleConnectionLoss`, `BeginWrite`,
`HandleMessage` ...), so a handler composes them the way the C++ does. Actions are
the handlers (`OnResolve` ... `OnVoiceTimer`), the posted lambdas (`Connect`,
`Disconnect`, `SendKey` ...), the destructor's steps and the environment
(`OpSucceeds`, `OpFails`, `StaleOpEnds`, `TimerExpires`). `certificate` says
whether the identity's files can be loaded, `destructor` how far `~Impl` has got.

A handler is one step, which is right for everything the I/O thread alone
touches. `shuttingDown_` is the exception: `~Impl` stores it on the application's
thread, perhaps after the handler at work has tested it (lines 337, 379, 394, 404)
and before it opens a stream or sets a timer. So `DestroyBegins` has two outcomes.
In the first the flag is seen by every handler from now on. In the second
`overtaken` becomes "running": one more handler or posted lambda still finds the
flag clear and does all its work, whatever the destructor does meanwhile, and
`HandlerReturns` then lets the flag be seen. `connectionFailed` and
`handleConnectionLoss` each test it; `OnFailureFlagged` is the handler that finds
it clear in the first and set in the second. The posted clean-up waits for its
turn behind such a handler, `io_.stop()` does not, and `Join` is the return of
`ioThread_.join()`.

Operators whose comment begins with "Broken" are variants with one fault; no
action uses them. They serve to show that each property can fail.

Asio is external and modelled by what the code relies on:

* a started operation is `pending`; when it completes its handler joins the FIFO
  `ready`, and the one I/O thread runs the handlers in that order, each in one
  step;
* posted lambdas run between any two handlers, which covers every place the
  queue can give them;
* operations of a closed stream stay pending, with a generation that is no longer
  current, and complete later: aborted, except a name resolution, which nothing
  cancels and which may have succeeded. That Asio itself copes with a stream and
  a write buffer that `closeStream` has destroyed under an outstanding operation
  is assumed, not shown;
* `cancel` and `expires_after` end the waits still pending. A handler that is
  already queued runs as if nothing had happened; it is marked `late`, a mark
  no code can see;
* OpenSSL refuses a write on a stream whose handshake has not begun, so that
  write fails at once;
* to start an operation on a null stream, or a second read or write on the same
  stream, sets `misuse`.

Abstractions: a message is a record of its kind, one word (session id, IME
counter, ping value or mirrored value) and a set of features. The length prefix
of a frame is one of four kinds of byte: more follows, empty frame, frame with a
body, too long; `readShift` still counts the bytes, so the limit of the varint is
reached. Callbacks other than the state and the availability, and all error
texts, are left out.

### 2.2 ConnectionLifecycle

Four variables: the last reported state and availability, whether the
application wants a connection, whether the object is being destroyed.
`RemoteConnection` implements it under the mapping `state <- impl.state`,
`available <- impl.available`, `wanted <- ~impl.userDisconnect`,
`closing <- impl.shuttingDown`. `closing` is what the handlers see of the flag;
a loss may happen in the step in which they first see it. TLC checks this on the lifecycle instance, and
`RefinesLifecycle` proves it for all (4.3).

### 2.3 Pairing

Threads of the application call `startPairing`, `finishPairing` and
`getNameAndMac`. `pc` is the
place in the call, `session` the objects with the television's end of each
connection, `mutex` the owner of `pairingMutex_`. The television is external: it
answers in turn, sends messages that mean nothing, reports an error, breaks the
connection, or says nothing. The local check of the code is a choice between
`SendSecret` and `RejectCode`, and `SecretNotSent` is a write that fails. A connection that still works is shut down when
its object is destroyed, and that waits for the television as well: after a
failed `start()` ("abandoning"), in `finish()` ("closing", "refusing") and when a
stored session is replaced ("replacing"), the last three with `pairingMutex_`
held. `AtTelevision` names every place at which a thread waits for it.

`SessionSurvivesRetries` says when a session that could still be finished
(`Usable`: alive, configured, its connection open) stops being so. One of the ways
is `finish()` itself: after four messages without an acknowledgement it resets
`connection_` (`pairing.cpp:174`) and throws, `pairing_` keeps the session, and
every later `finishPairing` throws at once until `startPairing` is called again.
The comment in `finishPairing` promises a retry only for a code that "local
validation rejects", so this is stated in the property and is not a finding.

### 2.4 ClientIdentity

A file is absent, empty, or holds the certificate or key of one generated pair.
Opening with `trunc` and writing are two steps; a crash or a failed write may come
before either. Two kinds of failure are told apart. `WriteFails` is what
`writeBioToFile` notices: the open, or `write()`; it throws. `WriteLost` is what it
does not: `write()` has filled the `ofstream`'s buffer, and the destructor's
attempt to write that out fails. The code neither flushes nor closes the stream
itself, so the call goes on as if the file were complete. `lost` remembers it, for
the properties only.

### 2.5 RemoteCli

`main()` of the example, run again and again on one data directory. `stage` is
the place in `main()`; the calls of the library are `ClientIdentity`'s actions,
and pairing is reduced to what the files and the television see of it: the
identity presented, the code, the secret, the television's acceptance, the
acknowledgement. `trusted` is what the television remembers. A process may be
killed anywhere, and everything the library throws ends the run with code 1.

### 2.6 WireCodec and ProtocolMessages

Bytes are numbers, messages are sequences of them. `Varint`, `Key`, `VarintField`
and `BytesField` are what `Writer` appends; `ReaderNext` is one call of
`Reader::next`, `Walk` the loop every caller makes around it; `FindVarint`,
`FindBytes` and `HasField` return what the code's functions return, a
`std::optional` being a sequence of at most one element. On top of them
`ProtocolMessages` has one operator per builder, with the code's field numbers,
and `ParseRemote`, which stops at the first field it knows, as the code does.

The widths are parameters, because TLC can go through all messages of a few bytes
only when a byte is small: a byte has `GroupBits` bits of a varint (7 in the
code), a word `WordBits` (64), a field number `NumberBits` (32), an `int32_t`
`IntBits` (32). Arithmetic is modulo these widths; the sizes in the run keep what
matters of the real ones: no whole number of groups fills the word, the integer
is narrower than the word, and the field numbers of the protocol fit.

Recursion is written with recursive functions, never with `RECURSIVE` operators,
and powers of two come from the function `Pow2`, because the prover knows nothing
of `^`. `Joined` puts the parts of a message together in the order in which a
builder appends them. `FindVarint` and its like take the first place of a walk
(`Places`, `First`) at which the field occurs.

`WidthAssumption` asks that a word has room for a key (32 + 3 bits in 64), and
`IntAssumption` that an `int32_t` is no wider than a word and that 90, the largest
field number of the protocol, is a field number.

### 2.7 MessageExchange

The television writes bytes to `stream`; `LengthByteRead` and `BodyRead` are the
handlers of `readOneLengthByte`, or the turns of `receive`, with `rx` for
`readLength_` and `readShift_`. A body is parsed and answered in the step that
reads it. `NewStream` is `closeStream` followed by a new connection, at any byte.
Four kinds of television: an honest one encodes any message it may mean, with
fields the client does not know (`Extras`: three samples, of every wire type but a
group, at which `Reader` gives up) before, inside or after its first message; a garbled one sends one body of
arbitrary bytes; a raw one arbitrary bytes without frames; a quiet one only
listens to commands and voice data. `sent`, `delivered`, `asked` and `written`
are history. How a Protocol Buffers library writes and reads messages (`TvMessage`,
`Understood`) is the reference the code is compared with. `TvMessage(m, p)` is
message `m` with the unknown fields `p` before, inside and after it (`Placed`).

The assumptions are about sizes. `FrameAssumption`: the limit of a frame is a word
(4 MiB against 2 to the power of 64), a chunk is not empty and not smaller than
its minimum, and the four directions of a key are `int32_t`s. `RoomAssumption`: no
string and no chunk is so long that the length of its message would not be a
word. `HonestAssumption`: an honest television keeps to the limit of a frame. TLC
evaluates them all on the instance of `Messages.cfg`.

## 3. Runs

| Run | Configuration | What it shows |
|---|---|---|
| lifecycle | `Lifecycle.cfg` | connect, disconnect, pairing and destruction against failures, timers and stale completions: `StreamsAreNotMisused`, `ChainNeverStalls`, `DisconnectedStaysDown`, `ConnectedIsWatched`, `CleanedStaysDown`, `NothingRunsAfterJoin`, and the refinement `ImplementsLifecycle` |
| retry | `Retry.cfg` | losses, silence, back-off and late reconnect timers: `TypeOK`, `RetryIsScheduled`, `RetryNeverHitsLiveStream`, `LossIsAnnounced`, and under fairness `RetryHappens`, `SilentConnectionEnds` and `OnlySilenceHoldsAttempt` |
| writes | `Writes.cfg` | commands and answers in one queue: `WriterNeverStalls`, `WritesInOrder` |
| voice | `Voice.cfg` | voice sessions: `VoiceNeedsConnection`, `VoiceIsBracketed`, and under fairness `VoiceStartIsDecided` |
| pairing | `Pairing.cfg` | two threads: `TypeOK`, `SessionsAreNotShared`, `StoredSessionIsConfigured`, `SessionSurvivesRetries`, and under fairness `CallsReturn` |
| cli | `Cli.cfg` | seven runs of the client with kills, failed and lost writes: `WrittenLoads`, `UndisturbedReturnLoads`, `IdentityIsKept`, `PairedStaysUsable` |
| messages | `Messages.cfg` | bytes, frames and messages both ways: `MeaningArrives`, `LengthsAreExact`, `ReaderStaysInside`, `ClientIsUnderstood`, `VoiceArrivesWhole` |
| no_identity | `NoIdentity.cfg` | violation of `HandshakeHasIdentity` (finding 1) |
| quick_start | `QuickStart.cfg` | violation of `KeyDoesNotEndConnection` (finding 2) |
| late_voice_timer | `LateVoiceTimer.cfg` | violation of `CancelledVoiceTimerIsInert` (finding 3) |
| identity_crash | `IdentityCrash.cfg` | violation of `ReturnedLoads` (finding 4) |
| lost_write | `LostWrite.cfg` | violation of `GeneratedLoads` (finding 5) |

### 3.1 Bounds

`MaxCalls`, `MaxFaults`, `MaxBytes` and `MaxSessions` bound how many calls the
application makes, operations the network fails, length bytes the television
sends and handshakes it accepts. Stale completions, late timers and retries are
not bounded: they follow from these. `Calls`, `TvMessages`, `TvBytes` and
`Expiring` give each run the calls, messages, bytes and timers its question is
about. Two or three calls and one fault are enough for an old stream, its stale
completions and a new stream to exist together, which is what the generation
check is for; two losses, one to a failure and one to silence, take the delay
(1, 2, 3 in place of 100 ms ... 30 s) past its cap; `MaxShift = 7` lets two length bytes exceed the varint that takes
ten in the code; four calls open a voice session, feed it, end it and open
another, or cut it off with a new connection. The largest run has about 2.6
million distinct states.

`Pairing.cfg` has the code's own limits of eight and four messages; three
sessions and three attempts to finish let one session be stored, replaced while
another thread waits for the mutex, and lost to a broken connection. In `Cli.cfg`
seven runs with two crashes and a failed or lost write are enough to leave every mixture
of old, new, empty and missing files, pair, fail to pair again and send keys.

In `Messages.cfg` a byte is a continuation bit and three more, a word has 13
bits, so a varint has at most five bytes and the last one overflows; six raw
bytes go one beyond, and their values include a group that the word cuts off. All
bodies of up to four bytes are read (16 values each), and every message
of an honest television, alone and followed by another, with each of `Extras`
before, inside or after it. `MaxFrame = 60` leaves room for all of those and is
exceeded by raw lengths; voice data of 1 to 11 samples covers chunks of 5 with a
minimum of 2 at and around every boundary.

`CHECK_DEADLOCK FALSE` stands in every configuration because the system may
stop: a television may stay silent during the handshake for ever (the code has
no timeout there), a destroyed object does nothing more, and the bounds run out.

### 3.2 Fairness

`FairSpec` assumes weak fairness of `RunHandler` (the I/O thread keeps running
`io_.run()`) and of each `TimerExpires` (a steady_timer expires). Nothing is
assumed of the network or the television. So `SilentConnectionEnds` rests on the
idle timer alone, and no property promises that a connection comes about.
`OnlySilenceHoldsAttempt` says how far the missing timeouts reach: an attempt
without end is one that the network holds before the end of its handshake.

`Pairing`'s `FairSpec` assumes that the I/O thread gets to the lambda posted by
`disconnectAndWait`, and that a thread gets a mutex that stays free. Again nothing
is assumed of the television: `CallsReturn` has it as the one excuse.

## 4. Proofs

### 4.1 RemoteConnection: what it never does

`RemoteConnectionProofs` proves, for every value of the constants that meets the
assumptions `OptionsAssumption`, `DataAssumption`, `LimitAssumption` and
`BoundAssumption`, so for any number of calls, faults and reconnects:

* `TypeCorrect`: `Spec => []TypeOK`;
* `NoMisuse`: `Spec => []StreamsAreNotMisused`;
* `DisconnectHolds`: `Spec => []DisconnectedStaysDown`.

None of the three is inductive. `TypeOK` alone allows a write completion with an
empty `writeQueue_`, whose `Tail` has no type; `~misuse` says nothing of what is
outstanding. The invariant `Inv` adds, of Impl's record:

* `Bounded`: no outstanding operation has a generation above the present one. So
  after `closeStream` none has the present one, and both directions are free;
* `Unique`: no two places of `pending` and `ready` hold competing operations of
  the present generation. So the handler that is taken from the queue leaves its
  direction free, and may start the next operation;
* without a stream no operation of the present generation is outstanding. So a
  handler that passes its generation check has a stream;
* `WriterInv`: a current write is outstanding only while `writeInProgress_` is
  set, and then `writeQueue_` has a front;
* `StateInv`: `DisconnectedStaysDown` as a predicate of the record;
* once the destructor has begun, and unless a handler was overtaken and is not
  done, `shuttingDown_` is set; from the clean-up on no handler is overtaken any
  more, and none when the thread is joined.

There is one lemma per member function, in the order in which they call each
other, then one per handler and posted lambda (`Good` says that it leaves such a
record and does not touch `shuttingDown_`), and `NextInv` puts them together by
action. TLC agrees with `Inv` on the lifecycle, retry and writes instances.

### 4.2 RemoteConnection: what it keeps going

`RemoteConnectionFlow` proves, from the same assumptions and on top of `Inv`:

* `ChainGoesOn`: `Spec => []ChainNeverStalls`;
* `WriterGoesOn`: `Spec => []WriterNeverStalls`;
* `NoMessageIsLost`: `Spec => []WritesInOrder`;
* `RetryComes`: `Spec => []RetryIsScheduled`;
* `RetrySparesLiveStream`: `Spec => []RetryNeverHitsLiveStream`;
* `ConnectionIsWatched`: `Spec => []ConnectedIsWatched`;
* `VoiceIsConnected`: `Spec => []VoiceNeedsConnection`;
* `SessionsAreBracketed`: `Spec => []VoiceIsBracketed`.

`Inv` says that at most one operation is outstanding where the code must not have
two. Here it is shown that there is one where the code must not have none, so
that "at most one" becomes "exactly one". The invariant `FlowInv` has these parts:

* `ChainInv`: a live stream has an operation of its phase. It holds only at the
  end of a handler, since the handler takes the operation off the queue first and
  starts the next one last; so the lemmas of the member functions carry `Mid`,
  which is `FlowInv` without it, and the handlers restore it;
* `QueueInv`: `writeInProgress_` is set exactly while a write is outstanding, no
  message waits without it, and the log of accepted messages is the log of those
  handed to the stream followed by the rest of the queue;
* `RetryInv`: Reconnecting without a stream has a reconnect timer that was not
  cancelled, and a stream past its TCP connect has none at all. The second half
  is the hardest of all, because a cancelled timer may already be queued, and
  nothing takes it out. It holds because the queue is first in, first out: no
  reconnect timer is behind an operation of the present generation (`Ordered`),
  so it has run before the handler that would bring the stream past its TCP
  connect;
* `WatchInv`: a secure stream has an idle timer of its generation, the state is
  Connected only with such a stream, and then it was announced;
* `VoiceInv`: a session or the wait for one needs Connected, they exclude each
  other, and the wait has its timer;
* `BracketInv`: `VoiceIsBracketed`, and while `voiceSessionId_` is set the log has
  the begin of that session with no begin or end behind it. `VoiceIsBracketed`
  speaks of the log alone and would not survive the next message without it.

All but the brackets are stated until the destructor runs: `~Impl` cancels timers
and closes the stream in steps of its own, in between which they do not hold and
need not. The invariant sees `pending` and `ready` only through the predicates
named at the head of the module (`Has`, `InPending`, `InReady`, `Alarm`,
`Ordered`, `OneRetry`). One lemma for each primitive of the io_context says what
it does to them, one for each member function, handler and lambda follows.

### 4.3 RemoteConnection implements ConnectionLifecycle

`RemoteConnectionRefinement` proves, from the same assumptions:

* `LossesAreAnnounced`: `Spec => LossIsAnnounced`;
* `CleanUpHolds`: `Spec => []CleanedStaysDown`;
* `JoinHolds`: `Spec => NothingRunsAfterJoin`;
* `RefinesLifecycle`: `Spec => ImplementsLifecycle`.

`CleanUpHolds` and `JoinHolds` are what remains of a flag that comes too late for
the handler at work. That handler may open a stream or set a timer after the
store; the clean-up is posted behind it, closes what it opened and cancels what
it set, and from then on every handler sees the flag, so nothing comes back: the
part of `Inv` about `overtaken` is what this needs. If `io_.stop()` came before
the clean-up, the stream stays open, and it is the join that keeps the handler
from members that are gone.

The others are about steps, so each handler is compared with the record it found.
Most member functions change nothing that the lifecycle has and begin nothing
(`Calm`); `CalmTransitive` chains them. The remaining ones (`BeginConnect`,
`HandleConnectionLoss`, `HandleMessage`, the calls, the destructor) take one step of
`Allowed` each, and no handler takes two. The guards of the abstract actions need
an invariant that also holds during the destructor, `LifeInv`: a live stream is
wanted, has a TLS context and is not Disconnected; without a stream no idle timer
of the present generation is left; a reconnect timer, cancelled or not, exists
only with `autoReconnect` and a TLS context, and, while a connection may be
attempted, never in Disconnected. The last part is why a late retry is a step
from Connecting or Reconnecting, as the lifecycle demands. TLC agrees with
`LifeInv` on the lifecycle and retry instances.

### 4.4 Pairing

`PairingProofs` proves, for any number of threads, sessions, calls and messages
(`ThreadAssumption`, `MessageAssumption`):

* `PairingTypes`: `Spec => []TypeOK`, and with it the limits of both loops;
* `NoSharedSession`: `Spec => []SessionsAreNotShared`;
* `OnlyConfiguredIsStored`: `Spec => []StoredSessionIsConfigured`;
* `ConfiguredIsKept`: `Spec => SessionSurvivesRetries`, an action property.

`SessionsAreNotShared` does not say why the session a thread works on cannot be
taken from it. The invariant adds the reasons:

* `LockInv`: the owner of `pairingMutex_` is the thread inside `finish()`, or the
  one that destroys a replaced session. So two threads never finish at once, and
  none stores while another finishes;
* `OwnInv`: each thread inside `startPairing` has a session of its own that is not
  `pairing_`. So neither storing nor an exception destroys another's session;
* `StageInv`: that session is alive from its making on, and configured when, and
  only when, `start()` has succeeded. So what is stored is configured, and what
  an exception destroys is not;
* `FreshInv`: sessions not asked for yet do not exist;
* `FinishInv`: `finish()` works on `pairing_`, reaches its successful end only when
  the television has accepted the secret, and its other end only after its last
  message;
* `StoredInv`: `StoredSessionIsConfigured`, and `pairing_` was asked for.

There is one lemma per action, with one step per conjunct.

### 4.5 ClientIdentity and RemoteCli

Under the hypothesis `OneCaller`, that one process at a time uses the paths, and
for any number of key pairs, runs, crashes, failed and lost writes:

* `WrittenIsLoadable`: `Spec => []WrittenLoads`;
* `UndisturbedIsLoadable`: `Spec => []UndisturbedReturnLoads`;
* `LoadableIsKept`: `Spec => IdentityIsKept`, an action property;
* `RunsReturnLoadable`, `RunsKeepIdentity`: the same three properties for `CliSpec`, the
  composition with the command-line client;
* `PairedIsUsable`: `CliSpec => []PairedStaysUsable`.

The hypothesis is the code's: it takes no lock, and two callers that both find
the files missing may mix their pairs (section 6). `IdentityInv` follows the call
through its writes (`ProgressInv`): from the check of the files to the end of the
last write the key file does not hold the key of the new pair, which is in no
file from before, so the two files do not match. So whatever can be loaded is
not being written. A lost write leaves its file empty, so it takes nothing from
this; it only means that "generated" may be returned for files that do not match,
which is why `WrittenLoads` excepts it, and `GeneratedLoads`, which does not, is
violated (finding 5). `ReturnInv` adds what a return may be relied on for, and
`ReadInv` that the certificate `loadClientIdentity` has read is still there when it reads
the key. `CliInv` adds what `main()` knows at each stage (`StageInv`: the identity
it loaded is the one on disk, and after the acceptance one the television
trusts) and that after a completed pairing the identity on disk is trusted
(`PairedInv`). TLC agrees with both on the instance of `Cli.cfg`.

### 4.6 WireCodec

`WireCodecProofs` proves, for all widths that meet `WidthAssumption`:

* `ReaderIsBounded`: `StaysInside(bytes)` for every sequence of bytes: each
  call of `Reader::next` that returns a field moves on, and none ends beyond
  the end of the message;
* `FramesReadBack`: the length prefix of `frame` reads back, for every payload
  whose length is a word, and what is behind it is the payload;
* `CodecRoundTrip`: for every sequence of fields that `Writer` can append, the
  loop around `Reader::next` finds the same fields, in the same order.

The library states induction for operators, which none of the provers can
instantiate. The module states it for sets instead: a set of natural numbers has a
least element (from `WFMin` and `NatLessThanWellFounded`), and `Induction` follows.
A recursive function is a `CHOOSE`, of which nothing is known until such a function
is shown to exist: `PrimitiveRecursion` does so for recursion from `n - 1`
(`Pow2`, `Total`, `Joined`), `MeasuredRecursion` for recursion down a measure
(`WalkFrom`, by the bytes that are left; `Varint`, by its value). Each function then
has its equation as a lemma (`WalkFromDef` and so on), and its recursive `CHOOSE`
is not looked at again.

The argument for the round trip has two halves. `Worth` is the number that groups
of bits stand for when no bit is lost, and `ReadsBack` shows that the loop of
`readVarint` computes it, one group at a time, in no more than `Groups` bytes. On
messages, `Encodes(s, fs)` says that wherever `s` stands in a message
(`Holds`), the reader finds the fields `fs` there and goes on behind it. The
`wherever` is what the induction needs: two such strings one behind the other
are such a string, so a builder is proved field by field, and nested messages
need no induction of their own. `Writes` adds how long the string may become,
from which it follows that its length is a word when it is nested.

### 4.7 MessageExchange

`MessageExchangeProofs` proves, from the assumptions of 2.6 and 2.7, for any
integers, strings, limits and number of frames, commands and streams:

* `LengthsExact`: `Spec => []LengthsAreExact`;
* `ReaderInside`: `Spec => []ReaderStaysInside`;
* `MeaningIsKept`: `Spec => []MeaningArrives`;
* `ClientUnderstood`: `Spec => []ClientIsUnderstood`;
* `VoiceIsWhole`: `Spec => []VoiceArrivesWhole`.

Four invariants, each on top of the one before it where it is needed:

* `StreamOK`: everything on the stream is bytes, and `rx` stands for the bytes of the
  prefix read so far (`ReaderOK`). `LengthsAreExact` alone is not inductive: it does
  not tie `readShift_` to the number of bytes read, and the next byte would be
  weighted wrongly. `ReaderInside` follows from `StreamOK` and `ReaderIsBounded`;
* `Transit`: while the television is honest there is a sequence of messages whose
  frames, laid end to end, are what was sent on this stream; the reader stands at
  a place in it, which decides its phase and length, and what was delivered are the
  messages before that place (`Carried`). `MeaningArrives` compares two logs and says
  nothing of the bytes in between, where a message can still be cut up wrongly.
  That a message which is cut out exactly also means the same to the client is
  one lemma per kind of message, with each of `Extras` in every place;
* `Said`: what was written is what was asked, each in a frame of its own. Then
  `ClientIsUnderstood` needs one lemma per builder, that the reference finds in its
  message the request it was built from (`Clear`, `PairingClear`), and the
  induction over the frames;
* `Heard`: the samples in what was asked are those of the one call of
  `sendVoiceData`, followed by silence, and before that call there are none. The
  lemma `VoiceSounds` shows it of the loop over chunks for any samples; the model
  itself makes one series of them per length.

`StepSays` sums up the four things a step may do to what was asked, so `Said`
and `Heard` have four cases and not one per action.

### 4.8 Only model-checked

* `RetryHappens`, `SilentConnectionEnds`, `OnlySilenceHoldsAttempt`,
  `VoiceStartIsDecided` and `CallsReturn`: liveness under fairness, which this
  prover does not handle.
* `ClientIdentity` with several callers has no theorem: two callers that both
  find the files missing may mix their pairs (section 6).

Every other property of a passing run is a theorem.

## 5. Findings

1. `ensureSslContext` stores the TLS context before it loads the identity. When
   loading throws, the empty context stays, and every later `connect()` uses it
   and presents no certificate, even when the files exist by then.
2. The README's `remote.connect(); remote.sendKey(...)`: the stream exists before
   the TCP connection, so the key is written to a stream that cannot take it,
   and the failed write drops the attempt and the key.
3. The voice timer's handler tests only `voiceStarting_`. If it is queued when
   `stopVoice()` and `startVoice()` run, it ends the new wait at once.
4. `generateCertificateIfMissing` takes two regular files for an identity. The run
   starts with a key and no certificate; the process ends between opening the
   certificate and writing it, and the next call takes the empty certificate and
   the old key for a present identity, which no later call repairs. The key file
   is written in the same way, and is exposed to the same.
5. `writeBioToFile` looks at `write()` and never at the flush or the close of the
   stream. When the text is still in the buffer then and the disk is full, the
   error is dropped with the stream, and the call returns true with an empty or
   cut-off file: in the run, one of the two files of a first call.

Each is a run whose one property states what the quoted document, comment or
test says, and which TLC violates.

## 6. Not modelled

* Contents of X.509 certificates and the SHA-256 digest of the pairing secret:
  OpenSSL's work. That a mistyped code may pass the local check, which compares
  one byte, is among the choices of `Pairing`.
* `parseDeviceIdentity` and `nameEntry`: they split one string of a certificate
  and keep no state.
* Key names: a constant table. Build and packaging.
* Callbacks: they run on the I/O thread in the middle of a handler. A callback
  that calls `startPairing` would wait for its own thread; the README asks for a
  worker thread, and `Pairing`'s threads are such.
* Two callers of `generateCertificateIfMissing` on the same paths:
  `ClientIdentity` has the parameter, but the code takes no lock, and no
  document allows or forbids it.
* Memory: `writeQueue_` has no limit in the code, and there is none to check.

## 7. Where it stands

Modelled are the connection core and its abstract specification, pairing with
its waits, identity files and the client that uses them, codec, messages and
their exchange. Every safety property that a passing run checks is a theorem, and so
is the refinement. What is left to TLC is liveness (4.8); what is left out
altogether is in section 6.
