-------------------------- MODULE RemoteConnection --------------------------
(***************************************************************************)
(* The remote-control connection of libandroidtvremote: the class          *)
(* AndroidTvRemote::Impl (src/src/android_tv_remote.cpp) together with the *)
(* part of Boost.Asio it runs on.                                          *)
(*                                                                         *)
(* The variable impl is one record that holds the members of Impl and the  *)
(* io_context's bookkeeping.  Each private member function of the class is *)
(* an operator from records to records that keeps the function's name; an  *)
(* action is a completion handler, a lambda posted by a public function, a *)
(* step of the destructor, or a move of the environment (the network, the  *)
(* television, the timers).                                                *)
(*                                                                         *)
(* The I/O thread is the only one that runs handlers, so each handler is   *)
(* one atomic step.  An operation is `pending' until it completes; its     *)
(* handler then waits its turn in the FIFO `ready'.  Posted lambdas run at *)
(* any moment between two handlers, which covers every place the FIFO can  *)
(* give them.                                                              *)
(*                                                                         *)
(* The one member that two threads use is shuttingDown_, which ~Impl sets  *)
(* on the application's thread.  The store may fall into the middle of a   *)
(* handler, after its test of the flag and before what the test allowed:   *)
(* the variable overtaken says that such a handler is still at work.       *)
(***************************************************************************)
EXTENDS Integers, Sequences, FiniteSets

CONSTANTS
    AutoReconnect,  \* Options::autoReconnect
    OptionFeatures, \* the features Options asks for
    Features,       \* every feature bit that matters; "voice" is one of them
    Words,          \* session ids, IME counters, ping values, mirrored values
    NoSession,      \* std::nullopt of voiceSessionId_
    TvMessages,     \* the messages the television may send
    TvBytes,        \* the kinds of length bytes it may send
    Expiring,       \* the timers that get the time to expire
    MinDelay,       \* the first reconnect delay (100 ms in the code)
    MaxDelay,       \* the cap of the reconnect delay (30 s in the code)
    MaxShift,       \* the largest shift of a length varint (63 in the code)
    MaxChunks,      \* the most chunks one sendVoiceData call is cut into
    Calls,          \* the public functions the application uses
    MaxCalls,       \* bound: how many calls it makes
    MaxFaults,      \* bound: how many operations the network fails
    MaxBytes,       \* bound: how many length bytes the television sends
    MaxSessions     \* bound: how many TLS handshakes the television accepts

TvKinds == {"Configure", "SetActive", "ImeKeyInject", "ImeBatchEdit",
            "Volume", "Start", "Ping", "Error", "VoiceBegin", "Unknown"}

CallNames == {"connect", "disconnect", "startPairing", "sendKey", "sendText",
              "startVoice", "sendVoiceData", "stopVoice",
              "generateCertificate", "destroy"}

\* What a length byte means once it is added to readLength_: more bytes follow,
\* or the frame is empty, has a body, or is longer than MaxFrameSize.
LengthBytes == {"more", "empty", "body", "tooLong"}

\* The operations of one connection attempt follow each other in a chain:
\* name resolution, TCP connect, TLS handshake, then one read after another.
ChainKinds == {"resolve", "connect", "handshake", "readLength", "readBody"}
TimerKinds == {"reconnectTimer", "idleTimer", "voiceTimer"}
OpKinds    == ChainKinds \cup TimerKinds \cup {"write"}

\* What every proof and every run assumes of the parameters.
ASSUME OptionsAssumption ==
    /\ AutoReconnect \in BOOLEAN
    /\ "voice" \in Features
    /\ OptionFeatures \subseteq Features

ASSUME DataAssumption ==
    /\ 0 \in Words
    /\ NoSession \notin Words
    /\ TvMessages \subseteq [kind: TvKinds, word: Words, features: SUBSET Features]
    /\ TvBytes \subseteq LengthBytes

ASSUME LimitAssumption ==
    /\ MinDelay \in Nat \ {0} /\ MaxDelay \in Nat /\ MinDelay <= MaxDelay
    /\ MaxShift \in Nat /\ MaxChunks \in Nat

ASSUME BoundAssumption ==
    /\ Calls \subseteq CallNames /\ Expiring \subseteq TimerKinds
    /\ MaxCalls \in Nat /\ MaxFaults \in Nat
    /\ MaxBytes \in Nat /\ MaxSessions \in Nat

VARIABLES
    impl,        \* AndroidTvRemote::Impl and its io_context
    certificate, \* are a certificate and a matching key on disk?
    destructor,  \* how far ~Impl has got
    overtaken,   \* the handler that read shuttingDown_ before ~Impl set it
    budget       \* what is left of the bounds

vars == <<impl, certificate, destructor, overtaken, budget>>

-----------------------------------------------------------------------------
(* Types. *)

States == {"Disconnected", "Connecting", "Connected", "Reconnecting"}

\* gen is the generation_ current when the operation was started.
Ops == [kind: OpKinds, gen: Nat]

\* "late": a timer that expired, and was cancelled or set anew while its
\* handler was already in the queue.  The handler still sees success.
Results == {"ok", "error", "late"}
Completions == [op: Ops, result: Results]

MessageKinds == {"Key", "Text", "ConfigureResponse", "SetActiveResponse",
                 "PingResponse", "VoiceBegin", "VoicePayload", "VoiceEnd"}
Messages == [kind: MessageKinds, word: Words, features: SUBSET Features]
Message(kind, word) == [kind |-> kind, word |-> word, features |-> {}]

\* What the program remembers of the television's last reports.
MirrorFields == {"device", "app", "volume", "power", "ime"}

MessageSeqs    == Seq(Messages)
CompletionSeqs == Seq(Completions)
Delays         == MinDelay..MaxDelay
Sessions       == Words \cup {NoSession}
Mirrors        == [MirrorFields -> Words]

\* shuttingDown is shuttingDown_ as the handler that runs next will find it.
ImplType ==
    [ userDisconnect  : BOOLEAN,
      shuttingDown    : BOOLEAN,
      state           : States,
      generation      : Nat,
      sslContext      : {"null", "empty", "identity"},
      stream          : {"null", "opened", "handshaking", "secure"},
      readShift       : Nat,
      writeQueue      : MessageSeqs,
      writeInProgress : BOOLEAN,
      reconnectDelay  : Delays,
      activeFeatures  : SUBSET Features,
      voiceEnabled    : BOOLEAN,
      voiceStarting   : BOOLEAN,
      voiceSessionId  : Sessions,
      mirror          : Mirrors,
      \* the io_context
      pending         : SUBSET Ops,
      ready           : CompletionSeqs,
      \* history: the last onAvailabilityChanged; the messages queueMessage
      \* took for the present stream and the ones handed to async_write;
      \* whether an operation was started that its object could not take
      available       : BOOLEAN,
      accepted        : MessageSeqs,
      sent            : MessageSeqs,
      misuse          : BOOLEAN ]

\* The members as the constructor leaves them.
InitialImpl ==
    [ userDisconnect  |-> TRUE,
      shuttingDown    |-> FALSE,
      state           |-> "Disconnected",
      generation      |-> 0,
      sslContext      |-> "null",
      stream          |-> "null",
      readShift       |-> 0,
      writeQueue      |-> <<>>,
      writeInProgress |-> FALSE,
      reconnectDelay  |-> MinDelay,
      activeFeatures  |-> OptionFeatures,
      voiceEnabled    |-> FALSE,
      voiceStarting   |-> FALSE,
      voiceSessionId  |-> NoSession,
      mirror          |-> [f \in MirrorFields |-> 0],
      pending         |-> {},
      ready           |-> <<>>,
      available       |-> FALSE,
      accepted        |-> <<>>,
      sent            |-> <<>>,
      misuse          |-> FALSE ]

-----------------------------------------------------------------------------
(* Boost.Asio, as far as Impl uses it. *)

Outstanding(s) == s.pending \cup {s.ready[i].op : i \in DOMAIN s.ready}

\* Two operations compete when they belong to the same direction of a stream.
Compete(k, l) == \/ k \in ChainKinds /\ l \in ChainKinds
                 \/ k = "write" /\ l = "write"

\* Starting `kind' is a misuse when it needs the stream and there is none
\* (stream_ would be dereferenced as null), or when the present stream already
\* has an operation in that direction, which Asio forbids.
Misused(s, kind) ==
    /\ kind \notin TimerKinds
    /\ \/ s.stream = "null"
       \/ \E o \in Outstanding(s) : o.gen = s.generation /\ Compete(o.kind, kind)

\* Start an asynchronous operation.  OpenSSL refuses to write on a stream whose
\* handshake has not begun, so that write completes at once with an error.
Start(s, kind) ==
    LET op == [kind |-> kind, gen |-> s.generation]
        t  == [s EXCEPT !.misuse = @ \/ Misused(s, kind)]
    IN  IF kind = "write" /\ s.stream = "opened"
        THEN [t EXCEPT !.ready = Append(@, [op |-> op, result |-> "error"])]
        ELSE [t EXCEPT !.pending = @ \cup {op}]

\* steady_timer::cancel: the waits still pending end (their handlers see an
\* error and do nothing); a handler that is already queued runs regardless.
CancelTimer(s, timer) ==
    [s EXCEPT !.pending = {o \in @ : o.kind # timer},
              !.ready   = [i \in DOMAIN @ |->
                              IF @[i].op.kind = timer
                              THEN [@[i] EXCEPT !.result = "late"]
                              ELSE @[i]]]

\* steady_timer::expires_after followed by async_wait.
SetTimer(s, timer) == Start(CancelTimer(s, timer), timer)

-----------------------------------------------------------------------------
(* The private member functions of Impl. *)

SetState(s, state) == [s EXCEPT !.state = state]

EmitAvailability(s, available) == [s EXCEPT !.available = available]

\* (Broken: expires_after without a new async_wait.)
ResetIdleTimerNoWait(s) == CancelTimer(s, "idleTimer")

ResetIdleTimer(s) == SetTimer(s, "idleTimer")

\* (Broken: a step that is left out.)
Skip(s) == s

\* closeStream, piece by piece.  The operations of the closed stream stay
\* pending with a generation that is no longer current; their aborted
\* completions arrive later.
InvalidateHandlers(s) == [s EXCEPT !.generation = @ + 1]

ForgetVoice(s) == [s EXCEPT !.voiceStarting = FALSE, !.voiceSessionId = NoSession]

\* (Broken: writeInProgress_ is not reset.)
ForgetWritesKeepFlag(s) ==
    [s EXCEPT !.writeQueue = <<>>, !.accepted = <<>>, !.sent = <<>>]

ForgetWrites(s) ==
    [s EXCEPT !.writeQueue = <<>>, !.writeInProgress = FALSE,
              !.accepted = <<>>, !.sent = <<>>]

CloseStream(s) ==
    [ForgetWrites(ForgetVoice(InvalidateHandlers(s)))
     EXCEPT !.readShift = 0, !.stream = "null"]

\* The context is stored before the identity is loaded, and stays stored when
\* loading throws; `loadable' says whether the files can be loaded.
EnsureSslContext(s, loadable) ==
    [s EXCEPT !.sslContext =
        IF @ # "null" THEN @ ELSE IF loadable THEN "identity" ELSE "empty"]

EnsureSslContextThrows(s, loadable) == s.sslContext = "null" /\ ~loadable

\* (Broken: shuttingDown_ is not looked at.)
MayConnectWhileClosing(s) == ~s.userDisconnect

MayConnect(s) == ~s.shuttingDown /\ ~s.userDisconnect

BeginConnect(s, reconnecting, loadable) ==
    LET c == EnsureSslContext(CloseStream(s), loadable)
        state == IF reconnecting THEN "Reconnecting" ELSE "Connecting"
    IN  IF ~MayConnect(s) THEN s
        ELSE IF EnsureSslContextThrows(s, loadable) THEN SetState(c, "Disconnected")
        ELSE Start([SetState(c, state) EXCEPT !.stream = "opened"], "resolve")

AnnounceLoss(s) == IF s.state = "Connected" THEN EmitAvailability(s, FALSE) ELSE s

\* (Broken: the delay has no cap.)
ScheduleReconnectUncapped(s) ==
    [SetTimer(s, "reconnectTimer") EXCEPT !.reconnectDelay = 2 * @]

\* (Broken: expires_after without async_wait.)
ScheduleReconnectNoWait(s) == CancelTimer(s, "reconnectTimer")

ScheduleReconnect(s) ==
    [SetTimer(s, "reconnectTimer")
     EXCEPT !.reconnectDelay = IF 2 * @ <= MaxDelay THEN 2 * @ ELSE MaxDelay]

HandleConnectionLoss(s, gen) ==
    LET c == AnnounceLoss(CloseStream(s))
    IN  IF gen # s.generation THEN s
        ELSE IF AutoReconnect /\ MayConnect(s)
             THEN ScheduleReconnect(SetState(c, "Reconnecting"))
             ELSE SetState(c, "Disconnected")

ConnectionFailed(s, gen) == IF MayConnect(s) THEN HandleConnectionLoss(s, gen) ELSE s

AuthenticationFailed(s, gen) ==
    IF gen # s.generation \/ ~MayConnect(s) THEN s
    ELSE LET c == SetState(CloseStream(s), "Disconnected")
         IN  IF s.state = "Connected" THEN EmitAvailability(c, FALSE) ELSE c

ReadOneLengthByte(s, gen) ==
    IF s.stream = "null" \/ gen # s.generation THEN s ELSE Start(s, "readLength")

BeginReadLength(s, gen) ==
    IF s.stream = "null" \/ gen # s.generation THEN s
    ELSE ReadOneLengthByte([s EXCEPT !.readShift = 0], gen)

BeginWrite(s) ==
    IF s.stream = "null" \/ s.writeQueue = <<>>
    THEN [s EXCEPT !.writeInProgress = FALSE]
    ELSE Start([s EXCEPT !.writeInProgress = TRUE,
                         !.sent = Append(@, Head(s.writeQueue))], "write")

\* (Broken: writeInProgress_ is not looked at.)
QueueMessagesEager(s, ms) ==
    LET r == ResetIdleTimer(s)
    IN  IF s.stream = "null" THEN s
        ELSE BeginWrite([r EXCEPT !.writeQueue = @ \o ms, !.accepted = @ \o ms])

\* queueMessage for each message of ms in turn: after the first one a write is
\* in progress, so the others only join the queue.
QueueMessages(s, ms) ==
    LET r == ResetIdleTimer(s)
        q == [r EXCEPT !.writeQueue = @ \o ms, !.accepted = @ \o ms]
    IN  IF s.stream = "null" THEN s
        ELSE IF q.writeInProgress THEN q ELSE BeginWrite(q)

QueueMessage(s, m) == QueueMessages(s, <<m>>)

Mirror(s, field, word) == [s EXCEPT !.mirror = [@ EXCEPT ![field] = word]]

\* The answer to Configure: the features only ever shrink.
Configure(s, m) ==
    LET active == s.activeFeatures \cap m.features
    IN  QueueMessage([Mirror(s, "device", m.word)
                      EXCEPT !.activeFeatures = active,
                             !.voiceEnabled = "voice" \in active],
                     [Message("ConfigureResponse", 0) EXCEPT !.features = active])

VoiceBegun(s, session) ==
    IF ~s.voiceStarting THEN s
    ELSE QueueMessage([CancelTimer(s, "voiceTimer")
                       EXCEPT !.voiceStarting = FALSE, !.voiceSessionId = session],
                      Message("VoiceBegin", session))

HandleMessage(s, m) ==
    CASE m.kind = "Configure"    -> Configure(s, m)
      [] m.kind = "SetActive"    ->
           QueueMessage(s, [Message("SetActiveResponse", 0)
                            EXCEPT !.features = s.activeFeatures])
      [] m.kind = "ImeKeyInject" -> Mirror(s, "app", m.word)
      [] m.kind = "ImeBatchEdit" -> Mirror(s, "ime", m.word)
      [] m.kind = "Volume"       -> Mirror(s, "volume", m.word)
      [] m.kind = "Start"        ->
           EmitAvailability(SetState(Mirror(s, "power", m.word), "Connected"), TRUE)
      [] m.kind = "Ping"         -> QueueMessage(s, Message("PingResponse", m.word))
      [] m.kind = "VoiceBegin"   -> VoiceBegun(s, m.word)
      [] m.kind \in {"Error", "Unknown"} -> s

-----------------------------------------------------------------------------
(* Completion handlers: what each does once its operation has completed. *)

\* (Broken: the generation is not looked at.)
ResolveDoneUnchecked(s, c) ==
    IF c.result = "error" THEN ConnectionFailed(s, c.op.gen) ELSE Start(s, "connect")

ResolveDone(s, c) ==
    IF c.op.gen # s.generation THEN s
    ELSE IF c.result = "error" THEN ConnectionFailed(s, c.op.gen)
    ELSE Start(s, "connect")

ConnectDone(s, c) ==
    IF c.op.gen # s.generation THEN s
    ELSE IF c.result = "error" THEN ConnectionFailed(s, c.op.gen)
    ELSE Start([s EXCEPT !.stream = "handshaking"], "handshake")

\* (Broken: the idle timer waits for the first message.)
HandshakeDoneUnwatched(s, c) ==
    IF c.op.gen # s.generation THEN s
    ELSE IF c.result = "error" THEN AuthenticationFailed(s, c.op.gen)
    ELSE BeginReadLength([s EXCEPT !.stream = "secure", !.reconnectDelay = MinDelay], c.op.gen)

HandshakeDone(s, c) ==
    IF c.op.gen # s.generation THEN s
    ELSE IF c.result = "error" THEN AuthenticationFailed(s, c.op.gen)
    ELSE ResetIdleTimer(BeginReadLength(
             [s EXCEPT !.stream = "secure", !.reconnectDelay = MinDelay], c.op.gen))

\* The message handleMessage sees in an empty frame.
EmptyFrame == [kind |-> "Unknown", word |-> 0, features |-> {}]

\* (Broken: nothing is read after an empty frame.)
EmptyFrameDoneStops(s, gen) == HandleMessage(s, EmptyFrame)

EmptyFrameDone(s, gen) == BeginReadLength(HandleMessage(s, EmptyFrame), gen)

LengthByteDone(s, c, byte) ==
    LET t == [s EXCEPT !.readShift = @ + 7]
    IN  IF c.op.gen # s.generation THEN s
        ELSE IF c.result = "error" THEN ConnectionFailed(s, c.op.gen)
        ELSE CASE byte = "more" ->
                    IF t.readShift > MaxShift THEN HandleConnectionLoss(t, c.op.gen)
                    ELSE ReadOneLengthByte(t, c.op.gen)
               [] byte = "tooLong" -> HandleConnectionLoss(s, c.op.gen)
               [] byte = "empty"   -> EmptyFrameDone(s, c.op.gen)
               [] byte = "body"    -> Start(s, "readBody")

BodyDone(s, c, m) ==
    IF c.op.gen # s.generation THEN s
    ELSE IF c.result = "error" THEN ConnectionFailed(s, c.op.gen)
    ELSE BeginReadLength(HandleMessage(ResetIdleTimer(s), m), c.op.gen)

WriteDone(s, c) ==
    IF c.op.gen # s.generation THEN s
    ELSE IF c.result = "error"
         THEN ConnectionFailed([s EXCEPT !.writeInProgress = FALSE], c.op.gen)
         ELSE BeginWrite([s EXCEPT !.writeQueue = Tail(@)])

ReconnectTimerDone(s, loadable) ==
    IF s.userDisconnect THEN s ELSE BeginConnect(s, TRUE, loadable)

IdleTimerDone(s, c) ==
    IF s.userDisconnect \/ c.op.gen # s.generation THEN s
    ELSE HandleConnectionLoss(s, c.op.gen)

VoiceTimerDone(s) == [s EXCEPT !.voiceStarting = FALSE]

-----------------------------------------------------------------------------
(* The environment. *)

Running == destructor \notin {"stopped", "joined"}

\* An operation of the present connection completes with success; a name
\* resolution or a TCP connect always may, a handshake or a length byte takes
\* something of what the television is bounded to.
OpSucceeds ==
    /\ Running
    /\ \E op \in impl.pending :
         /\ op.kind \notin TimerKinds
         /\ op.gen = impl.generation
         /\ op.kind = "handshake" => budget.sessions > 0
         /\ op.kind = "readLength" => budget.bytes > 0
         /\ impl' = [impl EXCEPT !.pending = @ \ {op},
                                 !.ready = Append(@, [op |-> op, result |-> "ok"])]
         /\ budget' = CASE op.kind = "handshake" -> [budget EXCEPT !.sessions = @ - 1]
                        [] op.kind = "readLength" -> [budget EXCEPT !.bytes = @ - 1]
                        [] OTHER -> budget
    /\ UNCHANGED <<certificate, destructor, overtaken>>

\* The network fails an operation of the present connection.
OpFails ==
    /\ Running
    /\ budget.faults > 0
    /\ \E op \in impl.pending :
         /\ op.kind \notin TimerKinds
         /\ op.gen = impl.generation
         /\ impl' = [impl EXCEPT !.pending = @ \ {op},
                                 !.ready = Append(@, [op |-> op, result |-> "error"])]
    /\ budget' = [budget EXCEPT !.faults = @ - 1]
    /\ UNCHANGED <<certificate, destructor, overtaken>>

\* An operation of a connection that was closed ends; a resolution is never
\* cancelled and may well have succeeded, the others are aborted.
StaleOpEnds ==
    /\ Running
    /\ \E op \in impl.pending :
         /\ op.kind \notin TimerKinds
         /\ op.gen # impl.generation
         /\ \E result \in IF op.kind = "resolve" THEN {"ok"} ELSE {"error"} :
              impl' = [impl EXCEPT !.pending = @ \ {op},
                                   !.ready = Append(@, [op |-> op, result |-> result])]
    /\ UNCHANGED <<certificate, destructor, overtaken, budget>>

TimerExpires(timer) ==
    /\ Running
    /\ timer \in Expiring
    /\ \E op \in impl.pending :
         /\ op.kind = timer
         /\ impl' = [impl EXCEPT !.pending = @ \ {op},
                                 !.ready = Append(@, [op |-> op, result |-> "ok"])]
    /\ UNCHANGED <<certificate, destructor, overtaken, budget>>

-----------------------------------------------------------------------------
(* The I/O thread: io_.run() takes the next handler. *)

\* A handler, or a posted lambda, runs until io_.stop(); one that ~Impl has
\* overtaken is in the middle of its work and finishes it, stop() or not,
\* before any other gets its turn.
Runs ==
    /\ IF overtaken = "no" THEN Running ELSE overtaken = "running"
    /\ overtaken' = IF overtaken = "running" THEN "returned" ELSE overtaken

First == Head(impl.ready)
Taken == [impl EXCEPT !.ready = Tail(@)]

Handler(kind) ==
    /\ Runs
    /\ impl.ready # <<>>
    /\ First.op.kind = kind
    /\ UNCHANGED <<certificate, destructor, budget>>

OnResolve   == Handler("resolve")   /\ impl' = ResolveDone(Taken, First)
OnConnect   == Handler("connect")   /\ impl' = ConnectDone(Taken, First)
OnHandshake == Handler("handshake") /\ impl' = HandshakeDone(Taken, First)

OnLengthByte ==
    /\ Handler("readLength")
    /\ \E byte \in TvBytes : impl' = LengthByteDone(Taken, First, byte)

OnBody ==
    /\ Handler("readBody")
    /\ \E m \in TvMessages : impl' = BodyDone(Taken, First, m)

OnWrite          == Handler("write") /\ impl' = WriteDone(Taken, First)
OnReconnectTimer == Handler("reconnectTimer") /\ impl' = ReconnectTimerDone(Taken, certificate)
OnIdleTimer      == Handler("idleTimer") /\ impl' = IdleTimerDone(Taken, First)
OnVoiceTimer     == Handler("voiceTimer") /\ impl' = VoiceTimerDone(Taken)

Flagged(s) == [s EXCEPT !.shuttingDown = TRUE]

\* connectionFailed and the handleConnectionLoss it calls both read the flag:
\* ~Impl sets it between the two.
OnFailureFlagged ==
    /\ overtaken = "running"
    /\ \E kind \in {"resolve", "connect", "readLength", "readBody", "write"} : Handler(kind)
    /\ First.op.gen = impl.generation /\ First.result = "error"
    /\ MayConnect(impl)
    /\ impl' = HandleConnectionLoss(Flagged(Taken), First.op.gen)

RunHandler ==
    \/ OnResolve \/ OnConnect \/ OnHandshake \/ OnLengthByte \/ OnBody
    \/ OnWrite \/ OnReconnectTimer \/ OnIdleTimer \/ OnVoiceTimer
    \/ OnFailureFlagged

-----------------------------------------------------------------------------
(* The application: the lambdas that the public functions post. *)

Call(name) ==
    /\ name \in Calls
    /\ budget.calls > 0
    /\ budget' = [budget EXCEPT !.calls = @ - 1]

Posted(s) == Runs /\ impl' = s /\ UNCHANGED <<certificate, destructor>>

\* (Broken: the reconnect timer keeps running.)
ConnectPostedKeepsTimer(s, loadable) ==
    BeginConnect([s EXCEPT !.userDisconnect = FALSE, !.reconnectDelay = MinDelay],
                 FALSE, loadable)

ConnectPosted(s, loadable) ==
    BeginConnect([CancelTimer(s, "reconnectTimer")
                  EXCEPT !.userDisconnect = FALSE, !.reconnectDelay = MinDelay],
                 FALSE, loadable)

Connect == Call("connect") /\ Posted(ConnectPosted(impl, certificate))

CancelTimers(s) ==
    CancelTimer(CancelTimer(CancelTimer(s, "reconnectTimer"), "idleTimer"), "voiceTimer")

\* (Broken: userDisconnect_ is not set.)
DropStillWanted(s) == SetState(CloseStream(CancelTimers(s)), "Disconnected")

\* What disconnect and disconnectAndWait share.
Drop(s) ==
    SetState(CloseStream(CancelTimers([s EXCEPT !.userDisconnect = TRUE])), "Disconnected")

Disconnect == Call("disconnect") /\ Posted(EmitAvailability(Drop(impl), FALSE))

\* startPairing first waits for disconnectAndWait; the rest of it never
\* touches this state.
StartPairing == Call("startPairing") /\ Posted(Drop(impl))

\* sendKey and launchApp.
SendKey == Call("sendKey") /\ Posted(QueueMessage(impl, Message("Key", 0)))

SendText == Call("sendText") /\ Posted(QueueMessage(impl, Message("Text", impl.mirror["ime"])))

StartVoicePosted(s) ==
    IF \/ ~s.voiceEnabled
       \/ s.voiceStarting \/ s.voiceSessionId # NoSession
       \/ s.state # "Connected"
    THEN s
    ELSE SetTimer(QueueMessage([s EXCEPT !.voiceStarting = TRUE], Message("Key", 0)),
                  "voiceTimer")

StartVoice == Call("startVoice") /\ Posted(StartVoicePosted(impl))

\* The data is cut into chunks, each a message of its own.
SendVoiceDataPosted(s, chunks) ==
    IF s.voiceSessionId = NoSession THEN s
    ELSE QueueMessages(s, [i \in 1..chunks |-> Message("VoicePayload", s.voiceSessionId)])

SendVoiceData ==
    /\ Call("sendVoiceData")
    /\ \E chunks \in 1..MaxChunks : Posted(SendVoiceDataPosted(impl, chunks))

\* (Broken: the session id is kept.)
EndSessionKeepsId(s) == QueueMessage(s, Message("VoiceEnd", s.voiceSessionId))

EndSession(s) ==
    [QueueMessage(s, Message("VoiceEnd", s.voiceSessionId)) EXCEPT !.voiceSessionId = NoSession]

StopVoicePosted(s) ==
    LET t == [CancelTimer(s, "voiceTimer") EXCEPT !.voiceStarting = FALSE]
    IN  IF t.voiceSessionId = NoSession THEN t ELSE EndSession(t)

StopVoice == Call("stopVoice") /\ Posted(StopVoicePosted(impl))

\* The application obtains an identity, as generateCertificateIfMissing does.
GenerateCertificate ==
    /\ Call("generateCertificate")
    /\ Running
    /\ ~certificate
    /\ certificate' = TRUE
    /\ UNCHANGED <<impl, destructor, overtaken>>

-----------------------------------------------------------------------------
(* ~Impl, on the application's thread: the flag, the posted clean-up, then *)
(* io_.stop(), which may come before the clean-up has had its turn, and    *)
(* the wait for the I/O thread.                                            *)

DestroyBegins ==
    /\ "destroy" \in Calls
    /\ destructor = "none"
    /\ destructor' = "flagged"
    /\ \/ overtaken' = "no" /\ impl' = Flagged(impl)
       \/ /\ impl.ready # <<>> \/ budget.calls > 0
          /\ overtaken' = "running" /\ UNCHANGED impl
    /\ UNCHANGED <<certificate, budget>>

\* The handler that was overtaken is done; the next one will find the flag set.
HandlerReturns ==
    /\ overtaken = "returned"
    /\ overtaken' = "no"
    /\ impl' = Flagged(impl)
    /\ UNCHANGED <<certificate, destructor, budget>>

DestroyPosts ==
    /\ destructor = "flagged"
    /\ destructor' = "posted"
    /\ UNCHANGED <<impl, certificate, overtaken, budget>>

\* The posted lambda, on the I/O thread.
CleanUp ==
    /\ destructor = "posted"
    /\ overtaken = "no"
    /\ destructor' = "cleaned"
    /\ impl' = CancelTimers(CloseStream([impl EXCEPT !.userDisconnect = TRUE]))
    /\ UNCHANGED <<certificate, overtaken, budget>>

StopIo ==
    /\ destructor \in {"posted", "cleaned"}
    /\ destructor' = "stopped"
    /\ UNCHANGED <<impl, certificate, overtaken, budget>>

\* (Broken: the I/O thread is let go instead of waited for.)
Detach ==
    /\ destructor = "stopped"
    /\ destructor' = "joined"
    /\ UNCHANGED <<impl, certificate, overtaken, budget>>

\* ioThread_.join() returns once io_.run() has, after its last handler.
Join ==
    /\ destructor = "stopped"
    /\ overtaken = "no"
    /\ destructor' = "joined"
    /\ UNCHANGED <<impl, certificate, overtaken, budget>>

-----------------------------------------------------------------------------
Init ==
    /\ impl = InitialImpl
    /\ certificate \in BOOLEAN
    /\ destructor = "none"
    /\ overtaken = "no"
    /\ budget = [calls |-> MaxCalls, faults |-> MaxFaults,
                 bytes |-> MaxBytes, sessions |-> MaxSessions]

Application ==
    \/ Connect \/ Disconnect \/ StartPairing \/ SendKey \/ SendText
    \/ StartVoice \/ SendVoiceData \/ StopVoice \/ GenerateCertificate

Environment ==
    OpSucceeds \/ OpFails \/ StaleOpEnds \/ \E timer \in TimerKinds : TimerExpires(timer)

Destructor ==
    DestroyBegins \/ HandlerReturns \/ DestroyPosts \/ CleanUp \/ StopIo \/ Join

Next == RunHandler \/ Application \/ Environment \/ Destructor

Spec == Init /\ [][Next]_vars

\* The I/O thread keeps running handlers and timers keep expiring.  Nothing is
\* assumed of the network or of the television.
Fairness ==
    /\ WF_vars(RunHandler)
    /\ \A timer \in TimerKinds : WF_vars(TimerExpires(timer))

FairSpec == Spec /\ Fairness

-----------------------------------------------------------------------------
(* Properties.  The parts of the invariant are predicates of one record, so *)
(* that they can be proved of each member function separately.              *)

BudgetType == [calls: 0..MaxCalls, faults: 0..MaxFaults,
               bytes: 0..MaxBytes, sessions: 0..MaxSessions]

\* Every variable has its type.
TypeOK ==
    /\ impl \in ImplType
    /\ certificate \in BOOLEAN
    /\ destructor \in {"none", "flagged", "posted", "cleaned", "stopped", "joined"}
    /\ overtaken \in {"no", "running", "returned"}
    /\ budget \in BudgetType

\* The operations of the present generation, waiting or with a queued handler.
Current(s) == {o \in Outstanding(s) : o.gen = s.generation}

\* The chain operations a stream can be in the middle of.
ChainOf(stream) ==
    CASE stream = "opened"      -> {"resolve", "connect"}
      [] stream = "handshaking" -> {"handshake"}
      [] stream = "secure"      -> {"readLength", "readBody"}
      [] stream = "null"        -> {}

\* No handler dereferences a null stream_, and no read or write is started
\* while another one of the same stream and direction is outstanding, whatever
\* stale completions arrive after closeStream (Asio forbids overlapping
\* composed reads, and composed writes).
StreamsAreNotMisused == ~impl.misuse

\* Until the destructor runs, a stream that exists has exactly one operation
\* of its chain outstanding, the one its phase calls for: beginConnect's chain
\* of handlers never forks and never comes to a halt on a live stream.
ChainNeverStalls ==
    ~impl.shuttingDown =>
        IF impl.stream = "null" THEN Current(impl) \cap [kind: ChainKinds, gen: Nat] = {}
        ELSE \E o \in Current(impl) :
                /\ o.kind \in ChainOf(impl.stream)
                /\ \A p \in Current(impl) : p.kind \in ChainKinds => p = o

\* writeInProgress_ says exactly whether a write of the present stream is
\* outstanding, and messages wait in writeQueue_ only behind such a write: a
\* queued message is never forgotten by queueMessage and beginWrite.
WriterNeverStalls ==
    ~impl.shuttingDown =>
        /\ impl.writeInProgress <=> \E o \in Current(impl) : o.kind = "write"
        /\ impl.writeQueue # <<>> => impl.writeInProgress

\* The messages handed to async_write on a stream, followed by the ones still
\* in writeQueue_ behind the front, are the messages queueMessage accepted for
\* that stream: none is lost, repeated, reordered or carried over.
WritesInOrder ==
    ~impl.shuttingDown =>
        impl.accepted = impl.sent \o (IF impl.writeInProgress THEN Tail(impl.writeQueue)
                                      ELSE impl.writeQueue)

\* Once the application has disconnected (or begun pairing), and until it
\* connects again, there is no stream and the state is Disconnected, whatever
\* handlers and timers were under way; Disconnected always means no stream.
DisconnectedStaysDown ==
    ~impl.shuttingDown =>
        /\ impl.userDisconnect => impl.state = "Disconnected"
        /\ impl.state = "Disconnected" => impl.stream = "null"
        /\ impl.state \in {"Connecting", "Connected"} => impl.stream # "null"

\* While the state says Reconnecting and there is no stream, a reconnect timer
\* that was not cancelled is running or its handler is queued.
RetryIsScheduled ==
    impl.state = "Reconnecting" /\ impl.stream = "null" /\ ~impl.shuttingDown =>
        \/ \E o \in impl.pending : o.kind = "reconnectTimer"
        \/ \E i \in DOMAIN impl.ready :
              impl.ready[i].op.kind = "reconnectTimer" /\ impl.ready[i].result = "ok"

\* The reconnect timer's handler checks no generation: still it never finds a
\* connection beyond its TCP connect, so beginConnect(true) never tears down a
\* connection in its handshake or in use.
RetryNeverHitsLiveStream ==
    ~impl.shuttingDown =>
        \A o \in Outstanding(impl) :
            o.kind = "reconnectTimer" => impl.stream \in {"null", "opened"}

\* Connected means a stream past its handshake, an application that was told
\* so, and an idle timer watching this very stream.
ConnectedIsWatched ==
    impl.state = "Connected" /\ ~impl.shuttingDown =>
        /\ impl.stream = "secure"
        /\ impl.available
        /\ \E o \in Current(impl) : o.kind = "idleTimer"

\* Until the destructor runs, a voice session, or the wait for one, exists only
\* on a Connected stream; never both; and the wait always has its timer.
VoiceNeedsConnection ==
    ~impl.shuttingDown =>
        /\ impl.voiceStarting \/ impl.voiceSessionId # NoSession =>
               impl.stream = "secure" /\ impl.state = "Connected"
        /\ ~(impl.voiceStarting /\ impl.voiceSessionId # NoSession)
        /\ impl.voiceStarting => \E o \in Outstanding(impl) : o.kind = "voiceTimer"

\* On each stream, voice data and the end of a session are sent only after
\* the begin of that session and before its end: a session never leaks to the
\* connection that follows it.
VoiceIsBracketed ==
    LET log == impl.accepted IN
    \A i \in DOMAIN log :
        log[i].kind \in {"VoicePayload", "VoiceEnd"} =>
            \E j \in 1..(i - 1) :
                /\ log[j] = Message("VoiceBegin", log[i].word)
                /\ \A k \in (j + 1)..(i - 1) : log[k].kind \notin {"VoiceBegin", "VoiceEnd"}

\* A connection that is lost while Connected is announced: the step from
\* Connected to Reconnecting, taken by any handler, reports unavailability.
LossIsAnnounced ==
    [][impl.state = "Connected" /\ impl'.state = "Reconnecting" => ~impl'.available]_vars

\* The stream is closed and nothing is under way that could open one, use one
\* or give one up: no reconnect or idle timer runs, and no operation of the
\* present generation but a voice timer's, which only ends a wait.
IsDown(s) ==
    /\ s.stream = "null"
    /\ \A o \in s.pending :
          /\ o.kind \notin {"reconnectTimer", "idleTimer"}
          /\ o.gen = s.generation => o.kind = "voiceTimer"

\* What ~Impl's clean-up has closed stays closed: an attempt begun by a handler
\* that read shuttingDown_ before it was set comes before the clean-up and ends
\* with it, and neither a handler still in the queue (the reconnect timer's, a
\* resolution's) nor a late connect() or startVoice(), posted by a callback
\* behind the clean-up, opens a stream or sets a timer again.
CleanedStaysDown == destructor = "cleaned" => IsDown(impl)

\* When ~Impl's join has returned, and the members go, no handler touches them
\* any more: not even one that the flag and io_.stop() overtook half-way, with
\* a stream it has still to open.
NothingRunsAfterJoin == [][destructor = "joined" => UNCHANGED impl]_vars

\* What the application sees of the connection is what ConnectionLifecycle
\* allows.
Lifecycle == INSTANCE ConnectionLifecycle
    WITH state <- impl.state, available <- impl.available,
         wanted <- ~impl.userDisconnect, closing <- impl.shuttingDown

ImplementsLifecycle == Lifecycle!Spec

\* A lost connection is tried again.
RetryHappens ==
    (impl.state = "Reconnecting" /\ impl.stream = "null")
        ~> (impl.stream # "null" \/ impl.state # "Reconnecting" \/ destructor # "none")

\* Waiting for a voice session ends: it begins, or the timer gives up.
VoiceStartIsDecided == impl.voiceStarting ~> (~impl.voiceStarting \/ destructor # "none")

\* A connection on which traffic has ceased is given up.
SilentConnectionEnds ==
    (impl.stream = "secure") ~> (impl.stream # "secure" \/ destructor # "none")

\* An attempt that the application is never told the end of is waiting for the
\* network or the television, on an operation that beginConnect gives no
\* timeout; once the handshake is over, not even a silent television holds it.
OnlySilenceHoldsAttempt ==
    \/ []<>(impl.state # "Connecting" \/ destructor # "none")
    \/ <>[](\E o \in impl.pending :
               o.gen = impl.generation /\ o.kind \in {"resolve", "connect", "handshake"})

\* What pairing.cpp's comment asks for: "Load the client identity first so
\* mutual-TLS servers receive the certificate".
HandshakeHasIdentity ==
    impl.stream \in {"handshaking", "secure"} => impl.sslContext = "identity"

\* The README's usage, connect() and then at once sendKey(): while the network
\* fails nothing, writing the key does not end the connection.
KeyDoesNotEndConnection ==
    [][OnWrite /\ budget.faults = MaxFaults => impl'.generation = impl.generation]_vars

\* A voice timer that was cancelled no longer ends a wait for a session.
CancelledVoiceTimerIsInert ==
    [][OnVoiceTimer /\ First.result = "late" =>
          impl'.voiceStarting = impl.voiceStarting]_vars

=============================================================================
