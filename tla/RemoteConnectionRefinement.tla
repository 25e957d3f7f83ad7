--------------------- MODULE RemoteConnectionRefinement ---------------------
(***************************************************************************)
(* RemoteConnection implements ConnectionLifecycle, for every value of its *)
(* constants: what the application is told of the connection, and what it  *)
(* asked for, changes only in the steps that ConnectionLifecycle allows.   *)
(*                                                                         *)
(* A member function is Calm when it changes nothing of that and starts    *)
(* neither an attempt nor a retry; most are.  The others are looked at one *)
(* by one: each takes one step of the lifecycle at most.                   *)
(***************************************************************************)
EXTENDS RemoteConnectionFlow

-----------------------------------------------------------------------------
(* The invariant, and the steps, as predicates of records. *)

\* A reconnect timer is waiting, or its handler is queued, cancelled or not.
Retrying(s) == InPending(s, RT) \/ InReady(s, RT)

\* What the flow's invariant leaves open: all of it holds during the
\* destructor too.
LifeInv(s) ==
    /\ s.stream # "null" =>
          ~s.userDisconnect /\ s.state # "Disconnected" /\ s.sslContext # "null"
    /\ s.stream = "null" => ~Has(s, "idleTimer")
    /\ Retrying(s) => AutoReconnect /\ s.sslContext # "null"
    /\ Retrying(s) /\ MayConnect(s) => s.state # "Disconnected"

SameSeen(s, t) ==
    /\ t.state = s.state /\ t.available = s.available
    /\ t.userDisconnect = s.userDisconnect /\ t.shuttingDown = s.shuttingDown

\* Where s has no stream, t has none and no new timer that could open one or
\* give one up.
StaysDown(s, t) ==
    s.stream = "null" =>
        /\ t.stream = "null"
        /\ \A o \in t.pending : o.kind \in {RT, "idleTimer"} => o \in s.pending

Calm(s, t) ==
    /\ t \in ImplType /\ SameSeen(s, t) /\ StaysDown(s, t)
    /\ t.stream = s.stream /\ t.sslContext = s.sslContext /\ t.generation = s.generation
    /\ Retrying(t) => Retrying(s)
    /\ s.stream = "null" /\ Has(t, "idleTimer") => Has(s, "idleTimer")

\* The steps of ConnectionLifecycle that a handler may take.
EstablishedStep(s, t) ==
    /\ ~s.userDisconnect /\ s.state # "Disconnected"
    /\ t.state = "Connected" /\ t.available
    /\ t.userDisconnect = s.userDisconnect /\ t.shuttingDown = s.shuttingDown

LostStep(s, t) ==
    /\ ~s.userDisconnect /\ s.state # "Disconnected"
    /\ t.state = IF AutoReconnect /\ ~t.shuttingDown THEN "Reconnecting" ELSE "Disconnected"
    /\ t.available = (s.available /\ s.state # "Connected")
    /\ t.userDisconnect = s.userDisconnect /\ (s.shuttingDown => t.shuttingDown)

RetryStep(s, t) ==
    /\ ~s.userDisconnect /\ ~s.shuttingDown /\ AutoReconnect
    /\ s.state \in {"Connecting", "Reconnecting"}
    /\ t.state = "Reconnecting" /\ t.available = s.available
    /\ t.userDisconnect = s.userDisconnect /\ t.shuttingDown = s.shuttingDown

RefusedStep(s, t) ==
    /\ ~s.userDisconnect /\ ~s.shuttingDown
    /\ s.state \in {"Connecting", "Reconnecting"}
    /\ t.state = "Disconnected" /\ t.available = s.available
    /\ t.userDisconnect = s.userDisconnect /\ t.shuttingDown = s.shuttingDown

\* The steps that a call may take.
ConnectStep(s, t) ==
    /\ ~s.shuttingDown
    /\ t.state \in {"Connecting", "Disconnected"} /\ t.available = s.available
    /\ ~t.userDisconnect /\ t.shuttingDown = s.shuttingDown

DropStep(s, t) ==
    /\ t.state = "Disconnected" /\ t.available \in {s.available, FALSE}
    /\ t.userDisconnect /\ t.shuttingDown = s.shuttingDown

\* The steps that the destructor, and a call it overtakes, may take.
DestroyStep(s, t) ==
    /\ t.state = s.state /\ t.available = s.available
    /\ t.userDisconnect = s.userDisconnect /\ t.shuttingDown

AbandonStep(s, t) ==
    /\ s.shuttingDown /\ t.shuttingDown
    /\ t.state = s.state /\ t.available = s.available

Allowed(s, t) ==
    \/ SameSeen(s, t) \/ EstablishedStep(s, t) \/ LostStep(s, t) \/ RetryStep(s, t)
    \/ RefusedStep(s, t) \/ ConnectStep(s, t) \/ DropStep(s, t)
    \/ DestroyStep(s, t) \/ AbandonStep(s, t)

\* What every step does.
Lives(s, t) ==
    /\ LifeInv(t)
    /\ Allowed(s, t)
    /\ s.shuttingDown => StaysDown(s, t)

-----------------------------------------------------------------------------
(* Calm changes. *)

\* A calm change keeps the invariant, and is a step that all see as none.
LEMMA CalmLives ==
    ASSUME NEW s, NEW t, Calm(s, t), LifeInv(s)
    PROVE  Lives(s, t)
<1>1. LifeInv(t)
  BY DEF Calm, LifeInv, SameSeen, MayConnect
<1>2. QED
  BY <1>1 DEF Calm, Lives, Allowed

\* One calm change after another.
LEMMA CalmTransitive ==
    ASSUME NEW s, NEW t, NEW u, Calm(s, t), Calm(t, u)
    PROVE  Calm(s, u)
<1>1. SameSeen(s, u)
  BY DEF Calm, SameSeen
<1>2. StaysDown(s, u)
  BY DEF Calm, StaysDown
<1>3. QED
  BY <1>1, <1>2 DEF Calm

\* A calm change before or after a step.
LEMMA CalmCompose ==
    ASSUME NEW s, NEW t, NEW u
    PROVE  /\ Calm(s, t) /\ Lives(t, u) => Lives(s, u)
           /\ Lives(s, t) /\ Calm(t, u) => Lives(s, u)
<1>1. ASSUME Calm(s, t), Lives(t, u) PROVE Lives(s, u)
  <2>1. Allowed(s, u)
    BY <1>1 DEF Calm, Lives, Allowed, SameSeen, EstablishedStep, LostStep, RetryStep,
                RefusedStep, ConnectStep, DropStep, DestroyStep, AbandonStep
  <2>2. s.shuttingDown => StaysDown(s, u)
    BY <1>1 DEF Calm, Lives, StaysDown, SameSeen
  <2>3. QED
    BY <1>1, <2>1, <2>2 DEF Lives
<1>2. ASSUME Lives(s, t), Calm(t, u) PROVE Lives(s, u)
  <2>1. LifeInv(u)
    BY <1>2, CalmLives DEF Lives
  <2>2. Allowed(s, u)
    BY <1>2 DEF Calm, Lives, Allowed, SameSeen, EstablishedStep, LostStep, RetryStep,
                RefusedStep, ConnectStep, DropStep, DestroyStep, AbandonStep
  <2>3. s.shuttingDown => StaysDown(s, u)
    BY <1>2 DEF Calm, Lives, StaysDown, SameSeen
  <2>4. QED
    BY <2>1, <2>2, <2>3 DEF Lives
<1>3. QED
  BY <1>1, <1>2

\* A change of other fields than the ones that are seen is calm.
LEMMA FieldsCalm ==
    ASSUME NEW s, NEW t \in ImplType, SameSeen(s, t), t.stream = s.stream,
           t.sslContext = s.sslContext, t.generation = s.generation,
           t.pending = s.pending, t.ready = s.ready
    PROVE  Calm(s, t)
<1>1. SameViews(s, t)
  BY ViewsFrame
<1>2. RT \in OpKinds /\ "idleTimer" \in OpKinds
  BY DEF OpKinds, TimerKinds, RT
<1>3. QED
  BY <1>1, <1>2 DEF Calm, StaysDown, SameViews, Retrying

\* Starting an operation is calm, unless it begins an attempt or a retry.
LEMMA StartCalm ==
    ASSUME NEW s \in ImplType, NEW kind \in OpKinds \ {"resolve", RT},
           kind = "idleTimer" => s.stream # "null"
    PROVE  Calm(s, Start(s, kind))
<1> DEFINE t  == Start(s, kind)
           op == [kind |-> kind, gen |-> s.generation]
<1>1. /\ t \in ImplType /\ SameFields(s, t)
      /\ \A k \in OpKinds : /\ Has(t, k) <=> Has(s, k) \/ k = kind
                            /\ k # kind => (InPending(t, k) <=> InPending(s, k))
                            /\ k # kind => (InReady(t, k) <=> InReady(s, k))
  BY StartViews
<1>2. t.pending = s.pending \cup {op} \/ t.pending = s.pending
  BY StartFields
<1>3. t.sslContext = s.sslContext
  BY DEF Start, ImplType
<1> HIDE DEF t
<1>4. SameSeen(s, t) /\ t.stream = s.stream /\ t.generation = s.generation
  BY <1>1 DEF SameFields, SameConnection, SameSeen
<1>5. StaysDown(s, t)
  BY <1>2, <1>4 DEF StaysDown
<1>6. RT \in OpKinds /\ "idleTimer" \in OpKinds
  BY DEF OpKinds, TimerKinds, RT
<1>7. (Retrying(t) => Retrying(s)) /\ (s.stream = "null" /\ Has(t, "idleTimer") => Has(s, "idleTimer"))
  BY <1>1, <1>6 DEF Retrying
<1>8. QED
  BY <1>1, <1>3, <1>4, <1>5, <1>7 DEF Calm, t

\* Cancelling a timer is calm.
LEMMA CancelCalm ==
    ASSUME NEW s \in ImplType, NEW timer \in TimerKinds
    PROVE  Calm(s, CancelTimer(s, timer))
<1> DEFINE t == CancelTimer(s, timer)
<1>1. /\ t \in ImplType /\ SameFields(s, t)
      /\ \A k \in OpKinds : /\ InReady(t, k) <=> InReady(s, k)
                            /\ k # timer => (Has(t, k) <=> Has(s, k))
                            /\ k # timer => (InPending(t, k) <=> InPending(s, k))
      /\ ~InPending(t, timer)
      /\ Has(t, timer) => Has(s, timer)
  BY CancelViews
<1>2. t.pending \subseteq s.pending /\ t.sslContext = s.sslContext
  BY DEF CancelTimer, ImplType
<1> HIDE DEF t
<1>3. SameSeen(s, t) /\ t.stream = s.stream /\ t.generation = s.generation
  BY <1>1 DEF SameFields, SameConnection, SameSeen
<1>4. StaysDown(s, t)
  BY <1>2, <1>3 DEF StaysDown
<1>5. RT \in OpKinds /\ "idleTimer" \in OpKinds
  BY DEF OpKinds, TimerKinds, RT
<1>6. (Retrying(t) => Retrying(s)) /\ (Has(t, "idleTimer") => Has(s, "idleTimer"))
  BY <1>1, <1>5 DEF Retrying
<1>7. QED
  BY <1>1, <1>2, <1>3, <1>4, <1>6 DEF Calm, t

\* Setting the idle timer of a live stream, or the voice timer, is calm.
LEMMA SetTimerCalm ==
    ASSUME NEW s \in ImplType, NEW timer \in {"idleTimer", "voiceTimer"},
           timer = "idleTimer" => s.stream # "null"
    PROVE  Calm(s, SetTimer(s, timer))
<1> DEFINE c == CancelTimer(s, timer)
<1>1. timer \in TimerKinds /\ timer \in OpKinds \ {"resolve", RT}
  BY DEF TimerKinds, OpKinds, RT
<1>2. Calm(s, c)
  BY <1>1, CancelCalm
<1>3. c \in ImplType /\ c.stream = s.stream
  BY <1>2 DEF Calm
<1> HIDE DEF c
<1>4. Calm(c, Start(c, timer))
  BY <1>1, <1>3, StartCalm
<1>5. QED
  BY <1>2, <1>4, CalmTransitive DEF SetTimer, c


-----------------------------------------------------------------------------
(* The member functions that are calm. *)

\* beginWrite is calm.
LEMMA BeginWriteCalm ==
    ASSUME NEW s \in ImplType
    PROVE  Calm(s, BeginWrite(s))
<1> DEFINE n == [s EXCEPT !.writeInProgress = FALSE]
           w == [s EXCEPT !.writeInProgress = TRUE, !.sent = Append(@, Head(s.writeQueue))]
<1>1. n \in ImplType /\ Calm(s, n)
  <2>1. /\ n \in ImplType /\ SameSeen(s, n) /\ n.stream = s.stream
        /\ n.sslContext = s.sslContext /\ n.generation = s.generation
        /\ n.pending = s.pending /\ n.ready = s.ready
    BY DEF ImplType, SameSeen
  <2> HIDE DEF n
  <2>2. QED
    BY <2>1, FieldsCalm
<1>2. ASSUME s.writeQueue # <<>>
      PROVE  Calm(s, Start(w, "write"))
  <2>1. s.sent \in Seq(Messages) /\ s.writeQueue \in Seq(Messages)
    BY DEF ImplType, MessageSeqs
  <2>2. Append(s.sent, Head(s.writeQueue)) \in MessageSeqs
    BY <1>2, <2>1 DEF MessageSeqs
  <2>3. /\ w \in ImplType /\ SameSeen(s, w) /\ w.stream = s.stream
        /\ w.sslContext = s.sslContext /\ w.generation = s.generation
        /\ w.pending = s.pending /\ w.ready = s.ready
    BY <2>2 DEF ImplType, SameSeen
  <2> HIDE DEF w
  <2>4. Calm(s, w)
    BY <2>3, FieldsCalm
  <2>5. "write" \in OpKinds \ {"resolve", RT}
    BY DEF OpKinds, RT
  <2>6. Calm(w, Start(w, "write"))
    BY <2>3, <2>5, StartCalm
  <2>7. QED
    BY <2>4, <2>6, CalmTransitive
<1> HIDE DEF n, w
<1>3. QED
  BY <1>1, <1>2 DEF BeginWrite, n, w

\* queueMessage is calm: it never touches a connection that is closed.
LEMMA QueueMessagesCalm ==
    ASSUME NEW s \in ImplType, NEW ms \in Seq(Messages)
    PROVE  Calm(s, QueueMessages(s, ms))
<1> DEFINE r == ResetIdleTimer(s)
           q == [r EXCEPT !.writeQueue = @ \o ms, !.accepted = @ \o ms]
<1>1. CASE s.stream = "null"
  BY <1>1, FieldsCalm DEF QueueMessages, SameSeen
<1>2. CASE s.stream # "null"
  <2>1. Calm(s, r)
    BY <1>2, SetTimerCalm DEF ResetIdleTimer
  <2> HIDE DEF r
  <2>2. r \in ImplType
    BY <2>1 DEF Calm
  <2>3. r.writeQueue \in Seq(Messages) /\ r.accepted \in Seq(Messages)
    BY <2>2 DEF ImplType, MessageSeqs
  <2>4. r.writeQueue \o ms \in MessageSeqs /\ r.accepted \o ms \in MessageSeqs
    BY <2>3 DEF MessageSeqs
  <2>5. /\ q \in ImplType /\ SameSeen(r, q) /\ q.stream = r.stream
        /\ q.sslContext = r.sslContext /\ q.generation = r.generation
        /\ q.pending = r.pending /\ q.ready = r.ready
    BY <2>2, <2>4 DEF ImplType, SameSeen
  <2> HIDE DEF q
  <2>6. Calm(s, q)
    BY <2>1, <2>5, FieldsCalm, CalmTransitive
  <2>7. Calm(s, BeginWrite(q))
    BY <2>5, <2>6, BeginWriteCalm, CalmTransitive
  <2>8. QED
    BY <1>2, <2>6, <2>7 DEF QueueMessages, q, r
<1>3. QED
  BY <1>1, <1>2

\* queueMessage, of one message.
LEMMA QueueMessageCalm ==
    ASSUME NEW s \in ImplType, NEW m \in Messages
    PROVE  Calm(s, QueueMessage(s, m))
<1>1. <<m>> \in Seq(Messages)
  OBVIOUS
<1>2. QED
  BY <1>1, QueueMessagesCalm DEF QueueMessage

\* beginReadLength and readOneLengthByte are calm.
LEMMA ReadCalm ==
    ASSUME NEW s \in ImplType, NEW gen
    PROVE  Calm(s, ReadOneLengthByte(s, gen)) /\ Calm(s, BeginReadLength(s, gen))
<1>1. ASSUME NEW t \in ImplType PROVE Calm(t, ReadOneLengthByte(t, gen))
  <2>1. "readLength" \in OpKinds \ {"resolve", RT}
    BY DEF OpKinds, ChainKinds, RT
  <2>2. Calm(t, Start(t, "readLength")) /\ Calm(t, t)
    BY <2>1, StartCalm, FieldsCalm DEF SameSeen
  <2>3. QED
    BY <2>2 DEF ReadOneLengthByte
<1> DEFINE z == [s EXCEPT !.readShift = 0]
<1>2. /\ z \in ImplType /\ SameSeen(s, z) /\ z.stream = s.stream
      /\ z.sslContext = s.sslContext /\ z.generation = s.generation
      /\ z.pending = s.pending /\ z.ready = s.ready
  BY DEF ImplType, SameSeen
<1> HIDE DEF z
<1>3. Calm(s, ReadOneLengthByte(z, gen)) /\ Calm(s, s)
  BY <1>1, <1>2, FieldsCalm, CalmTransitive DEF SameSeen
<1>4. QED
  BY <1>1, <1>3 DEF BeginReadLength, z

\* Remembering a report is calm, and so are the answer to Configure and the
\* begin of a voice session.
LEMMA AnswersCalm ==
    ASSUME NEW s \in ImplType, NEW m \in TvMessageType
    PROVE  /\ \A field \in MirrorFields : Calm(s, Mirror(s, field, m.word))
           /\ Calm(s, Configure(s, m))
           /\ Calm(s, VoiceBegun(s, m.word))
<1>1. m.word \in Words /\ m.features \in SUBSET Features /\ 0 \in Words
  BY DataAssumption DEF TvMessageType
<1>2. ASSUME NEW field \in MirrorFields
      PROVE  Calm(s, Mirror(s, field, m.word))
  <2> DEFINE t == Mirror(s, field, m.word)
  <2>1. t \in ImplType
    BY <1>1, MirrorType
  <2>2. /\ SameSeen(s, t) /\ t.stream = s.stream
        /\ t.sslContext = s.sslContext /\ t.generation = s.generation
        /\ t.pending = s.pending /\ t.ready = s.ready
    BY DEF Mirror, ImplType, SameSeen
  <2> HIDE DEF t
  <2>3. QED
    BY <2>1, <2>2, FieldsCalm DEF t
<1>3. Calm(s, Configure(s, m))
  <2> DEFINE d == Mirror(s, "device", m.word)
             active == s.activeFeatures \cap m.features
             voice == "voice" \in active
             t == [d EXCEPT !.activeFeatures = active, !.voiceEnabled = voice]
             answer == [Message("ConfigureResponse", 0) EXCEPT !.features = active]
  <2>1. Calm(s, d)
    BY <1>2 DEF MirrorFields
  <2> HIDE DEF d
  <2>2. d \in ImplType /\ active \in SUBSET Features /\ voice \in BOOLEAN
    BY <2>1 DEF Calm, ImplType
  <2>3. answer \in Messages
    BY <1>1, <2>2, MessageType DEF MessageKinds
  <2> HIDE DEF active, voice, answer
  <2>4. /\ t \in ImplType /\ SameSeen(d, t) /\ t.stream = d.stream
        /\ t.sslContext = d.sslContext /\ t.generation = d.generation
        /\ t.pending = d.pending /\ t.ready = d.ready
    BY <2>2 DEF ImplType, SameSeen
  <2> HIDE DEF t
  <2>5. Calm(s, QueueMessage(t, answer))
    BY <2>1, <2>3, <2>4, FieldsCalm, QueueMessageCalm, CalmTransitive
  <2>6. QED
    BY <2>5 DEF Configure, d, active, voice, t, answer
<1>4. Calm(s, VoiceBegun(s, m.word))
  <2> DEFINE c == CancelTimer(s, "voiceTimer")
             t == [c EXCEPT !.voiceStarting = FALSE, !.voiceSessionId = m.word]
  <2>1. Calm(s, c)
    BY CancelCalm DEF TimerKinds
  <2> HIDE DEF c
  <2>2. c \in ImplType
    BY <2>1 DEF Calm
  <2>3. /\ t \in ImplType /\ SameSeen(c, t) /\ t.stream = c.stream
        /\ t.sslContext = c.sslContext /\ t.generation = c.generation
        /\ t.pending = c.pending /\ t.ready = c.ready
    BY <1>1, <2>2 DEF ImplType, SameSeen, Sessions
  <2> HIDE DEF t
  <2>4. Message("VoiceBegin", m.word) \in Messages
    BY <1>1, MessageType DEF MessageKinds
  <2>5. Calm(s, QueueMessage(t, Message("VoiceBegin", m.word)))
    BY <2>1, <2>3, <2>4, FieldsCalm, QueueMessageCalm, CalmTransitive
  <2>6. Calm(s, s)
    BY FieldsCalm DEF SameSeen
  <2>7. QED
    BY <2>5, <2>6 DEF VoiceBegun, c, t
<1>5. QED
  BY <1>2, <1>3, <1>4

\* handleMessage: Start establishes the connection, all else is calm.
LEMMA HandleMessageLives ==
    ASSUME NEW s \in ImplType, NEW m \in TvMessageType, LifeInv(s), s.stream # "null"
    PROVE  LET t == HandleMessage(s, m) IN t \in ImplType /\ Lives(s, t)
<1> DEFINE p == Mirror(s, "power", m.word)
           c == SetState(p, "Connected")
           e == EmitAvailability(c, TRUE)
<1>1. m.kind \in TvKinds /\ m.word \in Words /\ 0 \in Words
  BY DataAssumption DEF TvMessageType
<1>2. CASE m.kind = "Start"
  <2>1. Calm(s, p)
    BY AnswersCalm DEF MirrorFields
  <2> HIDE DEF p
  <2>2. p \in ImplType
    BY <2>1 DEF Calm
  <2>3. /\ e \in ImplType /\ e.state = "Connected" /\ e.available
        /\ e.userDisconnect = p.userDisconnect /\ e.shuttingDown = p.shuttingDown
        /\ e.stream = p.stream /\ e.sslContext = p.sslContext
        /\ e.generation = p.generation /\ e.pending = p.pending /\ e.ready = p.ready
    BY <2>2 DEF SetState, EmitAvailability, ImplType, States
  <2> HIDE DEF e
  <2>4. SameViews(p, e) /\ RT \in OpKinds
    BY <2>3, ViewsFrame DEF OpKinds, TimerKinds, RT
  <2>5. LifeInv(p)
    BY <2>1, CalmLives DEF Lives
  <2>6. LifeInv(e)
    BY <2>1, <2>3, <2>4, <2>5 DEF LifeInv, SameViews, Retrying, MayConnect, Calm
  <2>7. EstablishedStep(s, e)
    BY <2>1, <2>3 DEF EstablishedStep, Calm, SameSeen, LifeInv
  <2>8. StaysDown(s, e)
    BY <2>1, <2>3 DEF Calm, StaysDown
  <2>9. HandleMessage(s, m) = e
    BY <1>2 DEF HandleMessage, e, c, p
  <2>10. QED
    BY <2>3, <2>6, <2>7, <2>8, <2>9 DEF Lives, Allowed
<1>3. CASE m.kind # "Start"
  <2>1. Calm(s, s)
    BY FieldsCalm DEF SameSeen
  <2>2. Calm(s, HandleMessage(s, m))
    <3>1. CASE m.kind \in {"Configure", "VoiceBegin"}
      BY <3>1, AnswersCalm DEF HandleMessage
    <3>2. CASE m.kind \in {"ImeKeyInject", "ImeBatchEdit", "Volume"}
      BY <3>2, AnswersCalm DEF HandleMessage, MirrorFields
    <3>3. CASE m.kind = "SetActive"
      <4>1. s.activeFeatures \in SUBSET Features
        BY DEF ImplType
      <4>2. [Message("SetActiveResponse", 0) EXCEPT !.features = s.activeFeatures] \in Messages
        BY <1>1, <4>1, MessageType DEF MessageKinds
      <4>3. QED
        BY <3>3, <4>2, QueueMessageCalm DEF HandleMessage
    <3>4. CASE m.kind = "Ping"
      <4>1. Message("PingResponse", m.word) \in Messages
        BY <1>1, MessageType DEF MessageKinds
      <4>2. QED
        BY <3>4, <4>1, QueueMessageCalm DEF HandleMessage
    <3>5. CASE m.kind \in {"Error", "Unknown"}
      BY <3>5, <2>1 DEF HandleMessage
    <3>6. QED
      BY <1>1, <1>3, <3>1, <3>2, <3>3, <3>4, <3>5 DEF TvKinds
  <2>3. QED
    BY <2>2, CalmLives DEF Calm
<1>4. QED
  BY <1>2, <1>3


-----------------------------------------------------------------------------
(* The member functions that end or begin an attempt. *)

\* What closeStream leaves.
LEMMA CloseLife ==
    ASSUME NEW s \in ImplType, Bounded(s)
    PROVE  LET u == CloseStream(s)
           IN  /\ u \in ImplType /\ SameSeen(s, u) /\ u.stream = "null"
               /\ u.sslContext = s.sslContext /\ u.pending = s.pending
               /\ \A k \in OpKinds : ~Has(u, k)
               /\ Retrying(u) <=> Retrying(s)
<1> DEFINE u == CloseStream(s)
<1>1. u.stream = "null" /\ u.sslContext = s.sslContext /\ u.pending = s.pending
  BY DEF CloseStream, ForgetWrites, ForgetVoice, InvalidateHandlers, ImplType
<1>2. /\ u \in ImplType /\ SameSeen(s, u)
      /\ \A k \in OpKinds : /\ ~Has(u, k)
                            /\ InPending(u, k) <=> InPending(s, k)
                            /\ InReady(u, k) <=> InReady(s, k)
  BY CloseStreamFlow DEF SameSeen
<1>3. RT \in OpKinds
  BY DEF OpKinds, TimerKinds, RT
<1>4. QED
  BY <1>1, <1>2, <1>3 DEF Retrying

\* A closed record, with other values of what is seen and of the context.
LEMMA ClosedLife ==
    ASSUME NEW s \in ImplType, Bounded(s), NEW t,
           LET u == CloseStream(s)
           IN  /\ t.stream = "null" /\ t.generation = u.generation
               /\ t.pending = u.pending /\ t.ready = u.ready
               /\ t.sslContext = s.sslContext \/ s.sslContext = "null",
           Retrying(s) => AutoReconnect /\ s.sslContext # "null",
           Retrying(s) /\ MayConnect(t) => t.state # "Disconnected"
    PROVE  LifeInv(t) /\ StaysDown(s, t)
<1> DEFINE u == CloseStream(s)
<1>1. /\ u.pending = s.pending /\ (\A k \in OpKinds : ~Has(u, k))
      /\ Retrying(u) <=> Retrying(s)
  BY CloseLife
<1>2. SameViews(u, t)
  BY ViewsFrame
<1> HIDE DEF u
<1>3. RT \in OpKinds /\ "idleTimer" \in OpKinds
  BY DEF OpKinds, TimerKinds, RT
<1>4. ~Has(t, "idleTimer") /\ (Retrying(t) <=> Retrying(s))
  BY <1>1, <1>2, <1>3 DEF SameViews, Retrying
<1>5. LifeInv(t)
  BY <1>4 DEF LifeInv
<1>6. StaysDown(s, t)
  BY <1>1 DEF StaysDown, u
<1>7. QED
  BY <1>5, <1>6

\* handleConnectionLoss on a live stream: the connection is lost, and a retry
\* is scheduled, or none is outstanding.
LEMMA HandleConnectionLossLives ==
    ASSUME NEW s \in ImplType, Bounded(s), LifeInv(s), s.stream # "null", NEW gen
    PROVE  /\ Lives(s, HandleConnectionLoss(s, gen))
           /\ gen = s.generation => LostStep(s, HandleConnectionLoss(s, gen))
<1> DEFINE u == CloseStream(s)
           c == AnnounceLoss(u)
           d == SetState(c, "Disconnected")
           r == SetState(c, "Reconnecting")
           k == CancelTimer(r, RT)
           a == Start(k, RT)
           t == [a EXCEPT !.reconnectDelay = IF 2 * @ <= MaxDelay THEN 2 * @ ELSE MaxDelay]
<1>1. CASE gen # s.generation
  <2>1. Calm(s, s)
    BY FieldsCalm DEF SameSeen
  <2>2. QED
    BY <1>1, <2>1, CalmLives DEF HandleConnectionLoss
<1>2. CASE gen = s.generation
  <2>1. /\ u \in ImplType /\ SameSeen(s, u) /\ u.stream = "null"
        /\ u.sslContext = s.sslContext
        /\ \A l \in OpKinds : ~Has(u, l)
    BY CloseLife
  <2> HIDE DEF u
  <2>2. /\ c \in ImplType /\ c.stream = "null" /\ c.sslContext = s.sslContext
        /\ c.available = (s.available /\ s.state # "Connected")
        /\ c.userDisconnect = s.userDisconnect /\ c.shuttingDown = s.shuttingDown
        /\ c.pending = u.pending /\ c.ready = u.ready /\ c.generation = u.generation
    <3>1. u.available \in BOOLEAN /\ u.state = s.state /\ u.available = s.available
      BY <2>1 DEF SameSeen, ImplType
    <3>2. CASE s.state = "Connected"
      BY <2>1, <3>1, <3>2 DEF AnnounceLoss, EmitAvailability, SameSeen, ImplType
    <3>3. CASE s.state # "Connected"
      BY <2>1, <3>1, <3>3 DEF AnnounceLoss, SameSeen
    <3>4. QED
      BY <3>2, <3>3
  <2> HIDE DEF c
  <2>3. ~s.userDisconnect /\ s.state # "Disconnected" /\ s.sslContext # "null"
    BY DEF LifeInv
  <2>4. ASSUME ~(AutoReconnect /\ MayConnect(s))
        PROVE  Lives(s, d) /\ LostStep(s, d)
    <3>1. /\ d.stream = "null" /\ d.sslContext = s.sslContext /\ d.state = "Disconnected"
          /\ d.available = c.available
          /\ d.userDisconnect = s.userDisconnect /\ d.shuttingDown = s.shuttingDown
          /\ d.pending = u.pending /\ d.ready = u.ready /\ d.generation = u.generation
      BY <2>2 DEF SetState, ImplType
    <3> HIDE DEF d
    <3>2. ~(Retrying(s) /\ MayConnect(d))
      BY <2>4, <3>1 DEF LifeInv, MayConnect
    <3>3. LifeInv(d) /\ StaysDown(s, d)
      BY <3>1, <3>2, ClosedLife DEF u, LifeInv
    <3>4. LostStep(s, d)
      BY <2>2, <2>3, <2>4, <3>1 DEF LostStep, MayConnect
    <3>5. QED
      BY <3>3, <3>4 DEF Lives, Allowed
  <2>5. ASSUME AutoReconnect /\ MayConnect(s)
        PROVE  Lives(s, t) /\ LostStep(s, t)
    <3>1. /\ r \in ImplType /\ r.stream = "null" /\ r.sslContext = s.sslContext
          /\ r.state = "Reconnecting" /\ r.available = c.available
          /\ r.userDisconnect = s.userDisconnect /\ r.shuttingDown = s.shuttingDown
          /\ r.pending = u.pending /\ r.ready = u.ready /\ r.generation = u.generation
      BY <2>2 DEF SetState, ImplType, States
    <3> HIDE DEF r
    <3>2. RT \in TimerKinds /\ RT \in OpKinds /\ "idleTimer" \in OpKinds /\ "idleTimer" # RT
      BY DEF OpKinds, TimerKinds, RT
    <3>3. SameViews(u, r)
      BY <3>1, ViewsFrame
    <3>4. /\ k \in ImplType /\ SameFields(r, k) /\ ~Has(k, "idleTimer")
      BY <2>1, <3>1, <3>2, <3>3, CancelViews DEF SameViews
    <3>5. k.sslContext = r.sslContext
      BY <3>1 DEF CancelTimer, ImplType
    <3> HIDE DEF k
    <3>6. a \in ImplType /\ SameFields(k, a) /\ ~Has(a, "idleTimer")
      BY <3>2, <3>4, StartViews
    <3>7. a.sslContext = k.sslContext
      BY <3>4 DEF Start, ImplType
    <3> HIDE DEF a
    <3>8. /\ t.stream = a.stream /\ t.state = a.state /\ t.available = a.available
          /\ t.userDisconnect = a.userDisconnect /\ t.shuttingDown = a.shuttingDown
          /\ t.sslContext = a.sslContext
          /\ t.pending = a.pending /\ t.ready = a.ready /\ t.generation = a.generation
      BY <3>6 DEF ImplType
    <3> HIDE DEF t
    <3>9. SameViews(a, t)
      BY <3>8, ViewsFrame
    <3>10. /\ t.stream = "null" /\ t.state = "Reconnecting" /\ t.available = c.available
           /\ t.userDisconnect = s.userDisconnect /\ t.shuttingDown = s.shuttingDown
           /\ t.sslContext = s.sslContext /\ ~Has(t, "idleTimer")
      BY <3>1, <3>2, <3>4, <3>5, <3>6, <3>7, <3>8, <3>9
         DEF SameFields, SameConnection, SameViews
    <3>11. LifeInv(t)
      BY <2>3, <2>5, <3>10 DEF LifeInv
    <3>12. LostStep(s, t)
      BY <2>2, <2>3, <2>5, <3>10 DEF LostStep, MayConnect
    <3>13. QED
      BY <2>5, <3>11, <3>12 DEF Lives, Allowed, MayConnect
  <2>6. HandleConnectionLoss(s, gen) = IF AutoReconnect /\ MayConnect(s) THEN t ELSE d
    BY <1>2 DEF HandleConnectionLoss, ScheduleReconnect, SetTimer, RT, u, c, d, r, k, a, t
  <2>7. QED
    BY <2>4, <2>5, <2>6
<1>3. QED
  BY <1>1, <1>2

\* connectionFailed does what handleConnectionLoss does, or nothing.
LEMMA ConnectionFailedLives ==
    ASSUME NEW s \in ImplType, Bounded(s), LifeInv(s), s.stream # "null", NEW gen
    PROVE  Lives(s, ConnectionFailed(s, gen))
<1>1. Lives(s, s)
  BY FieldsCalm, CalmLives DEF SameSeen
<1>2. QED
  BY <1>1, HandleConnectionLossLives DEF ConnectionFailed

\* authenticationFailed: the television has refused a handshake, when no retry
\* is outstanding.
LEMMA AuthenticationFailedLives ==
    ASSUME NEW s \in ImplType, Bounded(s), LifeInv(s), s.stream # "null", NEW gen,
           ~s.shuttingDown => s.state # "Connected" /\ ~Retrying(s)
    PROVE  Lives(s, AuthenticationFailed(s, gen))
<1> DEFINE u == CloseStream(s)
           d == SetState(u, "Disconnected")
<1>1. Lives(s, s)
  BY FieldsCalm, CalmLives DEF SameSeen
<1>2. ASSUME MayConnect(s)
      PROVE  Lives(s, d)
  <2>1. /\ u \in ImplType /\ SameSeen(s, u) /\ u.stream = "null"
        /\ u.sslContext = s.sslContext
    BY CloseLife
  <2> HIDE DEF u
  <2>2. /\ d.stream = "null" /\ d.sslContext = s.sslContext /\ d.state = "Disconnected"
        /\ d.available = s.available
        /\ d.userDisconnect = s.userDisconnect /\ d.shuttingDown = s.shuttingDown
        /\ d.pending = u.pending /\ d.ready = u.ready /\ d.generation = u.generation
    BY <2>1 DEF SetState, ImplType, SameSeen
  <2> HIDE DEF d
  <2>3. LifeInv(d) /\ StaysDown(s, d)
    BY <1>2, <2>2, ClosedLife DEF u, MayConnect, LifeInv
  <2>4. s.state \in {"Connecting", "Reconnecting"}
    BY <1>2 DEF LifeInv, MayConnect, ImplType, States
  <2>5. RefusedStep(s, d)
    BY <1>2, <2>2, <2>4 DEF RefusedStep, MayConnect
  <2>6. QED
    BY <2>3, <2>5 DEF Lives, Allowed
<1> HIDE DEF u, d
<1>3. MayConnect(s) => s.state # "Connected"
  BY DEF MayConnect
<1>4. QED
  BY <1>1, <1>2, <1>3 DEF AuthenticationFailed, u, d


\* beginConnect: a fresh attempt, or none for want of an identity.
LEMMA BeginConnectLife ==
    ASSUME NEW s \in ImplType, Bounded(s), MayConnect(s),
           Retrying(s) => AutoReconnect /\ s.sslContext # "null",
           NEW reconnecting \in BOOLEAN, NEW loadable \in BOOLEAN
    PROVE  LET t == BeginConnect(s, reconnecting, loadable)
           IN  /\ LifeInv(t)
               /\ t.available = s.available
               /\ t.userDisconnect = s.userDisconnect /\ t.shuttingDown = s.shuttingDown
               /\ t.state \in {"Disconnected", IF reconnecting THEN "Reconnecting" ELSE "Connecting"}
<1> DEFINE u == CloseStream(s)
           c == EnsureSslContext(u, loadable)
           state == IF reconnecting THEN "Reconnecting" ELSE "Connecting"
           d == SetState(c, "Disconnected")
           o == [SetState(c, state) EXCEPT !.stream = "opened"]
           t == Start(o, "resolve")
<1>1. /\ u \in ImplType /\ SameSeen(s, u) /\ u.stream = "null"
      /\ u.sslContext = s.sslContext
      /\ \A k \in OpKinds : ~Has(u, k)
      /\ Retrying(u) <=> Retrying(s)
  BY CloseLife
<1> HIDE DEF u
<1>2. /\ c \in ImplType /\ SameSeen(s, c) /\ c.stream = "null" /\ c.sslContext # "null"
      /\ c.pending = u.pending /\ c.ready = u.ready /\ c.generation = u.generation
  BY <1>1 DEF EnsureSslContext, SameSeen, ImplType
<1> HIDE DEF c
<1>3. RT \in OpKinds /\ "idleTimer" \in OpKinds /\ "resolve" \in OpKinds /\ "resolve" # RT
  BY DEF OpKinds, TimerKinds, ChainKinds, RT
<1>4. ASSUME EnsureSslContextThrows(s, loadable)
      PROVE  /\ LifeInv(d) /\ d.state = "Disconnected" /\ d.available = s.available
             /\ d.userDisconnect = s.userDisconnect /\ d.shuttingDown = s.shuttingDown
  <2>1. /\ d.stream = "null" /\ d.state = "Disconnected" /\ d.available = s.available
        /\ d.userDisconnect = s.userDisconnect /\ d.shuttingDown = s.shuttingDown
        /\ d.pending = u.pending /\ d.ready = u.ready /\ d.generation = u.generation
    BY <1>2 DEF SetState, ImplType, SameSeen
  <2> HIDE DEF d
  <2>2. SameViews(u, d)
    BY <2>1, ViewsFrame
  <2>3. ~Retrying(d) /\ ~Has(d, "idleTimer")
    BY <1>1, <1>3, <1>4, <2>2 DEF SameViews, Retrying, EnsureSslContextThrows
  <2>4. QED
    BY <2>1, <2>3 DEF LifeInv
<1>5. /\ LifeInv(t) /\ t.state = state /\ t.available = s.available
      /\ t.userDisconnect = s.userDisconnect /\ t.shuttingDown = s.shuttingDown
  <2> HIDE DEF state
  <2>1. state \in {"Connecting", "Reconnecting"}
    BY DEF state
  <2>2. /\ o \in ImplType /\ o.stream = "opened" /\ o.state = state
        /\ o.available = s.available /\ o.sslContext # "null"
        /\ o.userDisconnect = s.userDisconnect /\ o.shuttingDown = s.shuttingDown
        /\ o.pending = u.pending /\ o.ready = u.ready /\ o.generation = u.generation
    BY <1>2, <2>1 DEF SetState, ImplType, SameSeen, States
  <2> HIDE DEF o
  <2>3. SameViews(u, o)
    BY <2>2, ViewsFrame
  <2>4. /\ SameFields(o, t)
        /\ \A k \in OpKinds :
              /\ k # "resolve" => (InPending(t, k) <=> InPending(o, k))
              /\ k # "resolve" => (InReady(t, k) <=> InReady(o, k))
    BY <1>3, <2>2, StartViews
  <2>5. t.sslContext = o.sslContext
    BY <2>2 DEF Start, ImplType
  <2> HIDE DEF t
  <2>6. Retrying(t) => Retrying(s)
    BY <1>1, <1>3, <2>3, <2>4 DEF SameViews, Retrying
  <2>7. /\ t.stream = "opened" /\ t.state = state /\ t.available = s.available
        /\ t.userDisconnect = s.userDisconnect /\ t.shuttingDown = s.shuttingDown
        /\ t.sslContext # "null"
    BY <2>2, <2>4, <2>5 DEF SameFields, SameConnection
  <2>8. QED
    BY <2>1, <2>6, <2>7 DEF LifeInv, MayConnect
<1> HIDE DEF d, t
<1>6. BeginConnect(s, reconnecting, loadable) =
          IF EnsureSslContextThrows(s, loadable) THEN d ELSE t
  BY DEF BeginConnect, u, c, d, o, t, state
<1>7. QED
  BY <1>4, <1>5, <1>6 DEF state

-----------------------------------------------------------------------------
(* The completion handlers. *)

\* What handler c, taken out of the queue, may count on.
Due(s, c) ==
    /\ Ours(s, c) /\ c.op.kind \in ChainKinds \cup {"write", "idleTimer"} => s.stream # "null"
    /\ Ours(s, c) /\ c.op.kind = "handshake" /\ ~s.shuttingDown =>
          s.state # "Connected" /\ ~Retrying(s)
    /\ c.op.kind = RT /\ MayConnect(s) =>
          AutoReconnect /\ s.state \in {"Connecting", "Reconnecting"}

\* Taking the first handler out of the queue.
LEMMA TakenLife ==
    ASSUME NEW s, RecordInv(s), FlowInv(s), LifeInv(s), s.ready # <<>>
    PROVE  LET t == [s EXCEPT !.ready = Tail(@)]
               c == Head(s.ready)
           IN  Calm(s, t) /\ LifeInv(t) /\ Due(t, c)
<1> DEFINE t == [s EXCEPT !.ready = Tail(@)]
           c == Head(s.ready)
<1>1. s \in ImplType
  BY DEF RecordInv
<1>2. RT \in OpKinds /\ "idleTimer" \in OpKinds /\ "handshake" \in OpKinds
  BY DEF OpKinds, TimerKinds, ChainKinds, RT
<1>3. /\ SameFields(s, t) /\ c \in Completions /\ c.op.kind \in OpKinds
      /\ \A k \in OpKinds :
            /\ Has(s, k) <=> Has(t, k) \/ (c.op.gen = s.generation /\ c.op.kind = k)
            /\ InPending(t, k) <=> InPending(s, k)
            /\ InReady(s, k) <=> InReady(t, k) \/ c.op.kind = k
  BY <1>1, TakenViews
<1>4. RecordInv(t)
  BY TakenInv DEF Good
<1>5. t \in ImplType /\ t.pending = s.pending /\ t.sslContext = s.sslContext
  BY <1>1, <1>4 DEF RecordInv, ImplType
<1> HIDE DEF t, c
<1>6. Calm(s, t)
  BY <1>2, <1>3, <1>5 DEF Calm, SameSeen, StaysDown, SameFields, SameConnection, Retrying
<1>7. LifeInv(t)
  BY <1>6, CalmLives DEF Lives
<1>8. /\ t.generation = s.generation /\ t.stream = s.stream /\ t.state = s.state
      /\ t.shuttingDown = s.shuttingDown /\ t.userDisconnect = s.userDisconnect
  BY <1>3 DEF SameFields, SameConnection
<1>9. ASSUME Ours(t, c), c.op.kind \in ChainKinds \cup {"write", "idleTimer"}
      PROVE  t.stream # "null"
  <2>1. Has(s, c.op.kind)
    BY <1>3, <1>8, <1>9 DEF Ours
  <2>2. ASSUME s.stream = "null", c.op.kind # "idleTimer" PROVE FALSE
    <3>1. Free(s, c.op.kind) /\ Compete(c.op.kind, c.op.kind)
      BY <1>3, <1>9, <2>2 DEF RecordInv, IoInv, Compete
    <3>2. QED
      BY <2>1, <3>1 DEF Has, Free, Occupies
  <2>3. QED
    BY <1>8, <2>1, <2>2 DEF LifeInv
<1>10. ASSUME Ours(t, c), c.op.kind = "handshake", ~t.shuttingDown
       PROVE  t.state # "Connected" /\ ~Retrying(t)
  <2>1. t.stream # "null" /\ Has(s, "handshake")
    BY <1>2, <1>3, <1>8, <1>9, <1>10 DEF Ours, ChainKinds
  <2>2. ChainInv(s) /\ WatchInv(s) /\ RetryInv(s)
    BY <1>8, <1>10 DEF FlowInv, Mid, Base
  <2>3. PICK k \in ChainOf(s.stream) : Has(s, k)
    BY <1>8, <2>1, <2>2 DEF ChainInv
  <2>4. k = "handshake"
    BY <1>1, <2>1, <2>3, StreamChain, ChainOne DEF ChainKinds
  <2>5. s.stream = "handshaking"
    BY <1>1, <1>8, <2>1, <2>3, <2>4 DEF ChainOf, ImplType
  <2>6. s.state # "Connected" /\ ~Retrying(s)
    BY <2>2, <2>5 DEF WatchInv, RetryInv, Retrying
  <2>7. QED
    BY <1>6, <1>8, <2>6 DEF Calm
<1>11. ASSUME c.op.kind = RT, MayConnect(t)
       PROVE  AutoReconnect /\ t.state \in {"Connecting", "Reconnecting"}
  <2>1. Retrying(s) /\ MayConnect(s)
    BY <1>2, <1>3, <1>8, <1>11 DEF Retrying, MayConnect
  <2>2. AutoReconnect /\ s.state # "Disconnected"
    BY <2>1 DEF LifeInv
  <2>3. WatchInv(s) /\ RetryInv(s)
    BY <2>1 DEF FlowInv, Mid, Base, MayConnect
  <2>4. s.state # "Connected"
    BY <2>1, <2>3 DEF WatchInv, RetryInv, Retrying
  <2>5. s.state \in States
    BY <1>1 DEF ImplType
  <2>6. QED
    BY <1>8, <2>2, <2>4, <2>5 DEF States
<1>12. Due(t, c)
  BY <1>9, <1>10, <1>11 DEF Due
<1>13. QED
  BY <1>6, <1>7, <1>12 DEF t, c


\* The handlers of an attempt: name resolution, TCP connect, TLS handshake.
LEMMA AttemptHandlersLives ==
    ASSUME NEW s, RecordInv(s), LifeInv(s), NEW c \in Completions, Due(s, c)
    PROVE  /\ c.op.kind = "resolve" => Lives(s, ResolveDone(s, c))
           /\ c.op.kind = "connect" => Lives(s, ConnectDone(s, c))
           /\ c.op.kind = "handshake" => Lives(s, HandshakeDone(s, c))
<1> DEFINE h == [s EXCEPT !.stream = "handshaking"]
           e == [s EXCEPT !.stream = "secure", !.reconnectDelay = MinDelay]
           b == BeginReadLength(e, c.op.gen)
<1>1. s \in ImplType /\ Bounded(s)
  BY DEF RecordInv, IoInv
<1>2. Lives(s, s)
  BY <1>1, FieldsCalm, CalmLives DEF SameSeen
<1>3. "connect" \in OpKinds \ {"resolve", RT} /\ "handshake" \in OpKinds \ {"resolve", RT}
  BY DEF OpKinds, ChainKinds, RT
<1>4. ASSUME s.stream # "null"
      PROVE  /\ Lives(s, ConnectionFailed(s, c.op.gen)) /\ Lives(s, Start(s, "connect"))
             /\ Lives(s, Start(h, "handshake")) /\ Lives(s, ResetIdleTimer(b))
  <2>1. ASSUME NEW t \in ImplType, t.stream \in {"handshaking", "secure"}, SameSeen(s, t),
               t.sslContext = s.sslContext, t.generation = s.generation,
               t.pending = s.pending, t.ready = s.ready
        PROVE  Lives(s, t)
    <3>1. SameViews(s, t) /\ RT \in OpKinds
      BY <2>1, ViewsFrame DEF OpKinds, TimerKinds, RT
    <3>2. LifeInv(t)
      BY <1>4, <2>1, <3>1 DEF LifeInv, SameViews, SameSeen, Retrying, MayConnect
    <3>3. QED
      BY <1>4, <2>1, <3>2 DEF Lives, Allowed, StaysDown
  <2>2. /\ h \in ImplType /\ h.stream = "handshaking" /\ SameSeen(s, h)
        /\ h.sslContext = s.sslContext /\ h.generation = s.generation
        /\ h.pending = s.pending /\ h.ready = s.ready
    BY <1>1 DEF ImplType, SameSeen
  <2>3. /\ e \in ImplType /\ e.stream = "secure" /\ SameSeen(s, e)
        /\ e.sslContext = s.sslContext /\ e.generation = s.generation
        /\ e.pending = s.pending /\ e.ready = s.ready
    <3>1. MinDelay \in Delays
      BY LimitAssumption DEF Delays
    <3>2. QED
      BY <1>1, <3>1 DEF ImplType, SameSeen
  <2> HIDE DEF h, e
  <2>4. Lives(s, h) /\ Lives(s, e)
    BY <2>1, <2>2, <2>3
  <2>5. Lives(s, Start(h, "handshake"))
    BY <1>3, <2>2, <2>4, StartCalm, CalmCompose
  <2>6. Calm(e, b)
    BY <2>3, ReadCalm
  <2> HIDE DEF b
  <2>7. b \in ImplType /\ b.stream # "null"
    BY <2>3, <2>6 DEF Calm
  <2>8. Calm(b, ResetIdleTimer(b))
    BY <2>7, SetTimerCalm DEF ResetIdleTimer
  <2>9. Lives(s, ResetIdleTimer(b))
    BY <2>4, <2>6, <2>8, CalmCompose
  <2>10. Calm(s, Start(s, "connect"))
    BY <1>1, <1>3, StartCalm
  <2>11. QED
    BY <1>1, <1>4, <2>5, <2>9, <2>10, CalmLives, ConnectionFailedLives
<1> HIDE DEF h, e, b
<1>5. Ours(s, c) /\ c.op.kind \in ChainKinds => s.stream # "null"
  BY DEF Due
<1>6. Ours(s, c) /\ c.op.kind = "handshake" => Lives(s, AuthenticationFailed(s, c.op.gen))
  <2>1. Ours(s, c) /\ c.op.kind = "handshake" => s.stream # "null"
    BY <1>5 DEF ChainKinds
  <2>2. QED
    BY <1>1, <2>1, AuthenticationFailedLives DEF Due
<1>7. c.op.kind = "resolve" => Lives(s, ResolveDone(s, c))
  BY <1>2, <1>4, <1>5 DEF ResolveDone, Ours, ChainKinds
<1>8. c.op.kind = "connect" => Lives(s, ConnectDone(s, c))
  BY <1>2, <1>4, <1>5 DEF ConnectDone, Ours, ChainKinds, h
<1>9. c.op.kind = "handshake" => Lives(s, HandshakeDone(s, c))
  BY <1>2, <1>4, <1>5, <1>6 DEF HandshakeDone, Ours, ChainKinds, e, b
<1>10. QED
  BY <1>7, <1>8, <1>9

\* The handlers of the reads.
LEMMA ReadHandlersLives ==
    ASSUME NEW s, RecordInv(s), LifeInv(s), NEW c \in Completions, Due(s, c)
    PROVE  /\ \A byte \in LengthBytes :
                 c.op.kind = "readLength" => Lives(s, LengthByteDone(s, c, byte))
           /\ \A m \in TvMessageType :
                 c.op.kind = "readBody" => Lives(s, BodyDone(s, c, m))
<1>1. s \in ImplType /\ Bounded(s)
  BY DEF RecordInv, IoInv
<1>2. Calm(s, s) /\ Lives(s, s)
  BY <1>1, FieldsCalm, CalmLives DEF SameSeen
<1>3. Ours(s, c) /\ c.op.kind \in {"readLength", "readBody"} => s.stream # "null"
  BY DEF Due, ChainKinds
<1>4. ASSUME NEW t, Calm(s, t), s.stream # "null", NEW m \in TvMessageType
      PROVE  Lives(s, BeginReadLength(HandleMessage(t, m), c.op.gen))
  <2>1. t \in ImplType /\ t.stream # "null" /\ LifeInv(t)
    BY <1>4, CalmLives DEF Calm, Lives
  <2>2. HandleMessage(t, m) \in ImplType /\ Lives(t, HandleMessage(t, m))
    BY <2>1, HandleMessageLives
  <2>3. QED
    BY <1>4, <2>2, ReadCalm, CalmCompose
<1>5. ASSUME NEW byte \in LengthBytes, c.op.kind = "readLength"
      PROVE  Lives(s, LengthByteDone(s, c, byte))
  <2> DEFINE t == [s EXCEPT !.readShift = @ + 7]
             gen == c.op.gen
  <2>1. CASE ~Ours(s, c)
    BY <1>2, <2>1 DEF LengthByteDone, Ours
  <2>2. CASE Ours(s, c)
    <3>1. s.stream # "null"
      BY <1>3, <1>5, <2>2
    <3>2. /\ t \in ImplType /\ SameSeen(s, t) /\ t.stream = s.stream
          /\ t.sslContext = s.sslContext /\ t.generation = s.generation
          /\ t.pending = s.pending /\ t.ready = s.ready
      <4>1. s.readShift + 7 \in Nat
        BY <1>1 DEF ImplType
      <4>2. QED
        BY <1>1, <4>1 DEF ImplType, SameSeen
    <3> HIDE DEF t
    <3>3. Calm(s, t) /\ Bounded(t)
      BY <1>1, <3>2, FieldsCalm DEF Bounded
    <3>4. Lives(s, ConnectionFailed(s, gen)) /\ Lives(s, HandleConnectionLoss(s, gen))
      BY <1>1, <3>1, ConnectionFailedLives, HandleConnectionLossLives
    <3>5. Lives(s, HandleConnectionLoss(t, gen))
      <4>1. LifeInv(t)
        BY <3>3, CalmLives DEF Lives
      <4>2. Lives(t, HandleConnectionLoss(t, gen))
        BY <3>1, <3>2, <3>3, <4>1, HandleConnectionLossLives
      <4>3. QED
        BY <3>3, <4>2, CalmCompose
    <3>6. Lives(s, ReadOneLengthByte(t, gen))
      BY <3>2, <3>3, ReadCalm, CalmTransitive, CalmLives
    <3>7. EmptyFrame \in TvMessageType
      BY DataAssumption DEF EmptyFrame, TvMessageType, TvKinds
    <3>8. Lives(s, EmptyFrameDone(s, gen))
      BY <1>2, <1>4, <3>1, <3>7 DEF EmptyFrameDone
    <3>9. Lives(s, Start(s, "readBody"))
      <4>1. "readBody" \in OpKinds \ {"resolve", RT}
        BY DEF OpKinds, ChainKinds, RT
      <4>2. QED
        BY <1>1, <4>1, StartCalm, CalmLives
    <3>10. CASE c.result = "error"
      BY <2>2, <3>4, <3>10 DEF LengthByteDone, Ours
    <3>11. CASE c.result # "error" /\ byte = "more"
      BY <2>2, <3>5, <3>6, <3>11 DEF LengthByteDone, Ours, t
    <3>12. CASE c.result # "error" /\ byte \in {"tooLong", "empty", "body"}
      BY <2>2, <3>4, <3>8, <3>9, <3>12 DEF LengthByteDone, Ours
    <3>13. QED
      BY <3>10, <3>11, <3>12 DEF LengthBytes
  <2>3. QED
    BY <2>1, <2>2
<1>6. ASSUME NEW m \in TvMessageType, c.op.kind = "readBody"
      PROVE  Lives(s, BodyDone(s, c, m))
  <2>1. CASE ~Ours(s, c)
    BY <1>2, <2>1 DEF BodyDone, Ours
  <2>2. CASE Ours(s, c)
    <3>1. s.stream # "null"
      BY <1>3, <1>6, <2>2
    <3>2. Lives(s, ConnectionFailed(s, c.op.gen))
      BY <1>1, <3>1, ConnectionFailedLives
    <3>3. Calm(s, ResetIdleTimer(s))
      BY <1>1, <3>1, SetTimerCalm DEF ResetIdleTimer
    <3>4. QED
      BY <1>4, <2>2, <3>1, <3>2, <3>3 DEF BodyDone, Ours
  <2>3. QED
    BY <2>1, <2>2
<1>7. QED
  BY <1>5, <1>6

\* The handler of a write.
LEMMA WriteHandlerLives ==
    ASSUME NEW s, RecordInv(s), LifeInv(s), NEW c \in Completions, Served(s, c), Due(s, c),
           c.op.kind = "write"
    PROVE  Lives(s, WriteDone(s, c))
<1> DEFINE n == [s EXCEPT !.writeInProgress = FALSE]
           w == [s EXCEPT !.writeQueue = Tail(@)]
<1>1. s \in ImplType /\ Bounded(s)
  BY DEF RecordInv, IoInv
<1>2. CASE ~Ours(s, c)
  BY <1>1, <1>2, FieldsCalm, CalmLives DEF SameSeen, WriteDone, Ours
<1>3. CASE Ours(s, c)
  <2>1. s.stream # "null" /\ s.writeQueue # <<>>
    BY <1>3 DEF Due, Served, Ours, TimerKinds, RecordInv, WriterInv
  <2>2. Calm(s, n) /\ n \in ImplType /\ n.stream = s.stream
    <3>1. /\ n \in ImplType /\ SameSeen(s, n) /\ n.stream = s.stream
          /\ n.sslContext = s.sslContext /\ n.generation = s.generation
          /\ n.pending = s.pending /\ n.ready = s.ready
      BY <1>1 DEF ImplType, SameSeen
    <3> HIDE DEF n
    <3>2. QED
      BY <3>1, FieldsCalm
  <2>3. Bounded(n)
    <3>1. n.pending = s.pending /\ n.ready = s.ready /\ n.generation = s.generation
      BY <1>1 DEF ImplType
    <3> HIDE DEF n
    <3>2. QED
      BY <1>1, <3>1 DEF Bounded
  <2> HIDE DEF n
  <2>4. Lives(s, ConnectionFailed(n, c.op.gen))
    <3>1. LifeInv(n)
      BY <2>2, CalmLives DEF Lives
    <3>2. Lives(n, ConnectionFailed(n, c.op.gen))
      BY <2>1, <2>2, <2>3, <3>1, ConnectionFailedLives
    <3>3. QED
      BY <2>2, <3>2, CalmCompose
  <2>5. Lives(s, BeginWrite(w))
    <3>1. s.writeQueue \in Seq(Messages)
      BY <1>1 DEF ImplType, MessageSeqs
    <3>2. Tail(s.writeQueue) \in MessageSeqs
      BY <2>1, <3>1 DEF MessageSeqs
    <3>3. /\ w \in ImplType /\ SameSeen(s, w) /\ w.stream = s.stream
          /\ w.sslContext = s.sslContext /\ w.generation = s.generation
          /\ w.pending = s.pending /\ w.ready = s.ready
      BY <1>1, <3>2 DEF ImplType, SameSeen
    <3> HIDE DEF w
    <3>4. QED
      BY <3>3, FieldsCalm, BeginWriteCalm, CalmTransitive, CalmLives
  <2>6. QED
    BY <1>3, <2>4, <2>5 DEF WriteDone, Ours, n, w
<1>4. QED
  BY <1>2, <1>3

\* The handlers of the timers.
LEMMA TimerHandlersLives ==
    ASSUME NEW s, RecordInv(s), LifeInv(s), NEW c \in Completions, Due(s, c),
           NEW loadable \in BOOLEAN
    PROVE  /\ c.op.kind = RT => Lives(s, ReconnectTimerDone(s, loadable))
           /\ c.op.kind = "idleTimer" => Lives(s, IdleTimerDone(s, c))
           /\ c.op.kind = "voiceTimer" => Lives(s, VoiceTimerDone(s))
<1>1. s \in ImplType /\ Bounded(s)
  BY DEF RecordInv, IoInv
<1>2. Lives(s, s)
  BY <1>1, FieldsCalm, CalmLives DEF SameSeen
<1>3. ASSUME c.op.kind = RT
      PROVE  Lives(s, ReconnectTimerDone(s, loadable))
  <2>1. CASE ~MayConnect(s)
    BY <1>2, <2>1 DEF ReconnectTimerDone, BeginConnect
  <2>2. CASE MayConnect(s)
    <3> DEFINE t == BeginConnect(s, TRUE, loadable)
    <3>1. AutoReconnect /\ s.state \in {"Connecting", "Reconnecting"}
      BY <1>3, <2>2 DEF Due
    <3>2. /\ LifeInv(t) /\ t.available = s.available
          /\ t.userDisconnect = s.userDisconnect /\ t.shuttingDown = s.shuttingDown
          /\ t.state \in {"Disconnected", "Reconnecting"}
      BY <1>1, <2>2, BeginConnectLife DEF LifeInv
    <3> HIDE DEF t
    <3>3. RetryStep(s, t) \/ RefusedStep(s, t)
      BY <2>2, <3>1, <3>2 DEF RetryStep, RefusedStep, MayConnect
    <3>4. Lives(s, t)
      BY <2>2, <3>2, <3>3 DEF Lives, Allowed, MayConnect
    <3>5. QED
      BY <2>2, <3>4 DEF ReconnectTimerDone, MayConnect, t
  <2>3. QED
    BY <2>1, <2>2
<1>4. ASSUME c.op.kind = "idleTimer"
      PROVE  Lives(s, IdleTimerDone(s, c))
  <2>1. Ours(s, c) => s.stream # "null"
    BY <1>4 DEF Due
  <2>2. Ours(s, c) => Lives(s, HandleConnectionLoss(s, c.op.gen))
    BY <1>1, <2>1, HandleConnectionLossLives
  <2>3. QED
    BY <1>2, <2>2 DEF IdleTimerDone, Ours
<1>5. Lives(s, VoiceTimerDone(s))
  <2> DEFINE t == VoiceTimerDone(s)
  <2>1. /\ t \in ImplType /\ SameSeen(s, t) /\ t.stream = s.stream
        /\ t.sslContext = s.sslContext /\ t.generation = s.generation
        /\ t.pending = s.pending /\ t.ready = s.ready
    BY <1>1 DEF VoiceTimerDone, ImplType, SameSeen
  <2> HIDE DEF t
  <2>2. QED
    BY <2>1, FieldsCalm, CalmLives DEF t
<1>6. QED
  BY <1>3, <1>4, <1>5


-----------------------------------------------------------------------------
(* The environment, the application and the destructor. *)

\* An operation completes.
LEMMA MovedLives ==
    ASSUME NEW s \in ImplType, LifeInv(s), NEW op \in s.pending, NEW result \in Results
    PROVE  Lives(s, [s EXCEPT !.pending = @ \ {op},
                              !.ready = Append(@, [op |-> op, result |-> result])])
<1> DEFINE t == [s EXCEPT !.pending = @ \ {op},
                          !.ready = Append(@, [op |-> op, result |-> result])]
<1>1. /\ SameFields(s, t)
      /\ \A k \in OpKinds :
            /\ Has(t, k) <=> Has(s, k)
            /\ InPending(t, k) => InPending(s, k)
            /\ InReady(t, k) <=> InReady(s, k) \/ k = op.kind
  BY MovedViews
<1>2. t.pending = s.pending \ {op} /\ t.sslContext = s.sslContext
  BY DEF ImplType
<1> HIDE DEF t
<1>3. RT \in OpKinds /\ "idleTimer" \in OpKinds
  BY DEF OpKinds, TimerKinds, RT
<1>4. Retrying(t) => Retrying(s)
  BY <1>1, <1>3 DEF Retrying, InPending
<1>5. SameSeen(s, t) /\ t.stream = s.stream
  BY <1>1 DEF SameFields, SameConnection, SameSeen
<1>6. LifeInv(t)
  BY <1>1, <1>2, <1>3, <1>4, <1>5 DEF LifeInv, SameSeen, MayConnect
<1>7. StaysDown(s, t)
  BY <1>2, <1>5 DEF StaysDown
<1>8. QED
  BY <1>5, <1>6, <1>7 DEF Lives, Allowed, t

\* connect(): an attempt, unless the destructor has begun.
LEMMA ConnectPostedLives ==
    ASSUME NEW s, RecordInv(s), LifeInv(s), NEW loadable \in BOOLEAN
    PROVE  Lives(s, ConnectPosted(s, loadable))
<1> DEFINE c == CancelTimer(s, RT)
           t == [c EXCEPT !.userDisconnect = FALSE, !.reconnectDelay = MinDelay]
           b == BeginConnect(t, FALSE, loadable)
<1>1. s \in ImplType /\ RT \in TimerKinds
  BY DEF RecordInv, TimerKinds, RT
<1>2. Calm(s, c)
  BY <1>1, CancelCalm
<1>3. Bounded(c)
  BY <1>1, CancelTimerIo DEF RecordInv, IoInv
<1>4. MinDelay \in Delays
  BY LimitAssumption DEF Delays
<1> HIDE DEF c
<1>5. /\ t \in ImplType /\ t.userDisconnect = FALSE /\ t.shuttingDown = c.shuttingDown
      /\ t.state = c.state /\ t.available = c.available /\ t.sslContext = c.sslContext
      /\ t.stream = c.stream /\ t.generation = c.generation
      /\ t.pending = c.pending /\ t.ready = c.ready
  BY <1>2, <1>4 DEF Calm, ImplType
<1> HIDE DEF t
<1>6. Bounded(t)
  BY <1>3, <1>5 DEF Bounded
<1>7. /\ LifeInv(c)
      /\ Retrying(t) <=> Retrying(c)
      /\ Has(t, "idleTimer") <=> Has(c, "idleTimer")
  <2>1. SameViews(c, t) /\ RT \in OpKinds /\ "idleTimer" \in OpKinds
    BY <1>5, ViewsFrame DEF OpKinds, TimerKinds, RT
  <2>2. QED
    BY <1>2, <2>1, CalmLives DEF SameViews, Retrying, Lives
<1>8. CASE s.shuttingDown
  <2>1. t.shuttingDown
    BY <1>2, <1>5, <1>8 DEF Calm, SameSeen
  <2>2. b = t
    BY <2>1 DEF BeginConnect, MayConnect
  <2>3. LifeInv(t)
    BY <1>5, <1>7, <2>1 DEF LifeInv, MayConnect
  <2>4. AbandonStep(s, t) /\ StaysDown(s, t)
    BY <1>2, <1>5, <1>8, <2>1 DEF AbandonStep, Calm, SameSeen, StaysDown
  <2>5. QED
    BY <2>2, <2>3, <2>4 DEF Lives, Allowed, ConnectPosted, RT, b, t, c
<1>9. CASE ~s.shuttingDown
  <2>1. MayConnect(t) /\ (Retrying(t) => AutoReconnect /\ t.sslContext # "null")
    BY <1>2, <1>5, <1>7, <1>9 DEF Calm, SameSeen, MayConnect, LifeInv
  <2>2. /\ LifeInv(b) /\ b.available = t.available
        /\ b.userDisconnect = t.userDisconnect /\ b.shuttingDown = t.shuttingDown
        /\ b.state \in {"Disconnected", "Connecting"}
    BY <1>5, <1>6, <2>1, BeginConnectLife
  <2> HIDE DEF b
  <2>3. ConnectStep(s, b)
    BY <1>2, <1>5, <1>9, <2>2 DEF ConnectStep, Calm, SameSeen
  <2>4. QED
    BY <1>9, <2>2, <2>3 DEF Lives, Allowed, ConnectPosted, RT, b, t, c
<1>10. QED
  BY <1>8, <1>9

\* Cancelling the three timers is calm.
LEMMA CancelTimersCalm ==
    ASSUME NEW s \in ImplType
    PROVE  Calm(s, CancelTimers(s))
<1> DEFINE a == CancelTimer(s, RT)
           b == CancelTimer(a, "idleTimer")
           c == CancelTimer(b, "voiceTimer")
<1>1. RT \in TimerKinds /\ "idleTimer" \in TimerKinds /\ "voiceTimer" \in TimerKinds
  BY DEF TimerKinds, RT
<1>2. Calm(s, a) /\ a \in ImplType
  BY <1>1, CancelCalm DEF Calm
<1> HIDE DEF a
<1>3. Calm(a, b) /\ b \in ImplType
  BY <1>1, <1>2, CancelCalm DEF Calm
<1> HIDE DEF b
<1>4. Calm(b, c)
  BY <1>1, <1>3, CancelCalm
<1> HIDE DEF c
<1>5. QED
  BY <1>2, <1>3, <1>4, CalmTransitive DEF CancelTimers, a, b, c, RT

\* disconnect() and startPairing() end all.
LEMMA DropLives ==
    ASSUME NEW s, RecordInv(s), LifeInv(s)
    PROVE  Lives(s, Drop(s)) /\ Lives(s, EmitAvailability(Drop(s), FALSE))
<1> DEFINE w == [s EXCEPT !.userDisconnect = TRUE]
           c == CancelTimers(w)
           u == CloseStream(c)
           d == SetState(u, "Disconnected")
           e == EmitAvailability(d, FALSE)
<1>1. s \in ImplType /\ IoInv(s)
  BY DEF RecordInv
<1>2. /\ w \in ImplType /\ SameOps(s, w) /\ w.generation = s.generation
      /\ w.stream = s.stream /\ w.sslContext = s.sslContext /\ w.userDisconnect
      /\ w.available = s.available /\ w.shuttingDown = s.shuttingDown
  BY <1>1 DEF ImplType, SameOps
<1> HIDE DEF w
<1>3. Calm(w, c) /\ c \in ImplType
  BY <1>2, CancelTimersCalm DEF Calm
<1>4. Bounded(c)
  <2>1. IoInv(w)
    BY <1>1, <1>2 DEF IoInv, Bounded, Unique, Rivals, Free, Occupies, SameOps
  <2>2. QED
    BY <1>2, <2>1, CancelTimersInv DEF IoInv
<1> HIDE DEF c
<1>5. Retrying(c) => AutoReconnect /\ c.sslContext # "null"
  <2>1. Retrying(w) <=> Retrying(s)
    BY <1>2 DEF Retrying, InPending, InReady, SameOps
  <2>2. QED
    BY <1>2, <1>3, <2>1 DEF Calm, LifeInv
<1>6. u \in ImplType /\ SameSeen(c, u) /\ u.stream = "null" /\ u.sslContext = c.sslContext
  BY <1>3, <1>4, CloseLife
<1> HIDE DEF u
<1>7. /\ d \in ImplType /\ d.stream = "null" /\ d.sslContext = c.sslContext
      /\ d.state = "Disconnected" /\ d.available = u.available
      /\ d.userDisconnect = u.userDisconnect /\ d.shuttingDown = u.shuttingDown
      /\ d.pending = u.pending /\ d.ready = u.ready /\ d.generation = u.generation
  BY <1>6 DEF SetState, ImplType, States
<1> HIDE DEF d
<1>8. /\ e.stream = "null" /\ e.sslContext = c.sslContext
      /\ e.state = "Disconnected" /\ e.available = FALSE
      /\ e.userDisconnect = u.userDisconnect /\ e.shuttingDown = u.shuttingDown
      /\ e.pending = u.pending /\ e.ready = u.ready /\ e.generation = u.generation
  BY <1>7 DEF EmitAvailability, ImplType
<1> HIDE DEF e
<1>9. /\ u.available = s.available /\ u.userDisconnect /\ u.shuttingDown = s.shuttingDown
  BY <1>2, <1>3, <1>6 DEF Calm, SameSeen
<1>10. ASSUME NEW x, x.stream = "null", x.sslContext = c.sslContext, x.state = "Disconnected",
              x.available \in {u.available, FALSE}, x.userDisconnect = u.userDisconnect,
              x.shuttingDown = u.shuttingDown, x.pending = u.pending, x.ready = u.ready,
              x.generation = u.generation
       PROVE  Lives(s, x)
  <2>1. ~MayConnect(x)
    BY <1>9, <1>10 DEF MayConnect
  <2>2. LifeInv(x) /\ StaysDown(c, x)
    BY <1>3, <1>4, <1>5, <1>10, <2>1, ClosedLife DEF u
  <2>3. StaysDown(s, x)
    BY <1>2, <1>3, <1>10, <2>2 DEF StaysDown, Calm, SameOps
  <2>4. DropStep(s, x)
    BY <1>9, <1>10 DEF DropStep
  <2>5. QED
    BY <2>2, <2>3, <2>4 DEF Lives, Allowed
<1>11. Lives(s, d) /\ Lives(s, e)
  BY <1>7, <1>8, <1>10
<1>12. QED
  BY <1>11 DEF Drop, w, c, u, d, e

\* The calls that queue messages.
LEMMA QueueingCallsLives ==
    ASSUME NEW s, RecordInv(s), LifeInv(s)
    PROVE  /\ Lives(s, QueueMessage(s, Message("Key", 0)))
           /\ Lives(s, QueueMessage(s, Message("Text", s.mirror["ime"])))
           /\ Lives(s, StartVoicePosted(s))
           /\ \A chunks \in Nat : Lives(s, SendVoiceDataPosted(s, chunks))
           /\ Lives(s, StopVoicePosted(s))
<1>1. s \in ImplType /\ 0 \in Words
  BY DataAssumption DEF RecordInv
<1>2. Calm(s, s)
  BY <1>1, FieldsCalm DEF SameSeen
<1>3. Message("Key", 0) \in Messages
  BY <1>1, MessageType DEF MessageKinds
<1>4. Message("Text", s.mirror["ime"]) \in Messages
  <2>1. s.mirror["ime"] \in Words
    BY <1>1 DEF ImplType, Mirrors, MirrorFields
  <2>2. QED
    BY <2>1, MessageType DEF MessageKinds
<1>5. Calm(s, StartVoicePosted(s))
  <2> DEFINE v == [s EXCEPT !.voiceStarting = TRUE]
             q == QueueMessage(v, Message("Key", 0))
  <2>1. /\ v \in ImplType /\ SameSeen(s, v) /\ v.stream = s.stream
        /\ v.sslContext = s.sslContext /\ v.generation = s.generation
        /\ v.pending = s.pending /\ v.ready = s.ready
    BY <1>1 DEF ImplType, SameSeen
  <2> HIDE DEF v
  <2>2. Calm(s, q) /\ q \in ImplType
    BY <1>3, <2>1, FieldsCalm, QueueMessageCalm, CalmTransitive DEF Calm
  <2> HIDE DEF q
  <2>3. Calm(s, SetTimer(q, "voiceTimer"))
    BY <2>2, SetTimerCalm, CalmTransitive
  <2>4. QED
    BY <1>2, <2>3 DEF StartVoicePosted, v, q
<1>6. s.voiceSessionId # NoSession => s.voiceSessionId \in Words
  BY <1>1 DEF ImplType, Sessions
<1>7. ASSUME NEW chunks \in Nat PROVE Calm(s, SendVoiceDataPosted(s, chunks))
  <2>1. ASSUME s.voiceSessionId # NoSession
        PROVE  [i \in 1..chunks |-> Message("VoicePayload", s.voiceSessionId)] \in Seq(Messages)
    <3>1. Message("VoicePayload", s.voiceSessionId) \in Messages
      BY <1>6, <2>1, MessageType DEF MessageKinds
    <3>2. QED
      BY <3>1
  <2>2. QED
    BY <1>1, <1>2, <2>1, QueueMessagesCalm DEF SendVoiceDataPosted
<1>8. Calm(s, StopVoicePosted(s))
  <2> DEFINE c == CancelTimer(s, "voiceTimer")
             t == [c EXCEPT !.voiceStarting = FALSE]
             q == QueueMessage(t, Message("VoiceEnd", t.voiceSessionId))
             n == [q EXCEPT !.voiceSessionId = NoSession]
  <2>1. Calm(s, c) /\ c \in ImplType
    BY <1>1, CancelCalm DEF TimerKinds, Calm
  <2> HIDE DEF c
  <2>2. /\ t \in ImplType /\ SameSeen(c, t) /\ t.stream = c.stream
        /\ t.sslContext = c.sslContext /\ t.generation = c.generation
        /\ t.pending = c.pending /\ t.ready = c.ready
    BY <2>1 DEF ImplType, SameSeen
  <2> HIDE DEF t
  <2>3. Calm(s, t)
    BY <2>1, <2>2, FieldsCalm, CalmTransitive
  <2>4. ASSUME t.voiceSessionId # NoSession PROVE Calm(s, n)
    <3>1. t.voiceSessionId \in Words
      BY <2>2, <2>4 DEF ImplType, Sessions
    <3>2. Message("VoiceEnd", t.voiceSessionId) \in Messages
      BY <3>1, MessageType DEF MessageKinds
    <3>3. Calm(s, q) /\ q \in ImplType
      BY <2>2, <2>3, <3>2, QueueMessageCalm, CalmTransitive DEF Calm
    <3> HIDE DEF q
    <3>4. /\ n \in ImplType /\ SameSeen(q, n) /\ n.stream = q.stream
          /\ n.sslContext = q.sslContext /\ n.generation = q.generation
          /\ n.pending = q.pending /\ n.ready = q.ready
      BY <3>3 DEF ImplType, SameSeen, Sessions
    <3> HIDE DEF n
    <3>5. QED
      BY <3>3, <3>4, FieldsCalm, CalmTransitive
  <2>5. QED
    BY <2>3, <2>4 DEF StopVoicePosted, EndSession, c, t, q, n
<1>9. QED
  BY <1>1, <1>3, <1>4, <1>5, <1>7, <1>8, QueueMessageCalm, CalmLives

\* The destructor's flag and its clean-up.
LEMMA DestructorLives ==
    ASSUME NEW s, RecordInv(s), LifeInv(s)
    PROVE  /\ Lives(s, Flagged(s))
           /\ s.shuttingDown =>
                 Lives(s, CancelTimers(CloseStream([s EXCEPT !.userDisconnect = TRUE])))
<1>1. s \in ImplType /\ Bounded(s)
  BY DEF RecordInv, IoInv
<1>2. Lives(s, Flagged(s))
  <2> DEFINE t == Flagged(s)
  <2>1. /\ t.shuttingDown /\ t.state = s.state /\ t.available = s.available
        /\ t.userDisconnect = s.userDisconnect /\ t.stream = s.stream
        /\ t.sslContext = s.sslContext /\ t.generation = s.generation
        /\ t.pending = s.pending /\ t.ready = s.ready
    BY <1>1 DEF Flagged, ImplType
  <2> HIDE DEF t
  <2>2. SameViews(s, t) /\ RT \in OpKinds /\ "idleTimer" \in OpKinds
    BY <2>1, ViewsFrame DEF OpKinds, TimerKinds, RT
  <2>3. LifeInv(t)
    BY <2>1, <2>2 DEF LifeInv, SameViews, Retrying, MayConnect
  <2>4. DestroyStep(s, t) /\ StaysDown(s, t)
    BY <2>1 DEF DestroyStep, StaysDown
  <2>5. QED
    BY <2>3, <2>4 DEF Lives, Allowed, t
<1>3. ASSUME s.shuttingDown
      PROVE  Lives(s, CancelTimers(CloseStream([s EXCEPT !.userDisconnect = TRUE])))
  <2> DEFINE w == [s EXCEPT !.userDisconnect = TRUE]
             u == CloseStream(w)
             t == CancelTimers(u)
  <2>1. /\ w \in ImplType /\ w.shuttingDown = s.shuttingDown /\ w.userDisconnect
        /\ w.state = s.state /\ w.available = s.available /\ w.sslContext = s.sslContext
        /\ w.generation = s.generation /\ w.pending = s.pending /\ w.ready = s.ready
        /\ w.stream = s.stream
    BY <1>1 DEF ImplType
  <2> HIDE DEF w
  <2>2. Bounded(w) /\ (Retrying(w) <=> Retrying(s))
    BY <1>1, <2>1 DEF Bounded, Retrying, InPending, InReady
  <2>3. u \in ImplType /\ SameSeen(w, u) /\ u.stream = "null" /\ u.sslContext = w.sslContext
    BY <2>1, <2>2, CloseLife
  <2>4. ~MayConnect(u) /\ (Retrying(w) => AutoReconnect /\ w.sslContext # "null")
    BY <2>1, <2>2, <2>3 DEF MayConnect, SameSeen, LifeInv
  <2>5. LifeInv(u) /\ StaysDown(w, u)
    BY <2>1, <2>2, <2>3, <2>4, ClosedLife
  <2>6. AbandonStep(s, u) /\ StaysDown(s, u)
    BY <1>3, <2>1, <2>3, <2>5 DEF AbandonStep, SameSeen, StaysDown
  <2> HIDE DEF u
  <2>7. Lives(s, u)
    BY <2>5, <2>6 DEF Lives, Allowed
  <2>8. QED
    BY <2>3, <2>7, CancelTimersCalm, CalmCompose DEF u, w
<1>4. QED
  BY <1>2, <1>3


-----------------------------------------------------------------------------
(* The theorems. *)

AllInv == Inv /\ FlowInv(impl) /\ LifeInv(impl)

\* The initial state has no stream and no operation.
LEMMA InitLife == Init => LifeInv(impl)
<1> SUFFICES ASSUME Init PROVE LifeInv(InitialImpl)
  BY DEF Init
<1>1. /\ InitialImpl.stream = "null"
      /\ InitialImpl.pending = {} /\ InitialImpl.ready = <<>>
  BY DEF InitialImpl
<1>2. ~Has(InitialImpl, "idleTimer") /\ ~Retrying(InitialImpl)
  BY <1>1 DEF Has, Retrying, InPending, InReady
<1>3. QED
  BY <1>1, <1>2 DEF LifeInv

\* Every step is one of the lifecycle's, and keeps the invariant.
LEMMA NextLives == AllInv /\ [Next]_vars => Lives(impl, impl')
<1> SUFFICES ASSUME AllInv, [Next]_vars PROVE Lives(impl, impl')
  OBVIOUS
<1>1. /\ Inv /\ FlowInv(impl) /\ LifeInv(impl) /\ RecordInv(impl) /\ impl \in ImplType
      /\ certificate \in BOOLEAN
  BY DEF AllInv, Inv, TypeOK
<1>2. Lives(impl, impl)
  BY <1>1, FieldsCalm, CalmLives DEF SameSeen
<1>3. CASE RunHandler
  <2>1. ASSUME NEW kind, Handler(kind)
        PROVE  /\ RecordInv(Taken) /\ First \in Completions /\ Served(Taken, First)
               /\ Calm(impl, Taken) /\ LifeInv(Taken) /\ Due(Taken, First)
               /\ First.op.kind = kind
    BY <1>1, <2>1, TakenInv, TakenLife DEF Handler, Taken, First, Good
  <2>2. (\E kind : Handler(kind)) /\ Lives(Taken, impl') => Lives(impl, impl')
    BY <2>1, CalmCompose
  <2>3. CASE OnResolve \/ OnConnect \/ OnHandshake
    BY <2>1, <2>2, <2>3, AttemptHandlersLives DEF OnResolve, OnConnect, OnHandshake
  <2>4. CASE OnLengthByte \/ OnBody
    <3>1. TvBytes \subseteq LengthBytes /\ TvMessages \subseteq TvMessageType
      BY DataAssumption DEF TvMessageType
    <3>2. QED
      BY <2>1, <2>2, <2>4, <3>1, ReadHandlersLives DEF OnLengthByte, OnBody
  <2>5. CASE OnWrite
    BY <2>1, <2>2, <2>5, WriteHandlerLives DEF OnWrite
  <2>6. CASE OnReconnectTimer \/ OnIdleTimer \/ OnVoiceTimer
    BY <1>1, <2>1, <2>2, <2>6, TimerHandlersLives
    DEF OnReconnectTimer, OnIdleTimer, OnVoiceTimer, RT
  <2>7. CASE OnFailureFlagged
    <3>1. PICK kind \in ChainKinds \cup {"write"} : Handler(kind)
      BY <2>7 DEF OnFailureFlagged, ChainKinds
    <3>2. /\ Taken.generation = impl.generation /\ ~Taken.shuttingDown
          /\ Taken \in ImplType /\ Taken.stream # "null" /\ LifeInv(Taken)
      BY <2>1, <2>7, <3>1 DEF OnFailureFlagged, Calm, SameSeen, MayConnect, Due, Ours
    <3> DEFINE f == Flagged(Taken)
    <3>3. RecordInv(f) /\ LifeInv(f)
      BY <2>1, <3>1, FlaggedInv, DestructorLives DEF Lives
    <3>4. /\ f.shuttingDown /\ f.generation = impl.generation /\ f.stream # "null"
          /\ f.state = Taken.state /\ f.available = Taken.available
          /\ f.userDisconnect = Taken.userDisconnect
      BY <3>2 DEF Flagged, ImplType
    <3>5. impl' = HandleConnectionLoss(f, f.generation)
      BY <2>7, <3>4 DEF OnFailureFlagged
    <3> HIDE DEF f
    <3>6. LifeInv(impl') /\ LostStep(f, impl')
      BY <3>3, <3>4, <3>5, HandleConnectionLossLives DEF RecordInv, IoInv, Lives
    <3>7. Lives(Taken, impl')
      BY <3>2, <3>4, <3>6 DEF Lives, Allowed, LostStep
    <3>8. QED
      BY <2>2, <3>1, <3>7
  <2>8. QED
    BY <1>3, <2>3, <2>4, <2>5, <2>6, <2>7 DEF RunHandler
<1>4. CASE Application
  <2>1. CASE Connect
    BY <1>1, <2>1, ConnectPostedLives DEF Connect, Posted
  <2>2. CASE Disconnect \/ StartPairing
    BY <1>1, <2>2, DropLives DEF Disconnect, StartPairing, Posted
  <2>3. CASE SendKey \/ SendText \/ StartVoice \/ StopVoice
    BY <1>1, <2>3, QueueingCallsLives DEF SendKey, SendText, StartVoice, StopVoice, Posted
  <2>4. CASE SendVoiceData
    <3>1. \A chunks \in 1..MaxChunks : chunks \in Nat
      BY LimitAssumption
    <3>2. QED
      BY <1>1, <2>4, <3>1, QueueingCallsLives DEF SendVoiceData, Posted
  <2>5. CASE GenerateCertificate
    BY <1>2, <2>5 DEF GenerateCertificate
  <2>6. QED
    BY <1>4, <2>1, <2>2, <2>3, <2>4, <2>5 DEF Application
<1>5. CASE Environment
  <2> DEFINE Moved(op, result) ==
                 [impl EXCEPT !.pending = @ \ {op},
                              !.ready = Append(@, [op |-> op, result |-> result])]
  <2>1. \A op \in impl.pending : \A result \in {"ok", "error"} : Lives(impl, Moved(op, result))
    BY <1>1, MovedLives DEF Results
  <2>2. \E op \in impl.pending : \E result \in {"ok", "error"} : impl' = Moved(op, result)
    <3>1. CASE OpSucceeds
      BY <3>1 DEF OpSucceeds
    <3>2. CASE OpFails
      BY <3>2 DEF OpFails
    <3>3. CASE StaleOpEnds
      BY <3>3 DEF StaleOpEnds
    <3>4. CASE \E timer \in TimerKinds : TimerExpires(timer)
      BY <3>4 DEF TimerExpires
    <3>5. QED
      BY <1>5, <3>1, <3>2, <3>3, <3>4 DEF Environment
  <2> HIDE DEF Moved
  <2>3. QED
    BY <2>1, <2>2
<1>6. CASE Destructor
  <2>1. CASE DestroyBegins \/ HandlerReturns
    BY <1>1, <1>2, <2>1, DestructorLives DEF DestroyBegins, HandlerReturns
  <2>2. CASE CleanUp
    <3>1. impl.shuttingDown
      BY <1>1, <2>2 DEF CleanUp, Inv
    <3>2. QED
      BY <1>1, <2>2, <3>1, DestructorLives DEF CleanUp
  <2>3. CASE DestroyPosts \/ StopIo \/ Join
    BY <1>2, <2>3 DEF DestroyPosts, StopIo, Join
  <2>4. QED
    BY <1>6, <2>1, <2>2, <2>3 DEF Destructor
<1>7. CASE UNCHANGED vars
  BY <1>2, <1>7 DEF vars
<1>8. QED
  BY <1>3, <1>4, <1>5, <1>6, <1>7 DEF Next

\* The invariant of all three modules holds in every reachable state.
LEMMA LifeInvariance == Spec => []AllInv
<1>1. Init => AllInv
  BY InitInv, InitFlow, InitLife DEF AllInv
<1>2. AllInv /\ [Next]_vars => AllInv'
  BY NextInv, NextFlow, NextLives DEF AllInv, Lives
<1>3. QED
  BY <1>1, <1>2, PTL DEF Spec

\* A connection that handleConnectionLoss takes from Connected to Reconnecting
\* is announced to the application as unavailable.
THEOREM LossesAreAnnounced == Spec => LossIsAnnounced
<1>1. AllInv /\ [Next]_vars =>
          [impl.state = "Connected" /\ impl'.state = "Reconnecting" => ~impl'.available]_vars
  BY NextLives
  DEF Lives, Allowed, SameSeen, EstablishedStep, LostStep, RetryStep, RefusedStep,
      ConnectStep, DropStep, DestroyStep, AbandonStep
<1>2. QED
  BY <1>1, LifeInvariance, PTL DEF Spec, LossIsAnnounced

\* The clean-up leaves no timer running.
LEMMA CancelTimersEnds ==
    ASSUME NEW s \in ImplType
    PROVE  \A o \in CancelTimers(s).pending : o.kind \notin TimerKinds
<1> DEFINE a == CancelTimer(s, "reconnectTimer")
           b == CancelTimer(a, "idleTimer")
           c == CancelTimer(b, "voiceTimer")
<1>1. ASSUME NEW timer \in TimerKinds, NEW t \in ImplType
      PROVE  /\ CancelTimer(t, timer) \in ImplType
             /\ CancelTimer(t, timer).pending = {o \in t.pending : o.kind # timer}
  <2>1. CancelTimer(t, timer) \in ImplType
    BY CancelCalm DEF Calm
  <2>2. CancelTimer(t, timer).pending = {o \in t.pending : o.kind # timer}
    BY DEF CancelTimer, ImplType
  <2>3. QED
    BY <2>1, <2>2
<1>2. {"reconnectTimer", "idleTimer", "voiceTimer"} = TimerKinds
  BY DEF TimerKinds
<1>3. a \in ImplType /\ a.pending = {o \in s.pending : o.kind # "reconnectTimer"}
  BY <1>1, <1>2
<1> HIDE DEF a
<1>4. b \in ImplType /\ b.pending = {o \in a.pending : o.kind # "idleTimer"}
  BY <1>1, <1>2, <1>3
<1> HIDE DEF b
<1>5. c.pending = {o \in b.pending : o.kind # "voiceTimer"}
  BY <1>1, <1>2, <1>4
<1> HIDE DEF c
<1>6. \A o \in c.pending : o.kind \notin TimerKinds
  BY <1>2, <1>3, <1>4, <1>5
<1>7. QED
  BY <1>6 DEF CancelTimers, a, b, c

\* What ~Impl's clean-up has closed stays closed, for any queue of handlers and
\* any calls posted behind it, and whatever attempt a handler began that had
\* read shuttingDown_ before it was set.
THEOREM CleanUpHolds == Spec => []CleanedStaysDown
<1>1. Init => CleanedStaysDown
  BY DEF Init, CleanedStaysDown
<1>2. AllInv /\ AllInv' /\ CleanedStaysDown /\ [Next]_vars => CleanedStaysDown'
  <2> SUFFICES ASSUME AllInv, AllInv', CleanedStaysDown, [Next]_vars, destructor' = "cleaned"
               PROVE  IsDown(impl')
    BY DEF CleanedStaysDown
  <2>1. ASSUME NEW t, RecordInv(t), t.stream = "null",
               \A o \in t.pending : o.kind \notin {"reconnectTimer", "idleTimer"}
        PROVE  IsDown(t)
    <3>1. t \in ImplType /\ \A kind \in OpKinds : Free(t, kind)
      BY <2>1 DEF RecordInv, IoInv
    <3>2. ASSUME NEW o \in t.pending, o.gen = t.generation PROVE o.kind = "voiceTimer"
      <4>1. o.kind \in OpKinds
        BY <3>1 DEF ImplType, Ops
      <4>2. o.kind \in ChainKinds \cup {"write"} => ~Free(t, o.kind)
        BY <3>2 DEF Free, Occupies, Compete
      <4>3. QED
        BY <2>1, <3>1, <4>1, <4>2 DEF OpKinds, TimerKinds
    <3>3. QED
      BY <2>1, <3>2 DEF IsDown
  <2>2. RecordInv(impl) /\ RecordInv(impl') /\ impl \in ImplType /\ Bounded(impl)
    BY DEF AllInv, Inv, RecordInv, IoInv
  <2>3. CASE CleanUp
    <3> DEFINE w == [impl EXCEPT !.userDisconnect = TRUE]
               u == CloseStream(w)
    <3>1. w \in ImplType /\ w.pending = impl.pending /\ w.ready = impl.ready
          /\ w.generation = impl.generation
      BY <2>2 DEF ImplType
    <3> HIDE DEF w
    <3>2. u \in ImplType /\ u.stream = "null"
      BY <2>2, <3>1, CloseLife DEF Bounded
    <3> HIDE DEF u
    <3>3. CancelTimers(u).stream = "null"
      BY <3>2, CancelTimersCalm DEF Calm
    <3>4. impl' = CancelTimers(u)
      BY <2>3 DEF CleanUp, u, w
    <3>5. QED
      BY <2>1, <2>2, <3>2, <3>3, <3>4, CancelTimersEnds DEF TimerKinds
  <2>4. CASE destructor = "cleaned"
    <3>1. impl.shuttingDown /\ IsDown(impl)
      BY <2>4 DEF AllInv, Inv, CleanedStaysDown
    <3>2. StaysDown(impl, impl')
      BY <3>1, NextLives DEF Lives
    <3>3. QED
      BY <2>1, <2>2, <3>1, <3>2 DEF IsDown, StaysDown, RT
  <2>5. CleanUp \/ destructor = "cleaned"
    <3>1. CASE RunHandler
      BY <3>1 DEF RunHandler, Handler, OnResolve, OnConnect, OnHandshake, OnLengthByte, OnBody,
                  OnWrite, OnReconnectTimer, OnIdleTimer, OnVoiceTimer, OnFailureFlagged
    <3>2. CASE Application
      BY <3>2 DEF Application, Posted, Connect, Disconnect, StartPairing, SendKey, SendText,
                  StartVoice, SendVoiceData, StopVoice, GenerateCertificate
    <3>3. CASE Environment
      BY <3>3 DEF Environment, OpSucceeds, OpFails, StaleOpEnds, TimerExpires
    <3>4. CASE Destructor
      BY <3>4 DEF Destructor, DestroyBegins, HandlerReturns, DestroyPosts, StopIo, Join
    <3>5. CASE UNCHANGED vars
      BY <3>5 DEF vars
    <3>6. QED
      BY <3>1, <3>2, <3>3, <3>4, <3>5 DEF Next
  <2>6. QED
    BY <2>3, <2>4, <2>5
<1>3. QED
  BY <1>1, <1>2, LifeInvariance, PTL DEF Spec

\* When ~Impl's join has returned no handler changes the object any more, the
\* one included that was in the middle of its work when the flag was set.
THEOREM JoinHolds == Spec => NothingRunsAfterJoin
<1>1. AllInv /\ [Next]_vars => [destructor = "joined" => UNCHANGED impl]_vars
  <2> SUFFICES ASSUME AllInv, [Next]_vars, destructor = "joined" PROVE UNCHANGED impl
    OBVIOUS
  <2>1. overtaken = "no"
    BY DEF AllInv, Inv
  <2>2. CASE RunHandler
    BY <2>1, <2>2 DEF RunHandler, Handler, Runs, Running, OnResolve, OnConnect, OnHandshake,
       OnLengthByte, OnBody, OnWrite, OnReconnectTimer, OnIdleTimer, OnVoiceTimer,
       OnFailureFlagged
  <2>3. CASE Application
    BY <2>1, <2>3 DEF Application, Posted, Runs, Running, Connect, Disconnect, StartPairing,
       SendKey, SendText, StartVoice, SendVoiceData, StopVoice, GenerateCertificate
  <2>4. CASE Environment
    BY <2>4 DEF Environment, OpSucceeds, OpFails, StaleOpEnds, TimerExpires, Running
  <2>5. CASE Destructor
    BY <2>1, <2>5 DEF Destructor, DestroyBegins, HandlerReturns, DestroyPosts, CleanUp,
                      StopIo, Join
  <2>6. CASE UNCHANGED vars
    BY <2>6 DEF vars
  <2>7. QED
    BY <2>2, <2>3, <2>4, <2>5, <2>6 DEF Next
<1>2. QED
  BY <1>1, LifeInvariance, PTL DEF Spec, NothingRunsAfterJoin

\* RemoteConnection implements ConnectionLifecycle: whatever handlers, timers,
\* calls and failures interleave, the application sees what it was promised.
THEOREM RefinesLifecycle == Spec => ImplementsLifecycle
<1>1. Init => Lifecycle!Init
  BY DEF Init, InitialImpl, Lifecycle!Init
<1>2. AllInv /\ [Next]_vars => [Lifecycle!Next]_(Lifecycle!lifecycle)
  <2> SUFFICES ASSUME AllInv, [Next]_vars
               PROVE  Lifecycle!Next \/ UNCHANGED Lifecycle!lifecycle
    BY DEF Lifecycle!lifecycle
  <2>1. Allowed(impl, impl')
    BY NextLives DEF Lives
  <2>2. impl \in ImplType /\ impl' \in ImplType
    BY NextInv DEF AllInv, Inv, RecordInv
  <2>3. /\ impl.available \in BOOLEAN /\ impl.userDisconnect \in BOOLEAN
        /\ impl.shuttingDown \in BOOLEAN
        /\ impl'.available \in BOOLEAN /\ impl'.userDisconnect \in BOOLEAN
        /\ impl'.shuttingDown \in BOOLEAN
    BY <2>2 DEF ImplType
  <2>4. CASE SameSeen(impl, impl')
    BY <2>4 DEF SameSeen, Lifecycle!lifecycle
  <2>5. CASE EstablishedStep(impl, impl')
    BY <2>3, <2>5 DEF EstablishedStep, Lifecycle!Established, Lifecycle!Next
  <2>6. CASE LostStep(impl, impl')
    BY <2>3, <2>6 DEF LostStep, Lifecycle!Lost, Lifecycle!Next
  <2>7. CASE RetryStep(impl, impl')
    BY <2>3, <2>7 DEF RetryStep, Lifecycle!Retry, Lifecycle!Next
  <2>8. CASE RefusedStep(impl, impl')
    BY <2>3, <2>8 DEF RefusedStep, Lifecycle!Refused, Lifecycle!Next
  <2>9. CASE ConnectStep(impl, impl')
    BY <2>3, <2>9 DEF ConnectStep, Lifecycle!Connect, Lifecycle!Next
  <2>10. CASE DropStep(impl, impl')
    BY <2>3, <2>10 DEF DropStep, Lifecycle!Disconnect, Lifecycle!Pair, Lifecycle!Next
  <2>11. CASE DestroyStep(impl, impl')
    BY <2>3, <2>11 DEF DestroyStep, Lifecycle!Destroy, Lifecycle!Next
  <2>12. CASE AbandonStep(impl, impl')
    BY <2>3, <2>12 DEF AbandonStep, Lifecycle!Abandon, Lifecycle!Next
  <2>13. QED
    BY <2>1, <2>4, <2>5, <2>6, <2>7, <2>8, <2>9, <2>10, <2>11, <2>12 DEF Allowed
<1>3. QED
  BY <1>1, <1>2, LifeInvariance, PTL DEF Spec, ImplementsLifecycle, Lifecycle!Spec

=============================================================================
